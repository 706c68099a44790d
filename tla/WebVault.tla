-------------------------------- MODULE WebVault --------------------------------
(***************************************************************************)
(* Deposits and withdrawals from the page: an action is a plan of one or two  *)
(* transactions, each read before, signed, waited for and read after.  The     *)
(* wallet's events put the button back while an operation still runs, so       *)
(* operations overlap; the account also acts from other devices.  Of the       *)
(* chain, what has been finalized is modelled; a transaction that was waited   *)
(* for in vain may still get there.                                            *)
(***************************************************************************)
EXTENDS WebWallet

CONSTANTS
    Amount,
    Tokens,         \* what each account has of the token
    Operation       \* slots for the operations that run at the same time

\* An amount that is not positive is refused as it is entered.
ASSUME AmountAssumption == Amount \subseteq Nat \ {0} /\ Tokens \in Nat

VARIABLES
    vault,          \* token, allowance and accounting of each account
    history,        \* the finalized changes, one after the other
    signed,         \* the page's transactions
    vaultTransactionState,
    operations

vaultWebVars == <<vault, history, signed, vaultTransactionState, operations>>

NoOperation == [at |-> "none"]
VaultState(status, completed) == [status |-> status, completed |-> completed]

VaultInit ==
    /\ vault = [a \in Account |-> [token |-> Tokens, allowance |-> 0, deposited |-> 0,
                                   available |-> 0, spent |-> 0, withdrawn |-> 0]]
    /\ history = <<>>
    /\ signed = <<>>
    /\ vaultTransactionState = VaultState("IDLE", <<>>)
    /\ operations = [o \in Operation |-> NoOperation]

-----------------------------------------------------------------------------
(* The chain                                                                *)

Permits(v, kind, amount) ==
    CASE kind = "APPROVE" -> TRUE
      [] kind = "DEPOSIT" -> amount <= v.token /\ amount <= v.allowance
      [] kind \in {"WITHDRAW", "SPEND"} -> amount <= v.available

Changed(v, kind, amount) ==
    CASE kind = "APPROVE" -> [v EXCEPT !.allowance = amount]
      [] kind = "DEPOSIT" -> [v EXCEPT !.token = @ - amount, !.allowance = @ - amount,
                                       !.deposited = @ + amount, !.available = @ + amount]
      [] kind = "WITHDRAW" -> [v EXCEPT !.token = @ + amount, !.available = @ - amount,
                                        !.withdrawn = @ + amount]
      [] kind = "SPEND" -> [v EXCEPT !.available = @ - amount, !.spent = @ + amount]

Finalize(account, kind, amount, tx) ==
    /\ vault' = [vault EXCEPT ![account] = Changed(@, kind, amount)]
    /\ history' = Append(history, [account |-> account, kind |-> kind, tx |-> tx])

\* Another device of an account the page acts for, or the router that pays out.
Elsewhere ==
    /\ \E o \in Operation, amount \in Amount, kind \in {"APPROVE", "DEPOSIT", "WITHDRAW", "SPEND"} :
          /\ operations[o] # NoOperation
          /\ Permits(vault[operations[o].account], kind, amount)
          /\ Finalize(operations[o].account, kind, amount, 0)
    /\ UNCHANGED <<signed, vaultTransactionState, operations>>

MineSigned ==
    /\ \E i \in DOMAIN signed :
          LET tx == signed[i] IN
          /\ tx.state = "pending"
          /\ IF Permits(vault[tx.account], tx.kind, tx.amount)
             THEN /\ signed' = [signed EXCEPT ![i].state = "final"]
                  /\ Finalize(tx.account, tx.kind, tx.amount, i)
             ELSE /\ signed' = [signed EXCEPT ![i].state = "reverted"]
                  /\ UNCHANGED <<vault, history>>
    /\ UNCHANGED <<vaultTransactionState, operations>>

loadCoston2AccountSnapshot(a) == [account |-> a, block |-> Len(history), money |-> vault[a]]

-----------------------------------------------------------------------------
(* One action of the user                                                   *)

validateVaultTransaction(kind, amount, v) ==
    /\ kind \in {"APPROVE", "DEPOSIT"} => amount <= v.token
    /\ kind = "DEPOSIT" => amount <= v.allowance
    /\ kind = "WITHDRAW" => amount <= v.available

\* The transactions the action takes, or none if it is refused.
planVaultUserAction(action, amount, v) ==
    IF action = "WITHDRAW"
    THEN IF validateVaultTransaction("WITHDRAW", amount, v) THEN <<"WITHDRAW">> ELSE <<>>
    ELSE IF amount > v.token THEN <<>>
    ELSE IF v.allowance < amount THEN <<"APPROVE", "DEPOSIT">> ELSE <<"DEPOSIT">>

\* Prepared and submitted in one go; the buttons need a snapshot and no
\* operation the page knows of.
prepareVaultTransaction(o, action, amount) ==
    LET plan == planVaultUserAction(action, amount, coston2State.snapshot.money) IN
    /\ operations[o] = NoOperation
    /\ liveSnapshot
    /\ vaultTransactionState.status # "SUBMITTING"
    /\ IF plan # <<>> /\ Connected
       THEN /\ vaultTransactionState' = VaultState("SUBMITTING", <<>>)
            /\ operations' = [operations EXCEPT
                  ![o] = [at |-> "before", account |-> walletState.account, amount |-> amount,
                          steps |-> plan, before |-> NoSnapshot, tx |-> 0, completed |-> <<>>]]
       ELSE /\ vaultTransactionState' = VaultState("ERROR", <<>>)
            /\ UNCHANGED operations
    /\ UNCHANGED <<vault, history, signed, walletVars>>

\* executeVaultTransaction reads the account once more and checks.
ReadBefore(o) ==
    LET op == operations[o] IN
    /\ op.at = "before"
    /\ validateVaultTransaction(Head(op.steps), op.amount, vault[op.account])
    /\ operations' = [operations EXCEPT
          ![o] = [op EXCEPT !.at = "prompt", !.before = loadCoston2AccountSnapshot(op.account)]]
    /\ UNCHANGED <<vault, history, signed, vaultTransactionState, walletVars>>

\* Simulated, shown by the wallet, confirmed and broadcast.
executeVaultTransaction(o) ==
    LET op == operations[o] IN
    /\ op.at = "prompt"
    /\ provider.chain = "coston2"
    /\ Permits(vault[op.account], Head(op.steps), op.amount)
    /\ signed' = Append(signed, [account |-> op.account, kind |-> Head(op.steps),
                                 amount |-> op.amount, state |-> "pending"])
    /\ operations' = [operations EXCEPT ![o] = [op EXCEPT !.at = "receipt", !.tx = Len(signed) + 1]]
    /\ UNCHANGED <<vault, history, vaultTransactionState, walletVars>>

\* A mutant: any receipt will do.
waitForFinalizedReceipt_AnyStatus(tx) == signed[tx].state # "pending"

\* The receipt is one of success, with the event of the transaction, and final.
waitForFinalizedReceipt(tx) == signed[tx].state = "final"

verifyVaultPostcondition(kind, amount, v, w) ==
    IF kind = "APPROVE" THEN w = [v EXCEPT !.allowance = amount]
    ELSE [w EXCEPT !.allowance = 0] = [Changed(v, kind, amount) EXCEPT !.allowance = 0]

Verified(o) ==
    LET op == operations[o]
        done == Append(op.completed, [kind |-> Head(op.steps), tx |-> op.tx,
                                      from |-> op.before.block, to |-> Len(history)])
    IN
    /\ op.at = "receipt"
    /\ waitForFinalizedReceipt(op.tx)
    /\ verifyVaultPostcondition(Head(op.steps), op.amount, op.before.money, vault[op.account])
    /\ connectedAccount = op.account
    /\ coston2State' = [status |-> "READY", snapshot |-> loadCoston2AccountSnapshot(op.account)]
    /\ IF Len(op.steps) > 1
       THEN /\ operations' = [operations EXCEPT
                  ![o] = [op EXCEPT !.at = "before", !.steps = Tail(@), !.completed = done]]
            /\ vaultTransactionState' = VaultState("SUBMITTING", done)
       ELSE /\ operations' = [operations EXCEPT ![o] = NoOperation]
            /\ vaultTransactionState' = VaultState("SUCCESS", done)
    /\ UNCHANGED <<vault, history, signed, provider, events, moves, walletState,
                   liveReadSequence, conversations, reads>>

\* A read, the simulation, the user, the wait or a check ends the operation;
\* what was signed stays signed.
OperationFails(o) ==
    LET op == operations[o] IN
    /\ op # NoOperation
    /\ operations' = [operations EXCEPT ![o] = NoOperation]
    /\ vaultTransactionState' = VaultState("ERROR", op.completed)
    /\ IF Connected
       THEN refreshCoston2State
       ELSE UNCHANGED walletVars
    /\ UNCHANGED <<vault, history, signed>>

\* The amount is edited: an error is cleared.
AmountEdited ==
    /\ vaultTransactionState.status = "ERROR"
    /\ vaultTransactionState' = VaultState("IDLE", <<>>)
    /\ UNCHANGED <<vault, history, signed, operations, walletVars>>

\* The part of walletChanged that concerns the vault panel: the operation
\* itself goes on.
VaultPanelReset ==
    /\ vaultTransactionState' = VaultState("IDLE", <<>>)
    /\ UNCHANGED <<vault, history, signed, operations>>

VaultStep ==
    \/ \E o \in Operation :
          \/ \E amount \in Amount, action \in {"DEPOSIT", "WITHDRAW"} :
                prepareVaultTransaction(o, action, amount)
          \/ ReadBefore(o)
          \/ executeVaultTransaction(o)
          \/ Verified(o)
          \/ OperationFails(o)
    \/ AmountEdited
    \/ (Elsewhere \/ MineSigned) /\ UNCHANGED walletVars

-----------------------------------------------------------------------------
(* Properties                                                               *)

\* The account's deposits, withdrawals and payments between two reads.
Movements(account, from, to) ==
    {n \in from + 1 .. to : history[n].account = account /\ history[n].kind # "APPROVE"}

\* A success on the page is one: every transaction it lists is final, did
\* what it is listed for, and is the only movement of the account between the
\* reads around it, although operations overlap, waits end before the
\* transaction does, and the account acts elsewhere.
SuccessIsOneMovement ==
    vaultTransactionState.status = "SUCCESS" =>
        \A i \in DOMAIN vaultTransactionState.completed :
           LET e == vaultTransactionState.completed[i] IN
           /\ signed[e.tx].state = "final"
           /\ signed[e.tx].kind = e.kind
           /\ \A n \in Movements(signed[e.tx].account, e.from, e.to) : history[n].tx = e.tx
===============================================================================
