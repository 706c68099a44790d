--------------------------- MODULE DeployerAccount ---------------------------
(***************************************************************************)
(* What the deployment scripts under tooling/ see of Coston2: the account   *)
(* they sign with, the transactions it has broadcast, the node's pool, and  *)
(* the contracts and bindings that its mined transactions have made.        *)
(*                                                                         *)
(* Only this account administers these contracts, so the chain is the       *)
(* sequence of its mined transactions: the i-th has nonce i - 1, and a      *)
(* contract it creates has address i (getContractAddress is a function of   *)
(* account and nonce).  Address 0 is the zero address, and transaction 0    *)
(* stands for no transaction.                                               *)
(***************************************************************************)
EXTENDS Naturals, Sequences, FiniteSets, FiniteSetsExt, Functions

CONSTANT MaxTroubles        \* bound: crashes, foreign and forgotten transactions

ASSUME TroublesAssumption == MaxTroubles \in Nat

VARIABLES
    mined,      \* transactions of the account, in nonce order, with their status
    signed,     \* every transaction ever broadcast
    visible,    \* those the node keeps in its pool
    troubles    \* how often each kind of trouble has happened

accountVars == <<mined, signed, visible, troubles>>

Zero == 0

\* A call or a creation: the function or the contract, the address called and
\* the addresses passed.
Op(fn, to, args) == [fn |-> fn, to |-> to, args |-> args]

NoTx == [nonce |-> 0, op |-> Op("none", Zero, <<>>), id |-> 0]

TroubleKind == {"crash", "foreign", "forgotten", "slow"}

Trouble(kind) ==
    /\ SumFunction(troubles) < MaxTroubles
    /\ troubles' = [troubles EXCEPT ![kind] = @ + 1]

-----------------------------------------------------------------------------
(* Reads *)

ContractName == {"registry", "vault", "router", "trigger", "sender", "dispatcher"}

HasCode(a) == a \in DOMAIN mined /\ mined[a].ok /\ mined[a].tx.op.fn \in ContractName

\* The runtime code is that contract's (verifyRuntimeBytecode).
Runs(a, name) == HasCode(a) /\ mined[a].tx.op.fn = name

Calls(fn, to) == {i \in DOMAIN mined : mined[i].ok /\ mined[i].tx.op.fn = fn
                                                   /\ mined[i].tx.op.to = to}

Done(op) == \E i \in DOMAIN mined : mined[i].ok /\ mined[i].tx.op = op

\* The first argument of the one call that may succeed, or zero before it.
SetOnce(fn, to) == LET S == Calls(fn, to) IN
    IF S = {} THEN Zero ELSE mined[Max(S)].tx.op.args[1]

RouterOf(vault) == SetOnce("setRouter", vault)

ExtensionOf(sender) == SetOnce("setExtensionIdExplicit", sender)

Registrations(sender) == {i \in DOMAIN mined : /\ mined[i].ok
                                               /\ mined[i].tx.op = Op("register", Zero, <<sender>>)}

\* An extension is known by the transaction that registered it; its sender is
\* the one registered or set last.
SenderOf(extension) ==
    LET Sets == {i \in Calls("setExtensionContracts", Zero) :
                   mined[i].tx.op.args[1] = extension} IN
    IF Sets # {} THEN mined[Max(Sets)].tx.op.args[2]
    ELSE IF extension \in Calls("register", Zero) THEN mined[extension].tx.op.args[1] ELSE Zero

Confirmed(t) == t.nonce + 1 \in DOMAIN mined /\ mined[t.nonce + 1].tx = t

Status(t) == mined[t.nonce + 1].ok

\* getTransactionCount with the pending tag: the next nonce without a gap.
PendingCount ==
    Min({n \in Len(mined)..(Len(mined) + Cardinality(visible)) :
           \A t \in visible : t.nonce # n})

Accepts_Replaces(n) == n >= Len(mined)

Accepts(n) == n >= Len(mined) /\ \A t \in visible : t.nonce # n

-----------------------------------------------------------------------------
(* Contracts *)

\* Whether an operation succeeds on the chain as it is.
Succeeds(op) ==
    CASE op.fn = "setRouter" -> HasCode(op.to) /\ RouterOf(op.to) = Zero
      [] op.fn = "setSupportedAsset" -> HasCode(op.to)
      [] op.fn = "setExtensionIdExplicit" ->
           HasCode(op.to) /\ ExtensionOf(op.to) = Zero /\ SenderOf(op.args[1]) = op.to
      [] op.fn = "registerMachine" -> HasCode(op.to) /\ ~Done(op)
      [] OTHER -> TRUE

\* A version allowed twice is the manager's affair: it may refuse or not.
Outcomes(op) ==
    IF op.fn = "addTeeVersion" /\ Done(op) THEN BOOLEAN ELSE {Succeeds(op)}

-----------------------------------------------------------------------------
(* Transactions *)

NewTx(n, op) == [nonce |-> n, op |-> op, id |-> Cardinality(signed) + 1]

Broadcast(t) ==
    /\ signed' = signed \cup {t}
    /\ visible' = visible \cup {t}
    /\ UNCHANGED <<mined, troubles>>

Mine(t) ==
    /\ t \in visible
    /\ t.nonce = Len(mined)
    /\ \E ok \in Outcomes(t.op) : mined' = Append(mined, [tx |-> t, ok |-> ok])
    /\ visible' = visible \ {t}
    /\ UNCHANGED <<signed, troubles>>

\* The node drops a transaction from its pool; whoever saw it may bring it back.
Forget(t) ==
    /\ t \in visible
    /\ Trouble("forgotten")
    /\ visible' = visible \ {t}
    /\ UNCHANGED <<mined, signed>>

Remember(t) ==
    /\ t \in signed \ visible
    /\ Accepts(t.nonce)
    /\ visible' = visible \cup {t}
    /\ UNCHANGED <<mined, signed, troubles>>

\* The account is used for something else.
Foreign ==
    LET t == NewTx(PendingCount, Op("foreign", Zero, <<>>)) IN
    /\ Trouble("foreign")
    /\ signed' = signed \cup {t}
    /\ visible' = visible \cup {t}
    /\ UNCHANGED mined

Chain == \E t \in signed : Mine(t)

Environment == Foreign \/ \E t \in signed : Forget(t) \/ Remember(t)
=============================================================================
