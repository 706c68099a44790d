---------------------------- MODULE PaymentLedger ----------------------------
(***************************************************************************)
(* What the vault, the registry and the router promise together, without    *)
(* machines, signatures, checkpoints or a clock: a request is open until    *)
(* its amount is held or it is closed; a held amount is paid once or        *)
(* returned once; and each policy's payments form one ledger that only      *)
(* grows at its end, in the order of the times they are accounted at.       *)
(***************************************************************************)
EXTENDS PayGuardTypes

CONSTANT Owner

VARIABLES
    phase,      \* phase[requestId]: open, held, paid or closed
    hold,       \* hold[requestId]: whose money is held, while it is
    free,       \* free[owner][asset]: money the owner may still withdraw
    paid,       \* paid[owner][asset]: money paid so far
    ledger      \* ledger[policy]: the payments made, oldest first

ledgerVars == <<phase, hold, free, paid, ledger>>

Nothing == [amount |-> 0]

LedgerInit ==
    /\ phase = [r \in RequestId |-> "open"]
    /\ hold = [r \in RequestId |-> Nothing]
    /\ free = [o \in Owner |-> [a \in Asset |-> 0]]
    /\ paid = [o \in Owner |-> [a \in Asset |-> 0]]
    /\ ledger = [p \in Policy |-> <<>>]

Hold(r, o, a, n) ==
    /\ phase[r] = "open"
    /\ phase' = [phase EXCEPT ![r] = "held"]
    /\ hold' = [hold EXCEPT ![r] = [owner |-> o, asset |-> a, amount |-> n]]
    /\ free' = [free EXCEPT ![o][a] = @ - n]
    /\ UNCHANGED <<paid, ledger>>

\* The policy's ledger keeps its past and gains r at the end, at a time no
\* earlier than any before.
Extends(p, r) ==
    LET n == Len(ledger[p]) + 1 IN
    /\ Len(ledger'[p]) = n
    /\ \A i \in 1..n - 1 : /\ ledger'[p][i] = ledger[p][i]
                           /\ ledger[p][i].accountedAt <= ledger'[p][n].accountedAt
    /\ ledger'[p][n].requestId = r
    /\ \A q \in Policy \ {p} : ledger'[q] = ledger[q]

Pay(r, p) ==
    LET h == hold[r] IN
    /\ phase[r] = "held"
    /\ phase' = [phase EXCEPT ![r] = "paid"]
    /\ hold' = [hold EXCEPT ![r] = Nothing]
    /\ paid' = [paid EXCEPT ![h.owner][h.asset] = @ + h.amount]
    /\ Extends(p, r)
    /\ UNCHANGED free

CloseUnheld(r) ==
    /\ phase[r] = "open"
    /\ phase' = [phase EXCEPT ![r] = "closed"]
    /\ UNCHANGED <<hold, free, paid, ledger>>

ReturnHeld(r) ==
    LET h == hold[r] IN
    /\ phase[r] = "held"
    /\ phase' = [phase EXCEPT ![r] = "closed"]
    /\ hold' = [hold EXCEPT ![r] = Nothing]
    /\ free' = [free EXCEPT ![h.owner][h.asset] = @ + h.amount]
    /\ UNCHANGED <<paid, ledger>>

\* A deposit or a withdrawal of one owner in one asset: held and paid money
\* is out of the owner's reach.
Refill(o, a) ==
    /\ free' \in [Owner -> [Asset -> Nat]]
    /\ \A q \in Owner, b \in Asset : <<q, b>> # <<o, a>> => free'[q][b] = free[q][b]
    /\ UNCHANGED <<phase, hold, paid, ledger>>

LedgerNext ==
    \/ \E r \in RequestId : CloseUnheld(r) \/ ReturnHeld(r)
    \/ \E r \in RequestId, p \in Policy : Pay(r, p)
    \/ \E r \in RequestId, o \in Owner, a \in Asset : \E n \in 1..free[o][a] :
         Hold(r, o, a, n)
    \/ \E o \in Owner, a \in Asset : Refill(o, a)

LedgerSpec == LedgerInit /\ [][LedgerNext]_ledgerVars
=============================================================================
