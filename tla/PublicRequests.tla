--------------------------- MODULE PublicRequests ---------------------------
(***************************************************************************)
(* What the world outside reads of the contracts: the page's reading of a   *)
(* stored request (apps/web/src/coston2.ts) and the public snapshots it and *)
(* the other clients exchange (packages/integrations: requests.ts, payee.ts,*)
(* evidence.ts).  A reader refuses what does not fit together, so that its  *)
(* rules are a second account, in another language, of what the router and  *)
(* the vault can do; the rules are stated here and compared with them.      *)
(*                                                                         *)
(* A snapshot keeps what the router stores; hashes are ideal.  The slot and *)
(* grace deadline of a request have no part in the router's decisions: its  *)
(* two ways of waiting are one here.                                        *)
(***************************************************************************)
EXTENDS PayGuardActionRouter

CONSTANT KnownReason    \* the codes of REASON_CODE, 0 is "OK"

ASSUME ReasonAssumption == KnownReason \subseteq Nat /\ 0 \in KnownReason

StillOpen == {"PENDING", "ALLOWED"}

-----------------------------------------------------------------------------
(* A stored request, as the page parses it.                                 *)

REQUEST_STATUSES ==
    [None |-> "NONE", Pending |-> "PENDING", Allowed |-> "ALLOWED", Denied |-> "DENIED",
     Executed |-> "EXECUTED", Expired |-> "EXPIRED", Cancelled |-> "CANCELLED"]

\* The approval fields as createRequest leaves them, and once they are set.
NoApproval == [amount |-> 0, checkpoint |-> NoCheckpoint, issuedAt |-> 0, expiry |-> 0]

approvalOf(r) ==
    IF Approved(r) = NoEvaluation THEN NoApproval
    ELSE [amount |-> Approved(r).reservedAmount, checkpoint |-> Approved(r).resultingCheckpoint,
          issuedAt |-> Approved(r).issuedAt, expiry |-> Frozen(r).expiry]

parseStoredRequest(r) ==
    LET decided == Approved(r) # NoEvaluation IN
    [request |-> Frozen(r), status |-> REQUEST_STATUSES[Status(r)],
     decision |-> IF decided THEN Approved(r).decision ELSE "PENDING",
     matchingCount |-> IF decided THEN CountOf(r, Approved(r)) ELSE 0,
     publicReasonClass |-> IF decided THEN {Approved(r).publicReasonClass} ELSE {},
     approved |-> approvalOf(r)]

\* It throws on an unknown request, and on a reason without a name.
Parses(r) ==
    Status(r) # "None" /\ parseStoredRequest(r).publicReasonClass \subseteq KnownReason

-----------------------------------------------------------------------------
(* requests.ts                                                              *)

StatusFitsDecision(s) ==
    CASE s.status = "PENDING" -> s.decision = "PENDING"
      [] s.status \in {"ALLOWED", "EXECUTED"} -> s.decision = "ALLOW"
      [] s.status = "DENIED" -> s.decision = "DENY"
      [] s.status \in {"EXPIRED", "CANCELLED"} -> s.decision # "DENY"

\* (A mutant: whatever ended without a payment had not been decided.)
validateStatusAndDecision_EndedUndecided(s) ==
    /\ StatusFitsDecision(s)
    /\ s.status \in {"EXPIRED", "CANCELLED"} => s.approved = NoApproval

validateStatusAndDecision(s) ==
    /\ StatusFitsDecision(s)
    /\ CASE s.decision = "PENDING" ->
              s.matchingCount <= 1 /\ s.publicReasonClass = {} /\ s.approved = NoApproval
         [] s.decision = "ALLOW" ->
              /\ s.matchingCount >= 2
              /\ s.approved.expiry = s.request.expiry /\ s.approved.issuedAt <= s.approved.expiry
              /\ s.publicReasonClass = {0}
              /\ s.approved.amount = s.request.amount /\ s.approved.checkpoint # NoCheckpoint
         [] s.decision = "DENY" ->
              /\ s.matchingCount >= 2
              /\ s.approved.expiry = s.request.expiry /\ s.approved.issuedAt <= s.approved.expiry
              /\ s.publicReasonClass \notin {{}, {0}}
              /\ s.approved.amount = 0 /\ s.approved.checkpoint = s.request.spendCheckpoint

\* Encoding a snapshot decodes it first: one rule for both.
decodePublicRequestSnapshot(s) ==
    /\ 0 \notin {s.request.requestNonce, s.request.amount, s.request.occurrence}
    /\ s.request.createdAt <= s.request.expiry
    /\ s.matchingCount <= 3
    /\ validateStatusAndDecision(s)

\* (A mutant: the last second of a request is taken from it.)
publicRequestReadiness_Early(s, time) ==
    CASE s.status = "PENDING" -> IF time >= s.request.expiry THEN "EXPIRED" ELSE "WAITING"
      [] s.status = "ALLOWED" -> IF time > s.approved.expiry THEN "EXPIRED" ELSE "READY_TO_EXECUTE"
      [] OTHER -> s.status

publicRequestReadiness(s, time) ==
    CASE s.status = "PENDING" -> IF time > s.request.expiry THEN "EXPIRED" ELSE "WAITING"
      [] s.status = "ALLOWED" -> IF time > s.approved.expiry THEN "EXPIRED" ELSE "READY_TO_EXECUTE"
      [] OTHER -> s.status

-----------------------------------------------------------------------------
(* payee.ts, and the receipt the page derives for the payee.                *)

requestStatus(s) ==
    CASE s.status = "ALLOWED" -> "READY"
      [] s.status = "EXECUTED" -> "SETTLED"
      [] OTHER -> s.status

NoSettlement == [transaction |-> {}, checkpoint |-> NoCheckpoint, at |-> {}]

decodePublicPayeeReceipt(receipt) ==
    LET s == receipt.request
        settlement == receipt.settlement
    IN
    /\ decodePublicRequestSnapshot(s)
    /\ receipt.status = requestStatus(s)
    /\ IF receipt.status = "SETTLED"
         THEN /\ settlement.transaction # {} /\ settlement.at # {}
              /\ settlement.checkpoint = s.approved.checkpoint
              /\ \A time \in settlement.at : time <= s.request.expiry
         ELSE settlement = NoSettlement

\* Of an executed request the page makes none: it has no receipt of its own.
derivePayeeReadState(s) ==
    [status |-> CASE s.status = "PENDING" -> "PENDING" [] s.status = "ALLOWED" -> "READY"
                  [] s.status = "DENIED" -> "DENIED" [] s.status = "EXPIRED" -> "EXPIRED"
                  [] OTHER -> "CANCELLED",
     settlement |-> NoSettlement, request |-> s]

\* What an indexer makes of the RequestExecuted event of a block of this time.
SettledReceipt(s, time) ==
    [status |-> "SETTLED", request |-> s,
     settlement |-> [transaction |-> {s.request.requestId},
                     checkpoint |-> s.approved.checkpoint, at |-> {time}]]

-----------------------------------------------------------------------------
(* evidence.ts                                                              *)

decodeConservation(entry) ==
    entry.deposited =
        entry.available + entry.reserved + entry.spent + entry.withdrawn + entry.refunded

decodePolicyEvidence(binding) ==
    binding.owner # ZeroAddress /\ Distinct(binding.machines) /\ Distinct(binding.keys)

validateExecutionStatus(s, status, transaction) ==
    /\ status = "EXECUTED" <=> transaction # {}
    /\ status = (IF s.status = "ALLOWED" THEN "NOT_EXECUTED" ELSE s.status)

decodePublicAuditEvidence(e) ==
    /\ decodePolicyEvidence(e.policy)
    /\ decodePublicRequestSnapshot(e.request)
    /\ e.policy.commitment = e.request.request.policyCommitment
    /\ e.request.decision # "PENDING"
    /\ Cardinality(e.signers) = 2
    /\ e.signers \subseteq {e.policy.machines[i] : i \in Slot}
    /\ validateExecutionStatus(e.request, e.executionStatus, e.transaction)
    /\ decodeConservation(e.conservation)

\* The evidence an auditor puts together about a decided request.
EvidenceOf(r, signers) ==
    LET s == parseStoredRequest(r)
        binding == policies[PolicyOf(r)].binding
    IN [policy |-> binding, request |-> s, signers |-> signers,
        executionStatus |-> IF s.status = "ALLOWED" THEN "NOT_EXECUTED" ELSE s.status,
        transaction |-> IF s.status = "EXECUTED" THEN {r} ELSE {},
        conservation |-> accounts[binding.owner][Frozen(r).asset]]

-----------------------------------------------------------------------------
(* What the page lets an account try.                                       *)

validateRequestTransaction(kind, account, s, policyOwner, time) ==
    CASE kind = "EXECUTE" ->
           s.status = "ALLOWED" /\ s.decision # "PENDING" /\ time <= s.approved.expiry
      [] kind = "EXPIRE" -> s.status \in StillOpen /\ time > s.request.expiry
      [] kind = "CANCEL" -> s.status \in StillOpen /\ account \in {s.request.requester, policyOwner}

Ending == [Executed |-> "EXECUTE", Expired |-> "EXPIRE", Cancelled |-> "CANCEL"]

verifyRequestPostcondition(kind, before, after) ==
    /\ after.status = CASE kind = "EXECUTE" -> "EXECUTED" [] kind = "EXPIRE" -> "EXPIRED"
                        [] kind = "CANCEL" -> "CANCELLED"
    /\ after.request = before.request

-----------------------------------------------------------------------------
(* Properties.                                                              *)

VotersFor(r) == {m \in Machine : <<m, Approved(r)>> \in evaluationAccepted[r]}

FactsDecode(r) ==
    LET s == parseStoredRequest(r) IN
    /\ decodePublicRequestSnapshot(s)
    /\ decodePublicPayeeReceipt(IF s.status = "EXECUTED" THEN SettledReceipt(s, now)
                                                         ELSE derivePayeeReadState(s))
    /\ s.decision # "PENDING" =>
         \E m, n \in VotersFor(r) : decodePublicAuditEvidence(EvidenceOf(r, {m, n}))

\* Whatever the contracts make of a request can be read and published: each
\* step that changes one leaves a request that parses and decodes, with a
\* receipt for its payee and, once decided, evidence that names two machines
\* that signed the decision -- unless it is denied for a reason no client
\* has a name for.  What the page verifies after a transaction of its own
\* holds after every such step.
PublicFactsDecode ==
    [][\A r \in RequestId : requests'[r] # requests[r] =>
         /\ IF Parses(r)' THEN FactsDecode(r)' ELSE Status(r)' = "Denied"
         /\ Status(r)' \in DOMAIN Ending =>
              verifyRequestPostcondition(Ending[Status(r)'], parseStoredRequest(r),
                                         parseStoredRequest(r)')]_vars

\* Somebody else's payment took the place in the chain this one was given.
Overtaken(r) ==
    \E q \in RequestId \ {r} :
        /\ Status(q) = "Executed" /\ PolicyOf(q) = PolicyOf(r)
        /\ Frozen(q).occurrence >= Frozen(r).occurrence

\* The reader's words are the router's deeds: a request is shown as expired
\* exactly when it can be expired, the page offers expiry and cancellation to
\* exactly those the router would let, refuses no execution that would
\* succeed, and offers one that would revert only when another payment has
\* taken the request's place or its target cannot be paid.
ReadinessIsPermission ==
    \A r \in {q \in RequestId : Parses(q)} :
        LET s == parseStoredRequest(r)
            readiness == publicRequestReadiness(s, now)
            May(kind, account) ==
                validateRequestTransaction(kind, account, s, OwnerOf(r), now)
        IN
        /\ \A a \in Address : May("EXPIRE", a) <=> ENABLED Expire(r)
        /\ \A a \in Address : May("CANCEL", a) <=> ENABLED Cancel(r, a)
        /\ s.status \in StillOpen => (readiness = "EXPIRED" <=> ENABLED Expire(r))
        /\ ENABLED Execute(r) => readiness = "READY_TO_EXECUTE"
        /\ readiness = "READY_TO_EXECUTE" <=> \A a \in Address : May("EXECUTE", a)
        /\ readiness = "READY_TO_EXECUTE" =>
             ENABLED Execute(r) \/ Overtaken(r) \/ Frozen(r).target = VaultAddress
=============================================================================
