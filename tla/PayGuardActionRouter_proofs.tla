-------------------- MODULE PayGuardActionRouter_proofs --------------------
(***************************************************************************)
(* Proofs about the three contracts together: types, the agreement of      *)
(* router and vault about every hold, and the two machines behind every    *)
(* decision; what the vault owes; the spend checkpoint; and the payment    *)
(* ledger they implement; then the FDC trigger with the three contracts    *)
(* behind it: its requests correspond to payments made on the XRP Ledger;  *)
(* then the readers of requests, receipts and evidence, next to the router.*)
(* For any sets of owners, policies, requests, machines and payments.      *)
(***************************************************************************)
EXTENDS PayGuardXrplFdcTrigger, PublicRequests, PayGuardVaultRegistry_proofs

\* The three machines frozen in the policy of r.
FrozenMachines(r) == {policies[PolicyOf(r)].binding.machines[i] : i \in Slot}

-----------------------------------------------------------------------------
(* The inductive invariant, request by request.                            *)

\* A request exists only under a registered policy, whose binding is final.
UnderPolicy(r) == Status(r) # "None" => Registered(PolicyOf(r))

\* Nobody votes before a request exists: creating it starts from nothing.
NothingBefore(r) ==
    Status(r) = "None" =>
        /\ Approved(r) = NoEvaluation
        /\ evaluationAccepted[r] = {}
        /\ DOMAIN digestCounts[r] = {}

\* A vote was cast by a machine of the policy, which is marked as having voted,
\* and a digest is counted only if somebody signed it.
VotesAreMachines(r) ==
    \A v \in evaluationAccepted[r] :
        v[1] \in machineSubmitted[r] /\ v[1] \in FrozenMachines(r)

CountsAreVotes(r) ==
    \A d \in DOMAIN digestCounts[r] :
        \E m \in Machine : <<m, d>> \in evaluationAccepted[r]

AgreedByTwo(r) ==
    Approved(r) # NoEvaluation =>
        \E m, n \in FrozenMachines(r) :
            /\ m # n
            /\ <<m, Approved(r)>> \in evaluationAccepted[r]
            /\ <<n, Approved(r)>> \in evaluationAccepted[r]

HoldAgrees(r) ==
    /\ reservations[r].active <=> Status(r) = "Allowed"
    /\ Status(r) = "Allowed" =>
         /\ reservations[r].owner = OwnerOf(r)
         /\ reservations[r].asset = Frozen(r).asset
         /\ reservations[r].amount = Frozen(r).amount

RequestInv(r) ==
    /\ UnderPolicy(r) /\ NothingBefore(r)
    /\ VotesAreMachines(r) /\ CountsAreVotes(r)
    /\ AgreedByTwo(r) /\ HoldAgrees(r)

RouterInv ==
    /\ VaultInv /\ RegistryTypeOK /\ RouterTypeOK
    /\ DOMAIN digestCounts = RequestId
    /\ \A r \in RequestId : RequestInv(r)

-----------------------------------------------------------------------------
(* Operators.                                                              *)

LEMMA CheckpointsTyped ==
    /\ \A p \in Policy : genesisSpendCheckpoint(p) \in Checkpoint
    /\ \A request \in ActionRequest, t \in Nat :
         nextSpendCheckpoint(request, t) \in Checkpoint
<1>1. ASSUME NEW p \in Policy
      PROVE  genesisSpendCheckpoint(p) \in Checkpoint
  BY DEF genesisSpendCheckpoint, Checkpoint
<1>2. ASSUME NEW request \in ActionRequest, NEW t \in Nat
      PROVE  nextSpendCheckpoint(request, t) \in Checkpoint
  <2> DEFINE c == request.spendCheckpoint
  <2> DEFINE payment == [requestId |-> request.requestId, accountedAt |-> t]
  <2>1. c \in [policy: Policy, history: Seq(Payment)] /\ payment \in Payment
    BY DEF ActionRequest, Checkpoint, Payment
  <2>2. Append(c.history, payment) \in Seq(Payment)
    BY <2>1
  <2>3. nextSpendCheckpoint(request, t) = [c EXCEPT !.history = Append(c.history, payment)]
    BY DEF nextSpendCheckpoint
  <2> HIDE DEF c, payment
  <2> QED BY <2>1, <2>2, <2>3 DEF Checkpoint
<1> QED BY <1>1, <1>2

\* A checkpoint a caller can know is a checkpoint.
LEMMA KnownCheckpointsTyped ==
    ASSUME RouterTypeOK, NEW p \in Policy
    PROVE  KnownCheckpoints(p) \subseteq Checkpoint
<1>1. ASSUME NEW r \in RequestId, Approved(r) # NoEvaluation
      PROVE  Approved(r).resultingCheckpoint \in Checkpoint
  BY <1>1 DEF RouterTypeOK, StoredRequest, Approved, EvaluationResult
<1> QED BY <1>1, CheckpointsTyped DEF KnownCheckpoints, RouterTypeOK

LEMMA PlacedRequestTyped ==
    ASSUME NEW input \in RequestInput, NEW occurrence \in 1..MaxOccurrence,
           NEW checkpoint \in Checkpoint
    PROVE  /\ PlacedRequest(input, checkpoint, occurrence) \in ActionRequest
           /\ PlacedRequest(input, checkpoint, occurrence).requestId = input.requestId
<1>1. input \in RequestInputType /\ occurrence \in Nat
  BY RouterAssumption
<1> QED BY <1>1 DEF PlacedRequest, ActionRequest, RequestInputType

LEMMA CandidateResultsTyped ==
    ASSUME NEW request \in ActionRequest
    PROVE  CandidateResults(request) \subseteq EvaluationResult
<1>1. \A t \in IssuedAt : nextSpendCheckpoint(request, t) \in Checkpoint
  BY RouterAssumption, CheckpointsTyped
<1>2. {request.spendCheckpoint} \cup {nextSpendCheckpoint(request, t) : t \in IssuedAt}
        \subseteq Checkpoint
  BY <1>1 DEF ActionRequest
<1>3. Reason \subseteq Nat /\ IssuedAt \subseteq Nat /\ {0, request.amount} \subseteq Nat
  BY RouterAssumption DEF ActionRequest
<1> QED BY <1>2, <1>3 DEF CandidateResults, EvaluationResult

-----------------------------------------------------------------------------
(* What a step must not disturb.                                           *)

LEMMA QuietVault ==
    ASSUME VaultInv, UNCHANGED vaultVars
    PROVE  VaultInv'
BY DEF vaultVars, VaultInv, VaultTypeOK, ReservationsNameAccounts, Conservation, Conserves

\* A request whose records a step leaves alone keeps its invariant.
LEMMA UntouchedRequest ==
    ASSUME RouterTypeOK, BindingsAreFinal, NEW q \in RequestId, RequestInv(q),
           requests'[q] = requests[q], reservations'[q] = reservations[q],
           machineSubmitted'[q] = machineSubmitted[q],
           digestCounts'[q] = digestCounts[q],
           evaluationAccepted'[q] = evaluationAccepted[q]
    PROVE  RequestInv(q)'
<1>1. /\ Status(q)' = Status(q) /\ Frozen(q)' = Frozen(q)
      /\ Approved(q)' = Approved(q) /\ PolicyOf(q)' = PolicyOf(q)
  BY DEF Status, Frozen, Approved, PolicyOf
<1>2. CASE Status(q) = "None"
  BY <1>1, <1>2 DEF RequestInv, UnderPolicy, NothingBefore, VotesAreMachines,
     CountsAreVotes, AgreedByTwo, HoldAgrees
<1>3. CASE Status(q) # "None"
  <2>1. PolicyOf(q) \in Policy /\ Registered(PolicyOf(q))
    BY <1>3 DEF RouterTypeOK, ActionRequest, PolicyOf, RequestInv, UnderPolicy
  <2>2. /\ Registered(PolicyOf(q))'
        /\ policies'[PolicyOf(q)].binding = policies[PolicyOf(q)].binding
    BY <1>1, <2>1 DEF BindingsAreFinal, Registered
  <2>3. FrozenMachines(q)' = FrozenMachines(q) /\ OwnerOf(q)' = OwnerOf(q)
    BY <1>1, <2>2 DEF FrozenMachines, OwnerOf
  <2> QED BY <1>1, <1>3, <2>2, <2>3 DEF RequestInv, UnderPolicy, NothingBefore,
          VotesAreMachines, CountsAreVotes, AgreedByTwo, HoldAgrees
<1> QED BY <1>2, <1>3

-----------------------------------------------------------------------------
(* createRequest                                                            *)

\* What callers can place is a request, whatever they put into it.
LEMMA CreatedIsRequest ==
    ASSUME RouterInv, CreateNext
    PROVE  \E request \in ActionRequest, sender \in Address : CreateRequest(request, sender)
<1>1. PICK input \in RequestInput, occurrence \in 1..MaxOccurrence :
        \E checkpoint \in KnownCheckpoints(input.policyCommitment), sender \in Address :
          CreateRequest(PlacedRequest(input, checkpoint, occurrence), sender)
  BY DEF CreateNext
<1>2. input \in RequestInputType /\ input.policyCommitment \in Policy
  BY RouterAssumption DEF RequestInputType
<1> QED BY <1>1, <1>2, KnownCheckpointsTyped, PlacedRequestTyped DEF RouterInv

LEMMA CreateStep ==
    ASSUME RouterInv, NEW request \in ActionRequest, NEW sender \in Address,
           CreateRequest(request, sender)
    PROVE  RouterInv'
<1> DEFINE r == request.requestId
<1> DEFINE p == request.policyCommitment
<1>1. /\ r \in RequestId /\ p \in Policy /\ request.requestNonce \in Nat
      /\ Status(r) = "None" /\ Registered(p)
      /\ nonceUsed' = [nonceUsed EXCEPT ![p] = @ \cup {request.requestNonce}]
      /\ requests' = [requests EXCEPT ![r] =
           [status |-> "Pending", request |-> request, approved |-> NoEvaluation]]
      /\ UNCHANGED <<machineSubmitted, digestCounts, spendState, evaluationAccepted>>
      /\ UNCHANGED <<vaultVars, registryVars>>
  BY DEF CreateRequest, ActionRequest, effectiveStatus, Registered
<1>2. VaultInv' /\ RegistryTypeOK' /\ BindingsAreFinal
  BY <1>1, QuietVault, QuietRegistry DEF RouterInv
<1>3. [status |-> "Pending", request |-> request, approved |-> NoEvaluation] \in StoredRequest
  BY DEF StoredRequest, RequestStatus
<1>4. requests \in [RequestId -> StoredRequest]
  BY DEF RouterInv, RouterTypeOK
<1>5. RouterTypeOK'
  <2>1. requests' \in [RequestId -> StoredRequest]
    BY <1>1, <1>3, <1>4
  <2>2. \A q \in RequestId : Status(q)' # "None" =>
           Frozen(q)' \in ActionRequest /\ Frozen(q)'.requestId = q
    BY <1>1, <1>4 DEF RouterInv, RouterTypeOK, Status, Frozen
  <2>3. \A q \in RequestId : Status(q)' \in {"Allowed", "Denied", "Executed"} =>
           Approved(q)' \in EvaluationResult
    BY <1>1, <1>4 DEF RouterInv, RouterTypeOK, Status, Approved
  <2>4. nonceUsed' \in [Policy -> SUBSET Nat]
    BY <1>1 DEF RouterInv, RouterTypeOK
  <2> QED BY <1>1, <2>1, <2>2, <2>3, <2>4 DEF RouterInv, RouterTypeOK
<1>6. RequestInv(r)'
  <2>1. /\ Status(r)' = "Pending" /\ Approved(r)' = NoEvaluation /\ PolicyOf(r)' = p
    BY <1>1, <1>4 DEF Status, Approved, PolicyOf, Frozen
  <2>2. /\ evaluationAccepted'[r] = {} /\ DOMAIN digestCounts'[r] = {}
        /\ ~reservations'[r].active
    BY <1>1 DEF RouterInv, RequestInv, NothingBefore, HoldAgrees, vaultVars
  <2>3. Registered(p)'
    BY <1>1 DEF Registered, registryVars
  <2> QED BY <2>1, <2>2, <2>3 DEF RequestInv, UnderPolicy, NothingBefore, VotesAreMachines,
          CountsAreVotes, AgreedByTwo, HoldAgrees, Registered
<1>7. ASSUME NEW q \in RequestId, q # r
       PROVE  RequestInv(q)'
  <2>1. /\ requests'[q] = requests[q] /\ reservations'[q] = reservations[q]
        /\ machineSubmitted'[q] = machineSubmitted[q]
        /\ digestCounts'[q] = digestCounts[q]
        /\ evaluationAccepted'[q] = evaluationAccepted[q]
    BY <1>1, <1>4, <1>7 DEF vaultVars
  <2> QED BY <1>2, <2>1, UntouchedRequest DEF RouterInv
<1> QED BY <1>1, <1>2, <1>5, <1>6, <1>7 DEF RouterInv

-----------------------------------------------------------------------------
(* submitEvaluation                                                         *)

\* A vote, whatever it decides: the bookkeeping of submitters and digests.
LEMMA VoteTyped ==
    ASSUME RouterInv, NEW r \in RequestId, NEW m \in Machine, NEW key, NEW signer,
           NEW result \in EvaluationResult, SubmitEvaluation(r, m, key, signer, result)
    PROVE  /\ machineSubmitted' \in [RequestId -> SUBSET Machine]
           /\ evaluationAccepted' \in [RequestId -> SUBSET (Machine \X EvaluationResult)]
           /\ DOMAIN digestCounts' = RequestId
           /\ \A q \in RequestId : \A d \in DOMAIN digestCounts'[q] :
                d \in EvaluationResult /\ digestCounts'[q][d] \in Nat
<1> DEFINE count == CountOf(r, result) + 1
<1> DEFINE counts == [d \in DOMAIN digestCounts[r] \cup {result} |->
                        IF d = result THEN count ELSE digestCounts[r][d]]
<1>1. /\ machineSubmitted' = [machineSubmitted EXCEPT ![r] = @ \cup {m}]
      /\ evaluationAccepted' = [evaluationAccepted EXCEPT ![r] = @ \cup {<<m, result>>}]
      /\ digestCounts' = [digestCounts EXCEPT ![r] = counts]
  BY DEF SubmitEvaluation
<1>2. /\ machineSubmitted \in [RequestId -> SUBSET Machine]
      /\ evaluationAccepted \in [RequestId -> SUBSET (Machine \X EvaluationResult)]
      /\ DOMAIN digestCounts = RequestId
      /\ \A q \in RequestId : \A d \in DOMAIN digestCounts[q] :
           d \in EvaluationResult /\ digestCounts[q][d] \in Nat
  BY DEF RouterInv, RouterTypeOK
<1>3. count \in Nat
  BY <1>2 DEF CountOf
<1>4. \A d \in DOMAIN counts : d \in EvaluationResult /\ counts[d] \in Nat
  BY <1>2, <1>3
<1> HIDE DEF counts
<1>5. /\ DOMAIN digestCounts' = RequestId /\ digestCounts'[r] = counts
      /\ \A q \in RequestId : q # r => digestCounts'[q] = digestCounts[q]
  BY <1>1, <1>2
<1>6. \A q \in RequestId : \A d \in DOMAIN digestCounts'[q] :
        d \in EvaluationResult /\ digestCounts'[q][d] \in Nat
  BY <1>2, <1>4, <1>5
<1> QED BY <1>1, <1>2, <1>5, <1>6

\* The voter is a machine of the policy that has not voted; the digests of
\* which there is a count each have a voter.
LEMMA VotesKept ==
    ASSUME RouterInv, NEW r \in RequestId, NEW m \in Machine, NEW key, NEW signer,
           NEW result \in EvaluationResult, SubmitEvaluation(r, m, key, signer, result),
           FrozenMachines(r)' = FrozenMachines(r)
    PROVE  /\ VotesAreMachines(r)' /\ CountsAreVotes(r)'
           /\ m \in FrozenMachines(r) /\ m \notin machineSubmitted[r]
           /\ evaluationAccepted'[r] = evaluationAccepted[r] \cup {<<m, result>>}
<1>1. /\ machineSubmitted'[r] = machineSubmitted[r] \cup {m}
      /\ evaluationAccepted'[r] = evaluationAccepted[r] \cup {<<m, result>>}
      /\ DOMAIN digestCounts'[r] = DOMAIN digestCounts[r] \cup {result}
  BY DEF SubmitEvaluation, RouterInv, RouterTypeOK
<1>2. m \in FrozenMachines(r) /\ m \notin machineSubmitted[r]
  BY DEF SubmitEvaluation, isFrozenSigner, FrozenMachines, FirstVote
<1>3. VotesAreMachines(r) /\ CountsAreVotes(r)
  BY DEF RouterInv, RequestInv
<1>4. VotesAreMachines(r)'
  BY <1>1, <1>2, <1>3 DEF VotesAreMachines
<1>5. CountsAreVotes(r)'
  BY <1>1, <1>3 DEF CountsAreVotes
<1> QED BY <1>1, <1>2, <1>4, <1>5

\* The second vote for a digest has another voter before it.
LEMMA SecondVote ==
    ASSUME RouterInv, NEW r \in RequestId, NEW m \in Machine, NEW key, NEW signer,
           NEW result \in EvaluationResult, SubmitEvaluation(r, m, key, signer, result),
           FrozenMachines(r)' = FrozenMachines(r), CountOf(r, result) + 1 >= 2
    PROVE  \E n \in FrozenMachines(r) : n # m /\ <<n, result>> \in evaluationAccepted[r]
<1>1. result \in DOMAIN digestCounts[r]
  BY DEF CountOf
<1>2. PICK n \in Machine : <<n, result>> \in evaluationAccepted[r]
  BY <1>1 DEF RouterInv, RequestInv, CountsAreVotes
<1>3. n \in machineSubmitted[r] /\ n \in FrozenMachines(r)
  BY <1>2 DEF RouterInv, RequestInv, VotesAreMachines
<1> QED BY <1>2, <1>3, VotesKept

\* What the deciding vote writes: the request keeps its terms, and an allowed
\* one has the vault's reservation made with it.
LEMMA DecisionStep ==
    ASSUME RouterInv, NEW r \in RequestId, NEW result \in EvaluationResult,
           Status(r) = "Pending", UNCHANGED registryVars, DecideRequest(r, result)
    PROVE  /\ VaultInv' /\ requests' \in [RequestId -> StoredRequest]
           /\ Frozen(r)' = Frozen(r) /\ Approved(r)' = result
           /\ Status(r)' \in {"Allowed", "Denied"} /\ HoldAgrees(r)'
           /\ \A q \in RequestId : q # r =>
                requests'[q] = requests[q] /\ reservations'[q] = reservations[q]
<1> DEFINE status == IF result.decision = "ALLOW" THEN "Allowed" ELSE "Denied"
<1> DEFINE decided == [requests[r] EXCEPT !.status = status, !.approved = result]
<1>1. /\ requests \in [RequestId -> StoredRequest]
      /\ requests' = [requests EXCEPT ![r] = decided]
  BY DEF RouterInv, RouterTypeOK, DecideRequest
<1>2. /\ decided \in StoredRequest /\ decided.status = status
      /\ decided.request = Frozen(r) /\ decided.approved = result
  BY <1>1 DEF StoredRequest, RequestStatus, Frozen
<1> HIDE DEF decided
<1>3. requests'[r] = decided
  BY <1>1
<1>4. /\ requests' \in [RequestId -> StoredRequest]
      /\ Frozen(r)' = Frozen(r) /\ Approved(r)' = result /\ Status(r)' = status
      /\ \A q \in RequestId : q # r => requests'[q] = requests[q]
  BY <1>1, <1>2, <1>3 DEF Frozen, Approved, Status
<1>5. /\ Frozen(r) \in ActionRequest /\ PolicyOf(r) \in Policy
      /\ Frozen(r).asset \in Asset /\ Frozen(r).amount \in Nat
      /\ Registered(PolicyOf(r)) /\ ~reservations[r].active
  BY DEF RouterInv, RouterTypeOK, ActionRequest, PolicyOf, RequestInv, UnderPolicy, HoldAgrees
<1>6. OwnerOf(r)' = OwnerOf(r) /\ OwnerOf(r) \in Owner \cup {ZeroAddress}
  BY <1>4, <1>5, RouterAssumption
     DEF OwnerOf, PolicyOf, registryVars, RouterInv, RegistryTypeOK
<1>7. CASE result.decision = "ALLOW"
  <2>1. Reserve(RouterAddress, OwnerOf(r), Frozen(r).asset, r, Frozen(r).amount)
    BY <1>7 DEF DecideRequest, OwnerOf
  <2>2. OwnerOf(r) \in Owner
    BY <1>6, <2>1 DEF Reserve
  <2>3. VaultInv'
    BY <1>5, <2>1, <2>2, ReserveInv DEF RouterInv
  <2>4. /\ reservations'[r] = [owner |-> OwnerOf(r), asset |-> Frozen(r).asset,
                               amount |-> Frozen(r).amount, active |-> TRUE]
        /\ \A q \in RequestId : q # r => reservations'[q] = reservations[q]
    BY <2>1 DEF Reserve, RouterInv, VaultInv, VaultTypeOK
  <2> QED BY <1>4, <1>6, <1>7, <2>3, <2>4 DEF HoldAgrees
<1>8. CASE result.decision # "ALLOW"
  <2>1. UNCHANGED vaultVars
    BY <1>8 DEF DecideRequest
  <2>2. VaultInv' /\ reservations' = reservations
    BY <2>1, QuietVault DEF RouterInv, vaultVars
  <2> QED BY <1>4, <1>5, <1>8, <2>2 DEF HoldAgrees
<1> QED BY <1>7, <1>8

LEMMA SubmitStep ==
    ASSUME RouterInv, SubmitNext
    PROVE  RouterInv'
<1>0. PICK r \in RequestId :
        /\ Status(r) = "Pending"
        /\ \E c \in Credential, result \in CandidateResults(Frozen(r)) :
             SubmitEvaluation(r, c.machine, c.key, c.signer, result)
  BY DEF SubmitNext
<1>1. PICK c \in Credential, result \in CandidateResults(Frozen(r)) :
        SubmitEvaluation(r, c.machine, c.key, c.signer, result)
  BY <1>0
<1> DEFINE m == c.machine
<1>2. m \in Machine
  BY RouterAssumption
<1>3. Frozen(r) \in ActionRequest /\ PolicyOf(r) \in Policy
  BY <1>0 DEF RouterInv, RouterTypeOK, ActionRequest, PolicyOf
<1>4. result \in EvaluationResult
  BY <1>3, CandidateResultsTyped
<1>5. /\ SubmitEvaluation(r, m, c.key, c.signer, result)
      /\ UNCHANGED registryVars /\ UNCHANGED <<nonceUsed, spendState>>
  BY <1>1 DEF SubmitEvaluation
<1>6. RegistryTypeOK' /\ BindingsAreFinal
  BY <1>5, QuietRegistry DEF RouterInv
<1>7. /\ VaultInv' /\ requests' \in [RequestId -> StoredRequest]
      /\ Frozen(r)' = Frozen(r) /\ HoldAgrees(r)'
      /\ \/ Status(r)' = Status(r) /\ Approved(r)' = Approved(r)
         \/ /\ Status(r)' \in {"Allowed", "Denied"} /\ Approved(r)' = result
            /\ CountOf(r, result) + 1 >= 2
      /\ \A q \in RequestId : q # r =>
           requests'[q] = requests[q] /\ reservations'[q] = reservations[q]
  <2>1. CASE CountOf(r, result) + 1 < 2 \/ Approved(r) # NoEvaluation
    <3>1. UNCHANGED <<requests, vaultVars>>
      BY <1>5, <2>1 DEF SubmitEvaluation
    <3>2. VaultInv' /\ reservations' = reservations
      BY <3>1, QuietVault DEF RouterInv, vaultVars
    <3>3. /\ Status(r)' = Status(r) /\ Frozen(r)' = Frozen(r)
          /\ Approved(r)' = Approved(r) /\ OwnerOf(r)' = OwnerOf(r)
      BY <1>5, <3>1 DEF Status, Frozen, Approved, OwnerOf, PolicyOf, registryVars
    <3> QED BY <3>1, <3>2, <3>3 DEF RouterInv, RouterTypeOK, RequestInv, HoldAgrees
  <2>2. CASE ~(CountOf(r, result) + 1 < 2 \/ Approved(r) # NoEvaluation)
    <3>1. DecideRequest(r, result)
      BY <1>5, <2>2 DEF SubmitEvaluation
    <3>2. CountOf(r, result) \in Int
      BY DEF CountOf, RouterInv, RouterTypeOK
    <3> QED BY <1>0, <1>4, <1>5, <2>2, <3>1, <3>2, DecisionStep
  <2> QED BY <2>1, <2>2
<1>8. FrozenMachines(r)' = FrozenMachines(r) /\ PolicyOf(r)' = PolicyOf(r)
  BY <1>5, <1>7 DEF FrozenMachines, PolicyOf, registryVars
<1>9. RouterTypeOK'
  <2>1. \A q \in RequestId : /\ Status(q)' # "None" =>
                                  Frozen(q)' \in ActionRequest /\ Frozen(q)'.requestId = q
                             /\ Status(q)' \in {"Allowed", "Denied", "Executed"} =>
                                  Approved(q)' \in EvaluationResult
    BY <1>0, <1>4, <1>7 DEF RouterInv, RouterTypeOK, Status, Frozen, Approved
  <2> QED BY <1>2, <1>4, <1>5, <1>7, <2>1, VoteTyped DEF RouterInv, RouterTypeOK
<1>10. RequestInv(r)'
  <2>1. UnderPolicy(r)' /\ NothingBefore(r)'
    BY <1>0, <1>5, <1>7, <1>8
       DEF RouterInv, RequestInv, UnderPolicy, NothingBefore, Registered, registryVars
  <2>2. VotesAreMachines(r)' /\ CountsAreVotes(r)'
    BY <1>2, <1>4, <1>5, <1>8, VotesKept
  <2>3. AgreedByTwo(r)'
    <3>1. /\ m \in FrozenMachines(r)
          /\ evaluationAccepted'[r] = evaluationAccepted[r] \cup {<<m, result>>}
      BY <1>2, <1>4, <1>5, <1>8, VotesKept
    <3>2. CASE Approved(r)' = Approved(r)
      BY <1>8, <3>1, <3>2 DEF RouterInv, RequestInv, AgreedByTwo
    <3>3. CASE Approved(r)' = result /\ CountOf(r, result) + 1 >= 2
      <4>1. PICK n \in FrozenMachines(r) : n # m /\ <<n, result>> \in evaluationAccepted[r]
        BY <1>2, <1>4, <1>5, <1>8, <3>3, SecondVote
      <4> QED BY <1>8, <3>1, <3>3, <4>1 DEF AgreedByTwo
    <3> QED BY <1>7, <3>2, <3>3
  <2> QED BY <1>7, <2>1, <2>2, <2>3 DEF RequestInv
<1>11. ASSUME NEW q \in RequestId, q # r
       PROVE  RequestInv(q)'
  <2>1. /\ machineSubmitted'[q] = machineSubmitted[q]
        /\ digestCounts'[q] = digestCounts[q]
        /\ evaluationAccepted'[q] = evaluationAccepted[q]
    BY <1>5, <1>11 DEF SubmitEvaluation, RouterInv, RouterTypeOK
  <2> QED BY <1>6, <1>7, <1>11, <2>1, UntouchedRequest DEF RouterInv
<1>12. DOMAIN digestCounts' = RequestId
  BY <1>2, <1>4, <1>5, VoteTyped
<1> QED BY <1>6, <1>7, <1>9, <1>10, <1>11, <1>12 DEF RouterInv

-----------------------------------------------------------------------------
(* execute, expire, cancel                                                  *)

\* An open request ends: its status changes, and if it held a reservation the
\* reservation is gone.
LEMMA EndedRequest ==
    ASSUME RouterInv, NEW r \in RequestId, Open(r),
           NEW status \in {"Executed", "Expired", "Cancelled"}, SetRequestStatus(r, status),
           status = "Executed" => Status(r) = "Allowed",
           VaultInv', ~reservations'[r].active,
           \A q \in RequestId : q # r => reservations'[q] = reservations[q],
           UNCHANGED <<machineSubmitted, digestCounts, nonceUsed, evaluationAccepted>>,
           UNCHANGED registryVars,
           spendState' \in [Policy -> SpendState],
           \A p \in Policy : spendState'[p].initialized => spendState'[p].checkpoint \in Checkpoint
    PROVE  RouterInv'
<1> DEFINE ended == [requests[r] EXCEPT !.status = status]
<1>1. /\ requests \in [RequestId -> StoredRequest]
      /\ requests' = [requests EXCEPT ![r] = ended]
  BY DEF RouterInv, RouterTypeOK, SetRequestStatus
<1>2. /\ ended \in StoredRequest /\ ended.status = status
      /\ ended.request = Frozen(r) /\ ended.approved = Approved(r)
  BY <1>1 DEF StoredRequest, RequestStatus, Frozen, Approved
<1> HIDE DEF ended
<1>3. requests'[r] = ended
  BY <1>1
<1>4. /\ requests' \in [RequestId -> StoredRequest]
      /\ Frozen(r)' = Frozen(r) /\ Approved(r)' = Approved(r) /\ Status(r)' = status
      /\ \A q \in RequestId : q # r => requests'[q] = requests[q]
  BY <1>1, <1>2, <1>3 DEF Frozen, Approved, Status
<1>5. RegistryTypeOK' /\ BindingsAreFinal
  BY QuietRegistry DEF RouterInv
<1>6. RouterTypeOK'
  <2>1. \A q \in RequestId : /\ Status(q)' # "None" =>
                                  Frozen(q)' \in ActionRequest /\ Frozen(q)'.requestId = q
                             /\ Status(q)' \in {"Allowed", "Denied", "Executed"} =>
                                  Approved(q)' \in EvaluationResult
    BY <1>4 DEF RouterInv, RouterTypeOK, Open, Status, Frozen, Approved
  <2> QED BY <1>4, <2>1 DEF RouterInv, RouterTypeOK
<1>7. RequestInv(r)'
  <2>1. FrozenMachines(r)' = FrozenMachines(r) /\ PolicyOf(r)' = PolicyOf(r)
    BY <1>4 DEF FrozenMachines, PolicyOf, registryVars
  <2>2. UnderPolicy(r)' /\ NothingBefore(r)' /\ HoldAgrees(r)'
    BY <1>4, <2>1 DEF RouterInv, RequestInv, UnderPolicy, NothingBefore, HoldAgrees,
       Registered, registryVars, Open
  <2>3. VotesAreMachines(r)' /\ CountsAreVotes(r)' /\ AgreedByTwo(r)'
    BY <1>4, <2>1 DEF RouterInv, RequestInv, VotesAreMachines, CountsAreVotes, AgreedByTwo
  <2> QED BY <2>2, <2>3 DEF RequestInv
<1>8. ASSUME NEW q \in RequestId, q # r
      PROVE  RequestInv(q)'
  BY <1>4, <1>5, <1>8, UntouchedRequest DEF RouterInv
<1> QED BY <1>5, <1>6, <1>7, <1>8, <1>4 DEF RouterInv

LEMMA DeletedReservation ==
    ASSUME RouterInv, NEW r \in RequestId, DeleteReservation(r)
    PROVE  /\ ~reservations'[r].active
           /\ \A q \in RequestId : q # r => reservations'[q] = reservations[q]
BY DEF RouterInv, VaultInv, VaultTypeOK, DeleteReservation, NoReservation

LEMMA ExecuteStep ==
    ASSUME RouterInv, ExecuteNext
    PROVE  RouterInv'
<1>1. PICK r \in RequestId : Execute(r)
  BY DEF ExecuteNext
<1>2. /\ Status(r) = "Allowed" /\ SetRequestStatus(r, "Executed")
      /\ spendState' = [spendState EXCEPT ![PolicyOf(r)] = AdvancedState(r)]
      /\ ExecuteReserved(RouterAddress, r, Frozen(r).target)
      /\ UNCHANGED <<machineSubmitted, digestCounts, nonceUsed, evaluationAccepted>>
      /\ UNCHANGED registryVars
  BY <1>1 DEF Execute
<1>3. /\ Frozen(r) \in ActionRequest /\ Approved(r) \in EvaluationResult
      /\ Frozen(r).target \in Address /\ PolicyOf(r) \in Policy
  BY <1>2 DEF RouterInv, RouterTypeOK, ActionRequest, PolicyOf
<1>4. VaultInv'
  BY <1>2, <1>3, ExecuteReservedInv DEF RouterInv
<1>5. DeleteReservation(r)
  BY <1>2 DEF ExecuteReserved
<1>6. AdvancedState(r) \in SpendState /\ AdvancedState(r).checkpoint \in Checkpoint
  BY <1>3 DEF AdvancedState, SpendState, ActionRequest, EvaluationResult
<1>7. /\ spendState' \in [Policy -> SpendState]
      /\ \A p \in Policy : spendState'[p].initialized => spendState'[p].checkpoint \in Checkpoint
  BY <1>2, <1>3, <1>6 DEF RouterInv, RouterTypeOK
<1> QED BY <1>2, <1>4, <1>5, <1>7, DeletedReservation, EndedRequest DEF Open

LEMMA AbandonStep ==
    ASSUME RouterInv, NEW r \in RequestId, Open(r),
           NEW status \in {"Expired", "Cancelled"}, Abandon(r, status)
    PROVE  RouterInv'
<1>1. /\ SetRequestStatus(r, status) /\ ReleaseIfAllowed(r) /\ spendState' = spendState
      /\ UNCHANGED <<machineSubmitted, digestCounts, nonceUsed, evaluationAccepted>>
      /\ UNCHANGED registryVars
  BY DEF Abandon
<1>2. /\ VaultInv' /\ ~reservations'[r].active
      /\ \A q \in RequestId : q # r => reservations'[q] = reservations[q]
  <2>1. CASE Status(r) = "Allowed"
    <3>1. Release(RouterAddress, r)
      BY <1>1, <2>1 DEF ReleaseIfAllowed
    <3>2. VaultInv' /\ DeleteReservation(r)
      BY <3>1, ReleaseInv DEF RouterInv, Release
    <3> QED BY <3>2, DeletedReservation
  <2>2. CASE Status(r) # "Allowed"
    <3>1. UNCHANGED vaultVars
      BY <1>1, <2>2 DEF ReleaseIfAllowed
    <3>2. VaultInv' /\ reservations' = reservations
      BY <3>1, QuietVault DEF RouterInv, vaultVars
    <3> QED BY <2>2, <3>2 DEF RouterInv, RequestInv, HoldAgrees
  <2> QED BY <2>1, <2>2
<1>3. /\ spendState' \in [Policy -> SpendState]
      /\ \A p \in Policy : spendState'[p].initialized => spendState'[p].checkpoint \in Checkpoint
  BY <1>1 DEF RouterInv, RouterTypeOK
<1> QED BY <1>1, <1>2, <1>3, EndedRequest

-----------------------------------------------------------------------------
(* The other contracts, and all together.                                   *)

LEMMA QuietRouter ==
    ASSUME RouterInv, UNCHANGED routerVars, reservations' = reservations,
           VaultInv', RegistryTypeOK', BindingsAreFinal
    PROVE  RouterInv'
<1>1. UNCHANGED <<requests, machineSubmitted, digestCounts, nonceUsed, spendState,
                  evaluationAccepted>>
  BY DEF routerVars
<1>2. RouterTypeOK' /\ DOMAIN digestCounts' = RequestId
  BY <1>1 DEF RouterInv, RouterTypeOK, Status, Frozen, Approved
<1>3. \A r \in RequestId : RequestInv(r)'
  BY <1>1, UntouchedRequest DEF RouterInv
<1> QED BY <1>2, <1>3 DEF RouterInv

LEMMA EnvironmentStep ==
    ASSUME RouterInv, EnvironmentNext
    PROVE  RouterInv'
<1>1. CASE OwnerNext /\ UNCHANGED <<registryVars, routerVars>>
  <2>1. VaultInv' /\ reservations' = reservations
    BY <1>1, OwnerNextInv DEF RouterInv, OwnerNext, Deposit, Withdraw
  <2>2. RegistryTypeOK' /\ BindingsAreFinal
    BY <1>1, QuietRegistry DEF RouterInv
  <2> QED BY <1>1, <2>1, <2>2, QuietRouter
<1>2. CASE RegistryNext /\ UNCHANGED <<vaultVars, routerVars>>
  <2>1. VaultInv' /\ reservations' = reservations
    BY <1>2, QuietVault DEF RouterInv, vaultVars
  <2>2. RegistryTypeOK' /\ BindingsAreFinal
    BY <1>2, RegistryStep DEF RouterInv
  <2> QED BY <1>2, <2>1, <2>2, QuietRouter
<1> QED BY <1>1, <1>2 DEF EnvironmentNext

LEMMA RouterInitInv == Init => RouterInv
<1> SUFFICES ASSUME Init PROVE RouterInv
  OBVIOUS
<1>1. VaultInv
  BY VaultAssumption, RouterAssumption DEF Init, RouterInit, FreshVault, VaultInv, VaultTypeOK,
     ReservationsNameAccounts, Conservation, Conserves, Accounting, NoAccounting,
     Reservation, NoReservation
<1>2. RegistryTypeOK
  BY RegistryInitTyped DEF Init, RouterInit
<1>3. \A r \in RequestId :
        /\ Status(r) = "None" /\ Approved(r) = NoEvaluation
        /\ evaluationAccepted[r] = {} /\ DOMAIN digestCounts[r] = {}
        /\ ~reservations[r].active
  BY DEF Init, RouterInit, FreshVault, NoReservation, Status, Approved
<1>4. RouterTypeOK /\ DOMAIN digestCounts = RequestId
  <2>1. [status |-> "None", request |-> NoRequest, approved |-> NoEvaluation] \in StoredRequest
    BY DEF StoredRequest, RequestStatus
  <2>2. requests \in [RequestId -> StoredRequest]
    BY <2>1 DEF Init, RouterInit
  <2>3. [checkpoint |-> NoCheckpoint, occurrence |-> 0, accountedAt |-> 0,
         initialized |-> FALSE] \in SpendState
    BY DEF SpendState
  <2>4. /\ spendState \in [Policy -> SpendState]
        /\ \A p \in Policy : ~spendState[p].initialized
    BY <2>3 DEF Init, RouterInit
  <2>5. /\ machineSubmitted \in [RequestId -> SUBSET Machine]
        /\ nonceUsed \in [Policy -> SUBSET Nat]
        /\ evaluationAccepted \in [RequestId -> SUBSET (Machine \X EvaluationResult)]
        /\ DOMAIN digestCounts = RequestId
    BY DEF Init, RouterInit
  <2> QED BY <1>3, <2>2, <2>4, <2>5 DEF RouterTypeOK
<1>5. \A r \in RequestId : RequestInv(r)
  BY <1>3 DEF RequestInv, UnderPolicy, NothingBefore, VotesAreMachines, CountsAreVotes,
     AgreedByTwo, HoldAgrees
<1> QED BY <1>1, <1>2, <1>4, <1>5 DEF RouterInv

LEMMA RouterNextInv == RouterInv /\ [Next]_vars => RouterInv'
<1> SUFFICES ASSUME RouterInv, [Next]_vars PROVE RouterInv'
  OBVIOUS
<1>1. CASE CreateNext
  BY <1>1, CreatedIsRequest, CreateStep
<1>2. CASE SubmitNext
  BY <1>2, SubmitStep
<1>3. CASE ExecuteNext
  BY <1>3, ExecuteStep
<1>4. CASE ExpireNext
  BY <1>4, AbandonStep DEF ExpireNext, Expire
<1>5. CASE CancelNext
  BY <1>5, AbandonStep DEF CancelNext, Cancel
<1>6. CASE EnvironmentNext
  BY <1>6, EnvironmentStep
<1>7. CASE UNCHANGED vars
  <2>1. UNCHANGED vaultVars /\ UNCHANGED registryVars /\ UNCHANGED routerVars
    BY <1>7 DEF vars
  <2>2. VaultInv' /\ RegistryTypeOK' /\ BindingsAreFinal /\ reservations' = reservations
    BY <2>1, QuietVault, QuietRegistry DEF RouterInv, vaultVars
  <2> QED BY <2>1, <2>2, QuietRouter
<1> QED BY <1>1, <1>2, <1>3, <1>4, <1>5, <1>6, <1>7 DEF Next, RouterNext

-----------------------------------------------------------------------------
(* The theorems.                                                            *)

LEMMA RouterInvariance == Spec => []RouterInv
BY RouterInitInv, RouterNextInv, PTL DEF Spec

\* The state of the three contracts keeps its types, whatever callers, owners,
\* administrator and TEE manager do: nothing is written that is not a frozen
\* request, a signed evaluation or a checkpoint of the chain.
THEOREM RouterTypeCorrect == Spec => []TypeOK
<1>1. RouterInv => TypeOK
  BY DEF RouterInv, VaultInv, TypeOK
<1> QED BY <1>1, RouterInvariance, PTL

\* Router and vault never disagree about a hold: money is reserved exactly for
\* the allowed requests, as the request and the policy's owner say.
THEOREM HoldsFollowDecisions == Spec => []ReservationIffAllowed
<1>1. RouterInv => ReservationIffAllowed
  BY DEF RouterInv, RequestInv, HoldAgrees, ReservationIffAllowed
<1> QED BY <1>1, RouterInvariance, PTL

\* Every decision was signed, as the very same evaluation, by two different
\* machines of the policy the request names.
THEOREM DecisionsNeedTwo == Spec => []TwoMachinesAgreed
<1>1. RouterInv => TwoMachinesAgreed
  BY DEF RouterInv, RequestInv, AgreedByTwo, FrozenMachines, TwoMachinesAgreed
<1> QED BY <1>1, RouterInvariance, PTL

-----------------------------------------------------------------------------
(* What the vault owes, in the whole system.                                *)

LEMMA SubmitIsSolvent ==
    ASSUME RouterInv, Solvency, SubmitNext
    PROVE  Solvency'
<1>0. PICK r \in RequestId :
        /\ Status(r) = "Pending"
        /\ \E c \in Credential, result \in CandidateResults(Frozen(r)) :
             SubmitEvaluation(r, c.machine, c.key, c.signer, result)
  BY DEF SubmitNext
<1>1. PICK c \in Credential, result \in CandidateResults(Frozen(r)) :
        SubmitEvaluation(r, c.machine, c.key, c.signer, result)
  BY <1>0
<1>3. /\ Frozen(r).asset \in Asset /\ Frozen(r).amount \in Nat
      /\ PolicyOf(r) \in Policy /\ Registered(PolicyOf(r))
  BY <1>0 DEF RouterInv, RouterTypeOK, ActionRequest, PolicyOf, RequestInv, UnderPolicy
<1>4. CASE Reserve(RouterAddress, OwnerOf(r), Frozen(r).asset, r, Frozen(r).amount)
  <2>1. OwnerOf(r) \in Owner \cup {ZeroAddress}
    BY <1>3, RouterAssumption DEF OwnerOf, PolicyOf, RouterInv, RegistryTypeOK
  <2>2. OwnerOf(r) \in Owner
    BY <1>4, <2>1 DEF Reserve
  <2> QED BY <1>3, <1>4, <2>2, ReserveSolvent DEF RouterInv
<1>5. CASE UNCHANGED vaultVars
  BY <1>5, QuietSolvent DEF vaultVars
<1> QED BY <1>1, <1>4, <1>5 DEF SubmitEvaluation, DecideRequest, OwnerOf, PolicyOf

LEMMA ExecuteIsSolvent ==
    ASSUME RouterInv, Solvency, ExecuteNext
    PROVE  Solvency'
<1>1. PICK r \in RequestId : Execute(r)
  BY DEF ExecuteNext
<1>2. Status(r) = "Allowed" /\ ExecuteReserved(RouterAddress, r, Frozen(r).target)
  BY <1>1 DEF Execute
<1>3. Frozen(r).target \in Address
  BY <1>2 DEF RouterInv, RouterTypeOK, ActionRequest
<1> QED BY <1>2, <1>3, ExecuteSolvent DEF RouterInv

LEMMA AbandonIsSolvent ==
    ASSUME RouterInv, Solvency, NEW r \in RequestId, NEW status, Abandon(r, status)
    PROVE  Solvency'
<1>1. ReleaseIfAllowed(r)
  BY DEF Abandon
<1>2. CASE Status(r) = "Allowed"
  BY <1>1, <1>2, ReleaseSolvent DEF ReleaseIfAllowed, RouterInv
<1>3. CASE Status(r) # "Allowed"
  BY <1>1, <1>3, QuietSolvent DEF ReleaseIfAllowed, vaultVars
<1> QED BY <1>2, <1>3

LEMMA RouterNextSolvent == RouterInv /\ Solvency /\ [Next]_vars => Solvency'
<1> SUFFICES ASSUME RouterInv, Solvency, [Next]_vars PROVE Solvency'
  OBVIOUS
<1>1. CASE CreateNext
  <2>1. UNCHANGED vaultVars
    BY <1>1 DEF CreateNext, CreateRequest
  <2> QED BY <2>1, QuietSolvent DEF vaultVars
<1>2. CASE SubmitNext
  BY <1>2, SubmitIsSolvent
<1>3. CASE ExecuteNext
  BY <1>3, ExecuteIsSolvent
<1>4. CASE ExpireNext
  BY <1>4, AbandonIsSolvent DEF ExpireNext, Expire
<1>5. CASE CancelNext
  BY <1>5, AbandonIsSolvent DEF CancelNext, Cancel
<1>6. CASE EnvironmentNext
  <2>1. CASE OwnerNext
    BY <2>1, DepositSolvent, WithdrawSolvent DEF OwnerNext, Deposit, RouterInv
  <2>2. CASE RegistryNext /\ UNCHANGED <<vaultVars, routerVars>>
    BY <2>2, QuietSolvent DEF vaultVars
  <2> QED BY <1>6, <2>1, <2>2 DEF EnvironmentNext
<1>7. CASE UNCHANGED vars
  BY <1>7, QuietSolvent DEF vars, vaultVars
<1> QED BY <1>1, <1>2, <1>3, <1>4, <1>5, <1>6, <1>7 DEF Next, RouterNext

\* In the whole system, with reservations made by deciding votes, settled by
\* executions and given back by expiry and cancellation: an account's reserved
\* bucket is the sum of its live reservations, and the vault holds at least
\* what it owes all owners of an asset together.
THEOREM ContractsSolvent == Spec => []Solvency
<1>1. Init => Solvency
  <2> SUFFICES ASSUME Init PROVE Solvency
    OBVIOUS
  <2>1. VaultInv
    BY RouterInitInv DEF RouterInv
  <2> QED BY <2>1, FreshVaultSolvent DEF Init, RouterInit
<1> QED BY <1>1, RouterInvariance, RouterNextSolvent, PTL DEF Spec

-----------------------------------------------------------------------------
(* What a step may do for a request under an inactive policy.               *)

\* The disjunction of InactivePolicyGainsNothing, for one request.
LEMMA CreateIsActive ==
    ASSUME RouterInv, CreateNext, NEW r \in RequestId,
           requests'[r] # requests[r] \/ evaluationAccepted'[r] # evaluationAccepted[r]
    PROVE  policies[PolicyOf(r)'].status = "Active" /\ ~globallyPaused
<1>1. PICK request \in ActionRequest, sender \in Address : CreateRequest(request, sender)
  BY CreatedIsRequest
<1>2. /\ requests' = [requests EXCEPT ![request.requestId] =
           [status |-> "Pending", request |-> request, approved |-> NoEvaluation]]
      /\ evaluationAccepted' = evaluationAccepted
      /\ effectiveStatus(request.policyCommitment) = "Active"
  BY <1>1 DEF CreateRequest
<1>3. r = request.requestId
  BY <1>2 DEF RouterInv, RouterTypeOK
<1>4. PolicyOf(r)' = request.policyCommitment
  BY <1>2, <1>3 DEF PolicyOf, Frozen, RouterInv, RouterTypeOK
<1> QED BY <1>2, <1>4 DEF effectiveStatus

LEMMA SubmitIsActive ==
    ASSUME RouterInv, SubmitNext, NEW r \in RequestId,
           requests'[r] # requests[r] \/ evaluationAccepted'[r] # evaluationAccepted[r]
    PROVE  policies[PolicyOf(r)'].status = "Active" /\ ~globallyPaused
<1>1. PICK q \in RequestId :
        \E c \in Credential, result \in CandidateResults(Frozen(q)) :
          SubmitEvaluation(q, c.machine, c.key, c.signer, result)
  BY DEF SubmitNext
<1>2. PICK c \in Credential, result \in CandidateResults(Frozen(q)) :
        SubmitEvaluation(q, c.machine, c.key, c.signer, result)
  BY <1>1
<1>3. effectiveStatus(PolicyOf(q)) = "Active"
  BY <1>2 DEF SubmitEvaluation
<1>4. \/ requests' = requests
      \/ requests' = [requests EXCEPT ![q] =
           [@ EXCEPT !.status = IF result.decision = "ALLOW" THEN "Allowed" ELSE "Denied",
                     !.approved = result]]
  BY <1>2 DEF SubmitEvaluation, DecideRequest
<1>5. r = q
  BY <1>2, <1>4 DEF SubmitEvaluation, RouterInv, RouterTypeOK
<1>6. PolicyOf(q)' = PolicyOf(q)
  BY <1>4, ZenonT(30) DEF PolicyOf, Frozen, RouterInv, RouterTypeOK, StoredRequest
<1> QED BY <1>3, <1>5, <1>6 DEF effectiveStatus

\* Settling and giving up ask nothing of the policy, and open nothing.
LEMMA EndingOpensNothing ==
    ASSUME RouterInv, ExecuteNext \/ ExpireNext \/ CancelNext, NEW r \in RequestId,
           requests'[r] # requests[r] \/ evaluationAccepted'[r] # evaluationAccepted[r]
    PROVE  \/ Status(r) = "Allowed" /\ Status(r)' \in {"Executed", "Expired", "Cancelled"}
           \/ Status(r) = "Pending" /\ Status(r)' \in {"Expired", "Cancelled"}
<1>1. PICK q \in RequestId, status \in {"Executed", "Expired", "Cancelled"} :
        /\ Open(q) /\ (status = "Executed" => Status(q) = "Allowed")
        /\ SetRequestStatus(q, status) /\ evaluationAccepted' = evaluationAccepted
  BY DEF ExecuteNext, Execute, ExpireNext, Expire, CancelNext, Cancel, Abandon, Open
<1>2. requests' = [requests EXCEPT ![q].status = status]
  BY <1>1 DEF SetRequestStatus
<1>3. r = q
  BY <1>1, <1>2 DEF RouterInv, RouterTypeOK
<1>4. Status(q)' = status
  BY <1>2 DEF Status, RouterInv, RouterTypeOK, StoredRequest
<1> QED BY <1>1, <1>3, <1>4 DEF Open

\* Under a stopped, revoked or paused policy nothing is requested, voted on or
\* held; what was allowed before may still settle or be given up.
THEOREM InactiveGainsNothing == Spec => InactivePolicyGainsNothing
<1>1. RouterInv /\ [Next]_vars =>
        [\A r \in RequestId :
          (requests'[r] # requests[r] \/ evaluationAccepted'[r] # evaluationAccepted[r])
          => \/ policies[PolicyOf(r)'].status = "Active" /\ ~globallyPaused
             \/ Status(r) = "Allowed" /\ Status(r)' \in {"Executed", "Expired", "Cancelled"}
             \/ Status(r) = "Pending" /\ Status(r)' \in {"Expired", "Cancelled"}
        ]_vars
  <2> SUFFICES ASSUME RouterInv, [Next]_vars, NEW r \in RequestId,
                 requests'[r] # requests[r] \/ evaluationAccepted'[r] # evaluationAccepted[r]
               PROVE
                 \/ policies[PolicyOf(r)'].status = "Active" /\ ~globallyPaused
                 \/ Status(r) = "Allowed" /\ Status(r)' \in {"Executed", "Expired", "Cancelled"}
                 \/ Status(r) = "Pending" /\ Status(r)' \in {"Expired", "Cancelled"}
    OBVIOUS
  <2>1. ~EnvironmentNext /\ ~UNCHANGED vars
    BY DEF EnvironmentNext, vars, routerVars
  <2> QED BY <2>1, CreateIsActive, SubmitIsActive, EndingOpensNothing DEF Next, RouterNext
<1> QED BY <1>1, RouterInvariance, PTL DEF Spec, InactivePolicyGainsNothing

-----------------------------------------------------------------------------
(* The spend checkpoint of a policy is the account of exactly what was      *)
(* executed under it, in order; and router, vault and registry together     *)
(* implement the payment ledger: every call of any of them is a step of the *)
(* ledger or none.                                                          *)


History(p) == spendState[p].checkpoint.history

\* The body of ChainIsExecutions.
Chained(p) ==
    /\ Len(History(p)) = spendState[p].occurrence
    /\ Executed(p) = {History(p)[i].requestId : i \in DOMAIN History(p)}
    /\ \A i \in DOMAIN History(p) :
         /\ Frozen(History(p)[i].requestId).occurrence = i
         /\ History(p)[i].accountedAt <= spendState[p].accountedAt
    /\ \A i, j \in DOMAIN History(p) :
         i <= j => History(p)[i].accountedAt <= History(p)[j].accountedAt

\* Before its first payment a policy has no history.
StartsEmpty(p) == ~spendState[p].initialized => History(p) = <<>>

\* What an allowed request will extend the chain to was derived by the router
\* from the request itself.
PromisesNext(r) ==
    Status(r) = "Allowed" =>
        Approved(r).resultingCheckpoint = nextSpendCheckpoint(Frozen(r), Approved(r).issuedAt)

ChainInv ==
    /\ \A p \in Policy : History(p) \in Seq(Payment) /\ StartsEmpty(p) /\ Chained(p)
    /\ \A r \in RequestId : PromisesNext(r)

-----------------------------------------------------------------------------
(* How a request moves.                                                     *)

CreatedMove(r) == Status(r) = "None" /\ Status(r)' = "Pending"

DecidedMove(r) ==
    /\ Status(r) = "Pending" /\ Frozen(r)' = Frozen(r)
    /\ Status(r)' \in {"Allowed", "Denied"} /\ PromisesNext(r)'

AbandonedMove(r) == Open(r) /\ Status(r)' \in {"Expired", "Cancelled"}

LEMMA CreateMoves ==
    ASSUME RouterInv, CreateNext
    PROVE  /\ UNCHANGED spendState
           /\ \A r \in RequestId : requests'[r] = requests[r] \/ CreatedMove(r)
<1>1. PICK request \in ActionRequest, sender \in Address : CreateRequest(request, sender)
  BY CreatedIsRequest
<1>2. /\ Status(request.requestId) = "None" /\ spendState' = spendState
      /\ requests' = [requests EXCEPT ![request.requestId] =
           [status |-> "Pending", request |-> request, approved |-> NoEvaluation]]
  BY <1>1 DEF CreateRequest
<1>3. ASSUME NEW r \in RequestId
      PROVE  requests'[r] = requests[r] \/ CreatedMove(r)
  <2>1. CASE r = request.requestId
    BY <1>2, <2>1 DEF CreatedMove, Status, RouterInv, RouterTypeOK
  <2>2. CASE r # request.requestId
    BY <1>2, <2>2 DEF RouterInv, RouterTypeOK
  <2> QED BY <2>1, <2>2
<1> QED BY <1>2, <1>3

LEMMA SubmitMoves ==
    ASSUME RouterInv, SubmitNext
    PROVE  /\ UNCHANGED spendState
           /\ \A r \in RequestId : requests'[r] = requests[r] \/ DecidedMove(r)
<1>0. PICK r \in RequestId :
        /\ Status(r) = "Pending"
        /\ \E c \in Credential, result \in CandidateResults(Frozen(r)) :
             SubmitEvaluation(r, c.machine, c.key, c.signer, result)
  BY DEF SubmitNext
<1>1. PICK c \in Credential, result \in CandidateResults(Frozen(r)) :
        SubmitEvaluation(r, c.machine, c.key, c.signer, result)
  BY <1>0
<1>2. /\ spendState' = spendState /\ ValidResult(Frozen(r), result)
      /\ requests' = requests \/ DecideRequest(r, result)
  BY <1>1 DEF SubmitEvaluation
<1>3. CASE requests' = requests
  BY <1>2, <1>3
<1>4. CASE DecideRequest(r, result)
  <2> DEFINE status == IF result.decision = "ALLOW" THEN "Allowed" ELSE "Denied"
  <2> DEFINE decided == [requests[r] EXCEPT !.status = status, !.approved = result]
  <2>1. /\ requests \in [RequestId -> StoredRequest]
        /\ requests' = [requests EXCEPT ![r] = decided]
    BY <1>4 DEF RouterInv, RouterTypeOK, DecideRequest
  <2>2. /\ decided.status = status /\ decided.request = Frozen(r)
        /\ decided.approved = result
    BY <2>1 DEF StoredRequest, Frozen
  <2> HIDE DEF decided
  <2>3. requests'[r] = decided /\ \A q \in RequestId : q # r => requests'[q] = requests[q]
    BY <2>1
  <2>4. Status(r)' = status /\ Frozen(r)' = Frozen(r) /\ Approved(r)' = result
    BY <2>2, <2>3 DEF Status, Frozen, Approved
  <2>5. PromisesNext(r)'
    BY <1>2, <2>4 DEF PromisesNext, ValidResult, nextSpendCheckpoint
  <2>6. DecidedMove(r)
    BY <1>0, <2>4, <2>5 DEF DecidedMove
  <2> QED BY <1>2, <2>3, <2>6
<1> QED BY <1>2, <1>3, <1>4

LEMMA AbandonMoves ==
    ASSUME RouterInv, ExpireNext \/ CancelNext
    PROVE  /\ UNCHANGED spendState
           /\ \A r \in RequestId : requests'[r] = requests[r] \/ AbandonedMove(r)
<1>1. PICK q \in RequestId, status \in {"Expired", "Cancelled"} :
        Open(q) /\ Abandon(q, status)
  BY DEF ExpireNext, Expire, CancelNext, Cancel
<1>2. requests' = [requests EXCEPT ![q].status = status] /\ spendState' = spendState
  BY <1>1 DEF Abandon, SetRequestStatus
<1>3. ASSUME NEW r \in RequestId
      PROVE  requests'[r] = requests[r] \/ AbandonedMove(r)
  <2>1. CASE r = q
    BY <1>1, <1>2, <2>1 DEF AbandonedMove, Status, RouterInv, RouterTypeOK, StoredRequest
  <2>2. CASE r # q
    BY <1>2, <2>2 DEF RouterInv, RouterTypeOK
  <2> QED BY <2>1, <2>2
<1> QED BY <1>2, <1>3

LEMMA RequestMoves ==
    ASSUME RouterInv, [Next]_vars
    PROVE  \/ ExecuteNext
           \/ /\ UNCHANGED spendState
              /\ \A r \in RequestId :
                   \/ requests'[r] = requests[r]
                   \/ CreatedMove(r) \/ DecidedMove(r) \/ AbandonedMove(r)
<1>1. CASE EnvironmentNext \/ UNCHANGED vars
  BY <1>1 DEF EnvironmentNext, vars, routerVars
<1>2. CASE CreateNext
  BY <1>2, CreateMoves
<1>3. CASE SubmitNext
  BY <1>3, SubmitMoves
<1>4. CASE ExpireNext \/ CancelNext
  BY <1>4, AbandonMoves
<1> QED BY <1>1, <1>2, <1>3, <1>4 DEF Next, RouterNext

-----------------------------------------------------------------------------
(* What leaves the chain alone.                                             *)

\* The chain of p looks only at p's state and at the executed requests.
LEMMA ChainKept ==
    ASSUME NEW p \in Policy, Chained(p), History(p) \in Seq(Payment),
           spendState'[p] = spendState[p],
           \A r \in RequestId : r \in Executed(p)' <=> r \in Executed(p),
           \A r \in Executed(p) : Frozen(r)' = Frozen(r)
    PROVE  Chained(p)'
<1>1. History(p)' = History(p)
  BY DEF History
<1>2. Executed(p)' = Executed(p)
  BY DEF Executed
<1>3. ASSUME NEW i \in DOMAIN History(p)
      PROVE  Frozen(History(p)[i].requestId)' = Frozen(History(p)[i].requestId)
  <2>1. PICK r \in Executed(p) : r = History(p)[i].requestId
    BY DEF Chained
  <2>2. Frozen(r)' = Frozen(r)
    BY <2>1
  <2> QED BY <1>1, <2>1, <2>2 DEF Frozen
<1> QED BY <1>1, <1>2, <1>3 DEF Chained

LEMMA QuietChain ==
    ASSUME RouterInv, ChainInv, UNCHANGED spendState,
           \A r \in RequestId :
             \/ requests'[r] = requests[r]
             \/ CreatedMove(r) \/ DecidedMove(r) \/ AbandonedMove(r)
    PROVE  ChainInv'
<1>1. ASSUME NEW r \in RequestId
      PROVE  /\ Status(r)' = "Executed" <=> Status(r) = "Executed"
             /\ Status(r) = "Executed" => Frozen(r)' = Frozen(r) /\ PolicyOf(r)' = PolicyOf(r)
  BY <1>1 DEF Status, Frozen, PolicyOf, CreatedMove, DecidedMove, AbandonedMove, Open
<1>2. ASSUME NEW p \in Policy
      PROVE  /\ (History(p) \in Seq(Payment))' /\ StartsEmpty(p)' /\ Chained(p)'
  <2>1. History(p) \in Seq(Payment) /\ StartsEmpty(p) /\ Chained(p)
    BY DEF ChainInv
  <2>2. \A r \in RequestId : r \in Executed(p)' <=> r \in Executed(p)
    BY <1>1 DEF Executed
  <2>3. \A r \in Executed(p) : Frozen(r)' = Frozen(r)
    BY <1>1 DEF Executed
  <2>4. Chained(p)'
    BY <2>1, <2>2, <2>3, ChainKept
  <2> QED BY <2>1, <2>4 DEF History, StartsEmpty
<1>3. ASSUME NEW r \in RequestId
      PROVE  PromisesNext(r)'
  <2>1. CASE requests'[r] = requests[r]
    BY <2>1 DEF ChainInv, PromisesNext, Status, Frozen, Approved
  <2>2. CASE CreatedMove(r) \/ DecidedMove(r) \/ AbandonedMove(r)
    BY <2>2 DEF CreatedMove, DecidedMove, AbandonedMove, PromisesNext
  <2> QED BY <2>1, <2>2
<1> QED BY <1>2, <1>3 DEF ChainInv

-----------------------------------------------------------------------------
(* What extends it.                                                         *)

\* What execute does to the request and to the policy's state.
LEMMA ExecuteWrites ==
    ASSUME RouterInv, ChainInv, NEW r \in RequestId, Execute(r)
    PROVE  /\ PolicyOf(r) \in Policy /\ Approved(r).issuedAt \in Nat
           /\ Status(r) = "Allowed" /\ Status(r)' = "Executed" /\ Frozen(r)' = Frozen(r)
           /\ \A q \in RequestId : q # r => requests'[q] = requests[q]
           /\ spendState'[PolicyOf(r)] = AdvancedState(r)
           /\ \A p \in Policy : p # PolicyOf(r) => spendState'[p] = spendState[p]
<1>1. /\ Status(r) = "Allowed"
      /\ requests' = [requests EXCEPT ![r].status = "Executed"]
      /\ spendState' = [spendState EXCEPT ![PolicyOf(r)] = AdvancedState(r)]
  BY DEF Execute, SetRequestStatus
<1>2. /\ requests \in [RequestId -> StoredRequest] /\ spendState \in [Policy -> SpendState]
      /\ Frozen(r) \in ActionRequest /\ Approved(r) \in EvaluationResult
  BY <1>1 DEF RouterInv, RouterTypeOK
<1>3. PolicyOf(r) \in Policy /\ Approved(r).issuedAt \in Nat
  BY <1>2 DEF PolicyOf, ActionRequest, EvaluationResult
<1>4. /\ Status(r)' = "Executed" /\ Frozen(r)' = Frozen(r)
      /\ \A q \in RequestId : q # r => requests'[q] = requests[q]
  BY <1>1, <1>2 DEF Status, Frozen, StoredRequest
<1> QED BY <1>1, <1>2, <1>3, <1>4

\* The new end of the chain is the request, after all that was there.
LEMMA ExecuteAppends ==
    ASSUME RouterInv, ChainInv, NEW r \in RequestId, Execute(r), NEW p \in Policy, p = PolicyOf(r)
    PROVE  /\ History(p)' = Append(History(p), [requestId |-> r,
                                                accountedAt |-> Approved(r).issuedAt])
           /\ Frozen(r).occurrence = Len(History(p)) + 1
           /\ spendState'[p].occurrence = Frozen(r).occurrence
           /\ spendState'[p].accountedAt = Approved(r).issuedAt
           /\ spendState'[p].initialized
           /\ \A i \in DOMAIN History(p) : History(p)[i].accountedAt <= Approved(r).issuedAt
<1>1. /\ spendState'[p] = AdvancedState(r) /\ Approved(r).issuedAt \in Nat
      /\ Status(r) = "Allowed"
  BY ExecuteWrites
<1>2. /\ Frozen(r).requestId = r
      /\ Approved(r).resultingCheckpoint = nextSpendCheckpoint(Frozen(r), Approved(r).issuedAt)
      /\ Frozen(r) \in ActionRequest
  BY <1>1 DEF RouterInv, RouterTypeOK, ChainInv, PromisesNext
<1>3. /\ ContinuesChain(Frozen(r)) /\ Frozen(r).policyCommitment = p
      /\ spendState[p].initialized => Approved(r).issuedAt >= spendState[p].accountedAt
  BY DEF Execute, PolicyOf
<1>4. /\ History(p) \in Seq(Payment) /\ StartsEmpty(p) /\ Chained(p)
      /\ spendState[p] \in SpendState
  BY DEF ChainInv, RouterInv, RouterTypeOK
<1>5. /\ Frozen(r).spendCheckpoint.history = History(p)
      /\ Frozen(r).occurrence = Len(History(p)) + 1
      /\ \A i \in DOMAIN History(p) : History(p)[i].accountedAt <= Approved(r).issuedAt
  <2>1. CASE spendState[p].initialized
    <3>1. /\ Frozen(r).spendCheckpoint = spendState[p].checkpoint
          /\ Frozen(r).occurrence = spendState[p].occurrence + 1
      BY <1>3, <2>1 DEF ContinuesChain
    <3>2. ASSUME NEW i \in DOMAIN History(p)
          PROVE  History(p)[i].accountedAt <= Approved(r).issuedAt
      <4>1. History(p)[i] \in Payment
        BY <1>4
      <4>2. History(p)[i].accountedAt \in Nat /\ spendState[p].accountedAt \in Nat
        BY <1>4, <4>1 DEF Payment, SpendState
      <4>3. /\ History(p)[i].accountedAt <= spendState[p].accountedAt
            /\ spendState[p].accountedAt <= Approved(r).issuedAt
        BY <1>3, <1>4, <2>1 DEF Chained
      <4> QED BY <1>1, <4>2, <4>3
    <3> QED BY <1>4, <3>1, <3>2 DEF History, Chained
  <2>2. CASE ~spendState[p].initialized
    <3>1. /\ Frozen(r).spendCheckpoint = genesisSpendCheckpoint(p)
          /\ Frozen(r).occurrence = 1 /\ History(p) = <<>>
      BY <1>3, <1>4, <2>2 DEF ContinuesChain, StartsEmpty
    <3> QED BY <3>1 DEF genesisSpendCheckpoint
  <2> QED BY <2>1, <2>2
<1>6. Approved(r).resultingCheckpoint.history =
        Append(History(p), [requestId |-> r, accountedAt |-> Approved(r).issuedAt])
  <2>1. Frozen(r).spendCheckpoint \in Checkpoint
    BY <1>2 DEF ActionRequest
  <2> QED BY <1>2, <1>5, <2>1 DEF nextSpendCheckpoint, Checkpoint
<1> QED BY <1>1, <1>5, <1>6 DEF AdvancedState, History

LEMMA ChainExtended ==
    ASSUME RouterInv, ChainInv, NEW r \in RequestId, Execute(r), NEW p \in Policy, p = PolicyOf(r)
    PROVE  (History(p) \in Seq(Payment))' /\ StartsEmpty(p)' /\ Chained(p)'
<1> DEFINE h == History(p)
<1> DEFINE payment == [requestId |-> r, accountedAt |-> Approved(r).issuedAt]
<1> DEFINE n == Len(h) + 1
<1>1. /\ Approved(r).issuedAt \in Nat /\ Status(r) = "Allowed"
      /\ Status(r)' = "Executed" /\ Frozen(r)' = Frozen(r)
      /\ \A q \in RequestId : q # r => requests'[q] = requests[q]
  BY ExecuteWrites
<1>2. /\ History(p)' = Append(h, payment) /\ Frozen(r).occurrence = n
      /\ spendState'[p].occurrence = n /\ spendState'[p].accountedAt = payment.accountedAt
      /\ spendState'[p].initialized
      /\ \A i \in DOMAIN h : h[i].accountedAt <= payment.accountedAt
  BY ExecuteAppends
<1>3. h \in Seq(Payment) /\ Chained(p) /\ payment \in Payment
  BY <1>1 DEF ChainInv, Payment
<1>4. /\ History(p)' \in Seq(Payment) /\ Len(History(p)') = n /\ n \in Nat
      /\ DOMAIN h = 1..n - 1 /\ DOMAIN History(p)' = 1..n
      /\ \A i \in 1..n - 1 : History(p)'[i] = h[i]
      /\ History(p)'[n] = payment
  BY <1>2, <1>3
<1>5. Executed(p)' = Executed(p) \cup {r}
  <2>1. ASSUME NEW q \in RequestId, q # r
        PROVE  q \in Executed(p)' <=> q \in Executed(p)
    BY <1>1, <2>1 DEF Executed, Status, PolicyOf, Frozen
  <2>2. r \in Executed(p)'
    BY <1>1 DEF Executed, PolicyOf
  <2> QED BY <2>1, <2>2 DEF Executed
<1>6. ASSUME NEW i \in 1..n - 1
      PROVE  /\ h[i].requestId \in Executed(p) /\ h[i].requestId \in RequestId
             /\ h[i].requestId # r /\ Frozen(h[i].requestId).occurrence = i
  BY <1>1, <1>3, <1>4 DEF Chained, Executed
<1>7. {History(p)'[i].requestId : i \in 1..n} = {h[i].requestId : i \in 1..n - 1} \cup {r}
  <2>1. 1..n = 1..(n - 1) \cup {n}
    BY <1>4
  <2> HIDE DEF h, n
  <2> QED BY <1>4, <2>1
<1>8. ASSUME NEW i \in 1..n
      PROVE  /\ (Frozen(History(p)[i].requestId).occurrence)' = i
             /\ History(p)'[i].accountedAt <= payment.accountedAt
  <2>1. CASE i = n
    BY <1>1, <1>2, <1>4, <2>1 DEF Frozen
  <2>2. CASE i # n
    <3>1. i \in 1..n - 1
      BY <1>4, <2>2
    <3>2. requests'[h[i].requestId] = requests[h[i].requestId]
      BY <1>1, <1>6, <3>1
    <3>3. History(p)'[i] = h[i]
      BY <1>4, <3>1
    <3> QED BY <1>2, <1>4, <1>6, <3>1, <3>2, <3>3 DEF Frozen
  <2> QED BY <2>1, <2>2
<1>9. ASSUME NEW i \in 1..n, NEW j \in 1..n, i <= j
      PROVE  History(p)'[i].accountedAt <= History(p)'[j].accountedAt
  <2>1. CASE j = n
    BY <1>4, <1>8, <2>1
  <2>2. CASE j # n
    <3>1. i \in 1..n - 1 /\ j \in 1..n - 1
      BY <1>4, <1>9, <2>2
    <3>2. h[i].accountedAt <= h[j].accountedAt
      BY <1>3, <1>4, <1>9, <3>1 DEF Chained
    <3> QED BY <1>4, <3>1, <3>2
  <2> QED BY <2>1, <2>2
<1>10. Executed(p) = {h[i].requestId : i \in 1..n - 1}
  BY <1>3, <1>4 DEF Chained
<1> HIDE DEF h, n
<1>11. Executed(p)' = {History(p)'[i].requestId : i \in 1..n}
  BY <1>5, <1>7, <1>10
<1>12. Chained(p)'
  BY <1>2, <1>4, <1>8, <1>9, <1>11 DEF Chained
<1> QED BY <1>2, <1>4, <1>12 DEF StartsEmpty

LEMMA ExecuteChain ==
    ASSUME RouterInv, ChainInv, ExecuteNext
    PROVE  ChainInv'
<1>1. PICK r \in RequestId : Execute(r)
  BY DEF ExecuteNext
<1>2. /\ PolicyOf(r) \in Policy /\ Status(r)' = "Executed" /\ Status(r) = "Allowed"
      /\ Frozen(r)' = Frozen(r)
      /\ \A q \in RequestId : q # r => requests'[q] = requests[q]
      /\ \A p \in Policy : p # PolicyOf(r) => spendState'[p] = spendState[p]
  BY <1>1, ExecuteWrites
<1>3. ASSUME NEW p \in Policy, p # PolicyOf(r)
      PROVE  (History(p) \in Seq(Payment))' /\ StartsEmpty(p)' /\ Chained(p)'
  <2>1. History(p) \in Seq(Payment) /\ StartsEmpty(p) /\ Chained(p)
    BY DEF ChainInv
  <2>2. PolicyOf(r)' = PolicyOf(r)
    BY <1>2 DEF PolicyOf
  <2>3. ASSUME NEW q \in RequestId
        PROVE  /\ q \in Executed(p)' <=> q \in Executed(p)
               /\ q \in Executed(p) => Frozen(q)' = Frozen(q)
    BY <1>2, <1>3, <2>2 DEF Executed, Status, PolicyOf, Frozen
  <2>4. \A q \in Executed(p) : Frozen(q)' = Frozen(q)
    BY <2>3 DEF Executed
  <2>5. spendState'[p] = spendState[p]
    BY <1>2, <1>3
  <2>6. Chained(p)'
    BY <2>1, <2>3, <2>4, <2>5, ChainKept
  <2> QED BY <2>1, <2>5, <2>6 DEF History, StartsEmpty
<1>4. \A p \in Policy : (History(p) \in Seq(Payment))' /\ StartsEmpty(p)' /\ Chained(p)'
  BY <1>1, <1>3, ChainExtended
<1>5. ASSUME NEW q \in RequestId
      PROVE  PromisesNext(q)'
  BY <1>2 DEF ChainInv, PromisesNext, Status, Frozen, Approved
<1> QED BY <1>4, <1>5 DEF ChainInv

-----------------------------------------------------------------------------
LEMMA ChainInit == Init => ChainInv
<1> SUFFICES ASSUME Init PROVE ChainInv
  OBVIOUS
<1>1. ASSUME NEW p \in Policy
      PROVE  /\ History(p) = <<>> /\ spendState[p].occurrence = 0
             /\ ~spendState[p].initialized
  BY DEF Init, RouterInit, History, NoCheckpoint
<1>2. \A r \in RequestId : Status(r) = "None"
  BY DEF Init, RouterInit, Status
<1>3. ASSUME NEW p \in Policy
      PROVE  Chained(p)
  BY <1>1, <1>2 DEF Chained, Executed
<1>4. ASSUME NEW p \in Policy
      PROVE  History(p) \in Seq(Payment) /\ StartsEmpty(p)
  <2>1. <<>> \in Seq(Payment)
    OBVIOUS
  <2>2. History(p) = <<>>
    BY <1>1
  <2> QED BY <2>1, <2>2 DEF StartsEmpty
<1>5. \A r \in RequestId : PromisesNext(r)
  BY <1>2 DEF PromisesNext
<1> QED BY <1>3, <1>4, <1>5 DEF ChainInv

LEMMA ChainInvariance == Spec => []ChainInv
<1>1. RouterInv /\ ChainInv /\ [Next]_vars => ChainInv'
  BY RequestMoves, ExecuteChain, QuietChain
<1> QED BY <1>1, ChainInit, RouterInvariance, PTL DEF Spec

\* A policy's spend checkpoint lists exactly the requests executed under it,
\* once each, by occurrence and with times that never go back: of two requests
\* evaluated against one checkpoint at most one executes.
THEOREM ChainIsAccount == Spec => []ChainIsExecutions
<1>1. ChainInv => ChainIsExecutions
  BY DEF ChainInv, Chained, History, ChainIsExecutions
<1> QED BY <1>1, ChainInvariance, PTL

-----------------------------------------------------------------------------
(* The ledger's variables, as functions of the contracts' state.            *)

PhaseMap == [r \in RequestId |-> LedgerPhase(r)]

HeldFor(r) ==
    IF reservations[r].active
      THEN [owner |-> reservations[r].owner, asset |-> reservations[r].asset,
            amount |-> reservations[r].amount]
      ELSE [amount |-> 0]

HoldMap == [r \in RequestId |-> HeldFor(r)]
FreeMap == [o \in Owner |-> [a \in Asset |-> accounts[o][a].available]]
PaidMap == [o \in Owner |-> [a \in Asset |-> accounts[o][a].spent]]
LedgerMap == [p \in Policy |-> History(p)]

MapsUnchanged == UNCHANGED <<PhaseMap, HoldMap, FreeMap, PaidMap, LedgerMap>>

-----------------------------------------------------------------------------
LEMMA PhaseOfOne ==
    ASSUME NEW r \in RequestId,
           \A q \in RequestId : q # r => requests'[q] = requests[q]
    PROVE  PhaseMap' = [PhaseMap EXCEPT ![r] = LedgerPhase(r)']
<1>1. \A q \in RequestId : q # r => LedgerPhase(q)' = LedgerPhase(q)
  BY DEF LedgerPhase, Status
<1> QED BY <1>1 DEF PhaseMap

LEMMA HoldOfOne ==
    ASSUME NEW r \in RequestId,
           \A q \in RequestId : q # r => reservations'[q] = reservations[q]
    PROVE  HoldMap' = [HoldMap EXCEPT ![r] = HeldFor(r)']
<1>1. \A q \in RequestId : q # r => HeldFor(q)' = HeldFor(q)
  BY DEF HeldFor
<1> QED BY <1>1 DEF HoldMap

\* A table that differs from another in one cell is the other updated there.
LEMMA OneCell ==
    ASSUME NEW F, NEW G, NEW o \in Owner, NEW a \in Asset, NEW x,
           F = [q \in Owner |-> [b \in Asset |-> F[q][b]]],
           G = [q \in Owner |-> [b \in Asset |-> G[q][b]]],
           G[o][a] = x,
           \A q \in Owner, b \in Asset : <<q, b>> # <<o, a>> => G[q][b] = F[q][b]
    PROVE  G = [F EXCEPT ![o][a] = x]
<1> DEFINE row == [F[o] EXCEPT ![a] = x]
<1>1. /\ DOMAIN F = Owner /\ DOMAIN G = Owner
      /\ \A q \in Owner : F[q] = [b \in Asset |-> F[q][b]]
      /\ \A q \in Owner : G[q] = [b \in Asset |-> G[q][b]]
  OBVIOUS
<1>2. G[o] = row
  <2>1. row = [b \in Asset |-> IF b = a THEN x ELSE F[o][b]]
    BY <1>1
  <2>2. \A b \in Asset : G[o][b] = IF b = a THEN x ELSE F[o][b]
    OBVIOUS
  <2> QED BY <1>1, <2>1, <2>2
<1>3. ASSUME NEW q \in Owner, q # o
      PROVE  G[q] = F[q]
  <2>1. \A b \in Asset : G[q][b] = F[q][b]
    BY <1>3
  <2> QED BY <1>1, <2>1
<1> HIDE DEF row
<1>4. G = [q \in Owner |-> IF q = o THEN row ELSE F[q]]
  <2>1. G = [q \in Owner |-> G[q]]
    BY <1>1
  <2> QED BY <1>2, <1>3, <2>1
<1>5. [F EXCEPT ![o] = row] = [q \in Owner |-> IF q = o THEN row ELSE F[q]]
  BY <1>1
<1> QED BY <1>4, <1>5 DEF row

LEMMA AccountOfOne ==
    ASSUME VaultInv, NEW o \in Owner, NEW a \in Asset, NEW entry, UpdateAccount(o, a, entry)
    PROVE  /\ FreeMap' = [FreeMap EXCEPT ![o][a] = entry.available]
           /\ PaidMap' = [PaidMap EXCEPT ![o][a] = entry.spent]
<1>1. accounts \in [Owner -> [Asset -> Accounting]]
  BY DEF VaultInv, VaultTypeOK
<1>2. /\ accounts'[o][a] = entry
      /\ \A q \in Owner, b \in Asset : <<q, b>> # <<o, a>> => accounts'[q][b] = accounts[q][b]
  BY <1>1 DEF UpdateAccount
<1>3. FreeMap' = [FreeMap EXCEPT ![o][a] = entry.available]
  <2>1. /\ FreeMap = [q \in Owner |-> [b \in Asset |-> FreeMap[q][b]]]
        /\ FreeMap' = [q \in Owner |-> [b \in Asset |-> FreeMap'[q][b]]]
    BY DEF FreeMap
  <2>2. /\ FreeMap'[o][a] = entry.available
        /\ \A q \in Owner, b \in Asset :
             <<q, b>> # <<o, a>> => FreeMap'[q][b] = FreeMap[q][b]
    BY <1>2 DEF FreeMap
  <2> QED BY <2>1, <2>2, OneCell
<1>4. PaidMap' = [PaidMap EXCEPT ![o][a] = entry.spent]
  <2>1. /\ PaidMap = [q \in Owner |-> [b \in Asset |-> PaidMap[q][b]]]
        /\ PaidMap' = [q \in Owner |-> [b \in Asset |-> PaidMap'[q][b]]]
    BY DEF PaidMap
  <2>2. /\ PaidMap'[o][a] = entry.spent
        /\ \A q \in Owner, b \in Asset :
             <<q, b>> # <<o, a>> => PaidMap'[q][b] = PaidMap[q][b]
    BY <1>2 DEF PaidMap
  <2> QED BY <2>1, <2>2, OneCell
<1> QED BY <1>3, <1>4

LEMMA QuietLedger == UNCHANGED spendState => LedgerMap' = LedgerMap
BY DEF LedgerMap, History

LEMMA QuietMoney ==
    UNCHANGED vaultVars => UNCHANGED <<HoldMap, FreeMap, PaidMap>>
BY DEF vaultVars, HoldMap, HeldFor, FreeMap, PaidMap

-----------------------------------------------------------------------------
LEMMA InitIsLedgerInit == Init => Ledger!LedgerInit
<1> SUFFICES ASSUME Init PROVE Ledger!LedgerInit
  OBVIOUS
<1>1. PhaseMap = [r \in RequestId |-> "open"]
  BY DEF Init, RouterInit, PhaseMap, LedgerPhase, Status
<1>2. HoldMap = [r \in RequestId |-> [amount |-> 0]]
  BY DEF Init, RouterInit, FreshVault, NoReservation, HoldMap, HeldFor
<1>3. /\ FreeMap = [o \in Owner |-> [a \in Asset |-> 0]]
      /\ PaidMap = [o \in Owner |-> [a \in Asset |-> 0]]
  BY DEF Init, RouterInit, FreshVault, NoAccounting, FreeMap, PaidMap
<1>4. LedgerMap = [p \in Policy |-> <<>>]
  BY DEF Init, RouterInit, NoCheckpoint, LedgerMap, History
<1> QED BY <1>1, <1>2, <1>3, <1>4
        DEF Ledger!LedgerInit, Ledger!Nothing, PhaseMap, HoldMap, HeldFor, FreeMap, PaidMap,
            LedgerMap, History

-----------------------------------------------------------------------------
(* The ledger's steps, on those functions.                                  *)

LEMMA CloseUnheldIs ==
    ASSUME NEW r \in RequestId,
           LedgerPhase(r) = "open",
           PhaseMap' = [PhaseMap EXCEPT ![r] = "closed"],
           UNCHANGED <<HoldMap, FreeMap, PaidMap, LedgerMap>>
    PROVE  Ledger!CloseUnheld(r)
BY DEF Ledger!CloseUnheld, PhaseMap, HoldMap, HeldFor, FreeMap, PaidMap, LedgerMap, History

LEMMA HoldIs ==
    ASSUME NEW r \in RequestId, NEW o, NEW a, NEW n,
           LedgerPhase(r) = "open",
           PhaseMap' = [PhaseMap EXCEPT ![r] = "held"],
           HoldMap' = [HoldMap EXCEPT ![r] = [owner |-> o, asset |-> a, amount |-> n]],
           FreeMap' = [FreeMap EXCEPT ![o][a] = FreeMap[o][a] - n],
           UNCHANGED <<PaidMap, LedgerMap>>
    PROVE  Ledger!Hold(r, o, a, n)
BY DEF Ledger!Hold, PhaseMap, HoldMap, HeldFor, FreeMap, PaidMap, LedgerMap, History

LEMMA ReturnHeldIs ==
    ASSUME NEW r \in RequestId, NEW o, NEW a, NEW n,
           LedgerPhase(r) = "held",
           HeldFor(r) = [owner |-> o, asset |-> a, amount |-> n],
           PhaseMap' = [PhaseMap EXCEPT ![r] = "closed"],
           HoldMap' = [HoldMap EXCEPT ![r] = [amount |-> 0]],
           FreeMap' = [FreeMap EXCEPT ![o][a] = FreeMap[o][a] + n],
           UNCHANGED <<PaidMap, LedgerMap>>
    PROVE  Ledger!ReturnHeld(r)
BY DEF Ledger!ReturnHeld, Ledger!Nothing, PhaseMap, HoldMap, HeldFor, FreeMap, PaidMap,
       LedgerMap, History

LEMMA PayIs ==
    ASSUME NEW r \in RequestId, NEW p, NEW o, NEW a, NEW n,
           LedgerPhase(r) = "held",
           HeldFor(r) = [owner |-> o, asset |-> a, amount |-> n],
           PhaseMap' = [PhaseMap EXCEPT ![r] = "paid"],
           HoldMap' = [HoldMap EXCEPT ![r] = [amount |-> 0]],
           PaidMap' = [PaidMap EXCEPT ![o][a] = PaidMap[o][a] + n],
           Ledger!Extends(p, r),
           UNCHANGED FreeMap
    PROVE  Ledger!Pay(r, p)
BY DEF Ledger!Pay, Ledger!Nothing, PhaseMap, HoldMap, HeldFor, FreeMap, PaidMap

LEMMA RefillIs ==
    ASSUME NEW o \in Owner, NEW a \in Asset,
           FreeMap' \in [Owner -> [Asset -> Nat]],
           \A q \in Owner, b \in Asset : <<q, b>> # <<o, a>> => FreeMap'[q][b] = FreeMap[q][b],
           UNCHANGED <<PhaseMap, HoldMap, PaidMap, LedgerMap>>
    PROVE  Ledger!Refill(o, a)
BY DEF Ledger!Refill, PhaseMap, HoldMap, HeldFor, FreeMap, PaidMap, LedgerMap, History

LEMMA StutterIs == MapsUnchanged => UNCHANGED Ledger!ledgerVars
BY DEF MapsUnchanged, Ledger!ledgerVars, PhaseMap, HoldMap, HeldFor, FreeMap, PaidMap,
       LedgerMap, History

-----------------------------------------------------------------------------
(* Every call is one of them.                                               *)

\* Calls that decide nothing leave the request in its phase.
LEMMA CreateSimulates ==
    ASSUME RouterInv, CreateNext
    PROVE  MapsUnchanged
<1>1. PICK request \in ActionRequest, sender \in Address : CreateRequest(request, sender)
  BY CreatedIsRequest
<1>2. UNCHANGED vaultVars
  BY <1>1 DEF CreateRequest
<1>3. \A r \in RequestId : requests'[r] = requests[r] \/ CreatedMove(r)
  BY CreateMoves
<1>4. \A r \in RequestId : LedgerPhase(r)' = LedgerPhase(r)
  BY <1>3 DEF LedgerPhase, CreatedMove, Status
<1> QED BY <1>2, <1>4, CreateMoves, QuietLedger, QuietMoney DEF MapsUnchanged, PhaseMap

\* The deciding vote holds the request's amount or closes the request.
LEMMA DecisionSimulates ==
    ASSUME RouterInv, NEW r \in RequestId, NEW result \in EvaluationResult,
           Status(r) = "Pending", UNCHANGED registryVars, UNCHANGED spendState,
           DecideRequest(r, result)
    PROVE  Ledger!LedgerNext
<1>1. /\ Status(r)' \in {"Allowed", "Denied"} /\ HoldAgrees(r)'
      /\ Frozen(r)' = Frozen(r)
      /\ \A q \in RequestId : q # r =>
           requests'[q] = requests[q] /\ reservations'[q] = reservations[q]
  BY DecisionStep
<1>2. LedgerPhase(r) = "open" /\ LedgerMap' = LedgerMap
  BY QuietLedger DEF LedgerPhase
<1>3. /\ PhaseMap' = [PhaseMap EXCEPT ![r] = LedgerPhase(r)']
      /\ HoldMap' = [HoldMap EXCEPT ![r] = HeldFor(r)']
  BY <1>1, PhaseOfOne, HoldOfOne
<1>4. Status(r)' = IF result.decision = "ALLOW" THEN "Allowed" ELSE "Denied"
  BY DEF DecideRequest, Status, RouterInv, RouterTypeOK, StoredRequest
<1>5. CASE result.decision = "ALLOW"
  <2>1. Reserve(RouterAddress, OwnerOf(r), Frozen(r).asset, r, Frozen(r).amount)
    BY <1>5 DEF DecideRequest, OwnerOf
  <2>2. Frozen(r) \in ActionRequest /\ PolicyOf(r) \in Policy /\ Registered(PolicyOf(r))
    BY DEF RouterInv, RouterTypeOK, ActionRequest, PolicyOf, RequestInv, UnderPolicy
  <2>3. PICK o \in Owner, a \in Asset, n \in Nat : Reserve(RouterAddress, o, a, r, n)
    BY <2>1, <2>2, RouterAssumption
       DEF ActionRequest, OwnerOf, Reserve, RouterInv, RegistryTypeOK
  <2>4. accounts[o][a] \in Accounting
    BY <2>3 DEF RouterInv, VaultInv, VaultTypeOK
  <2>5. /\ n \in 1..FreeMap[o][a]
        /\ FreeMap[o][a] = accounts[o][a].available /\ PaidMap[o][a] = accounts[o][a].spent
    BY <2>3, <2>4 DEF FreeMap, PaidMap, Reserve, Covers, Accounting
  <2>6. UpdateAccount(o, a, EntryReserved(accounts[o][a], n))
    BY <2>3 DEF Reserve
  <2>7. /\ EntryReserved(accounts[o][a], n).available = FreeMap[o][a] - n
        /\ EntryReserved(accounts[o][a], n).spent = PaidMap[o][a]
    BY <2>4, <2>5 DEF EntryReserved, Accounting
  <2>8. /\ FreeMap' = [FreeMap EXCEPT ![o][a] = FreeMap[o][a] - n]
        /\ PaidMap' = [PaidMap EXCEPT ![o][a] = PaidMap[o][a]]
    BY <2>3, <2>6, <2>7, AccountOfOne DEF RouterInv
  <2>9. PaidMap' = PaidMap
    BY <2>8 DEF PaidMap
  <2>10. HeldFor(r)' = [owner |-> o, asset |-> a, amount |-> n]
    BY <2>3 DEF Reserve, HeldFor, RouterInv, VaultInv, VaultTypeOK
  <2>11. LedgerPhase(r)' = "held"
    BY <1>4, <1>5 DEF LedgerPhase
  <2>12. Ledger!Hold(r, o, a, n)
    BY <1>2, <1>3, <2>8, <2>9, <2>10, <2>11, HoldIs
  <2> QED BY <2>3, <2>5, <2>12 DEF Ledger!LedgerNext, FreeMap
<1>6. CASE result.decision # "ALLOW"
  <2>1. UNCHANGED <<HoldMap, FreeMap, PaidMap>>
    BY <1>6, QuietMoney DEF DecideRequest
  <2>2. LedgerPhase(r)' = "closed"
    BY <1>4, <1>6 DEF LedgerPhase
  <2>3. Ledger!CloseUnheld(r)
    BY <1>2, <1>3, <2>1, <2>2, CloseUnheldIs
  <2> QED BY <2>3 DEF Ledger!LedgerNext
<1> QED BY <1>5, <1>6

LEMMA SubmitSimulates ==
    ASSUME RouterInv, SubmitNext
    PROVE  Ledger!LedgerNext \/ MapsUnchanged
<1>1. PICK r \in RequestId :
        /\ Status(r) = "Pending"
        /\ \E c \in Credential, result \in CandidateResults(Frozen(r)) :
             SubmitEvaluation(r, c.machine, c.key, c.signer, result)
  BY DEF SubmitNext
<1>2. PICK c \in Credential, result \in CandidateResults(Frozen(r)) :
        SubmitEvaluation(r, c.machine, c.key, c.signer, result)
  BY <1>1
<1>3. result \in EvaluationResult
  <2>1. Frozen(r) \in ActionRequest
    BY <1>1 DEF RouterInv, RouterTypeOK
  <2> QED BY <2>1, CandidateResultsTyped
<1>4. /\ UNCHANGED registryVars /\ UNCHANGED spendState
      /\ UNCHANGED <<requests, vaultVars>> \/ DecideRequest(r, result)
  BY <1>2 DEF SubmitEvaluation
<1>5. CASE UNCHANGED <<requests, vaultVars>>
  <2>1. PhaseMap' = PhaseMap
    BY <1>5 DEF PhaseMap, LedgerPhase, Status
  <2> QED BY <1>4, <1>5, <2>1, QuietLedger, QuietMoney DEF MapsUnchanged
<1>6. CASE DecideRequest(r, result)
  BY <1>1, <1>3, <1>4, <1>6, DecisionSimulates
<1> QED BY <1>4, <1>5, <1>6

\* What release and execute find reserved, and what deleting it leaves.
LEMMA SettledHold ==
    ASSUME RouterInv, NEW r \in RequestId, reservations[r].active, DeleteReservation(r)
    PROVE  /\ HeldFor(r) = [owner |-> reservations[r].owner, asset |-> reservations[r].asset,
                            amount |-> reservations[r].amount]
           /\ reservations[r].owner \in Owner /\ reservations[r].asset \in Asset
           /\ reservations[r].amount \in Nat
           /\ HoldMap' = [HoldMap EXCEPT ![r] = [amount |-> 0]]
<1>1. /\ ~reservations'[r].active
      /\ \A q \in RequestId : q # r => reservations'[q] = reservations[q]
  BY DeletedReservation
<1>2. HoldMap' = [HoldMap EXCEPT ![r] = HeldFor(r)']
  BY <1>1, HoldOfOne
<1>3. HeldFor(r)' = [amount |-> 0]
  BY <1>1 DEF HeldFor
<1> QED BY <1>2, <1>3, DeleteReservationInv DEF HeldFor, RouterInv

LEMMA ExecuteSimulates ==
    ASSUME RouterInv, ChainInv, ExecuteNext
    PROVE  Ledger!LedgerNext
<1>1. PICK r \in RequestId : Execute(r)
  BY DEF ExecuteNext
<1>2. PolicyOf(r) \in Policy
  BY <1>1, ExecuteWrites
<1>3. PICK p \in Policy : p = PolicyOf(r)
  BY <1>2
<1>4. /\ Status(r) = "Allowed" /\ Status(r)' = "Executed"
      /\ \A q \in RequestId : q # r => requests'[q] = requests[q]
      /\ \A q \in Policy : q # p => spendState'[q] = spendState[q]
  BY <1>1, <1>3, ExecuteWrites
<1>5. ExecuteReserved(RouterAddress, r, Frozen(r).target)
  BY <1>1 DEF Execute
<1>6. PICK o, a, n : /\ o = reservations[r].owner /\ a = reservations[r].asset
                     /\ n = reservations[r].amount
  OBVIOUS
<1>7. /\ reservations[r].active /\ DeleteReservation(r)
      /\ UpdateAccount(o, a, EntrySpent(accounts[o][a], n))
  BY <1>5, <1>6 DEF ExecuteReserved
<1>8. /\ HeldFor(r) = [owner |-> o, asset |-> a, amount |-> n]
      /\ o \in Owner /\ a \in Asset /\ n \in Nat
      /\ HoldMap' = [HoldMap EXCEPT ![r] = [amount |-> 0]]
  BY <1>6, <1>7, SettledHold
<1>9. PhaseMap' = [PhaseMap EXCEPT ![r] = "paid"] /\ LedgerPhase(r) = "held"
  <2>1. LedgerPhase(r)' = "paid" /\ LedgerPhase(r) = "held"
    BY <1>4 DEF LedgerPhase
  <2> QED BY <1>4, <2>1, PhaseOfOne
<1>10. /\ FreeMap' = FreeMap
       /\ PaidMap' = [PaidMap EXCEPT ![o][a] = PaidMap[o][a] + n]
  <2>1. accounts[o][a] \in Accounting
    BY <1>8 DEF RouterInv, VaultInv, VaultTypeOK
  <2>2. FreeMap[o][a] = accounts[o][a].available /\ PaidMap[o][a] = accounts[o][a].spent
    BY <1>8 DEF FreeMap, PaidMap
  <2>3. /\ EntrySpent(accounts[o][a], n).available = FreeMap[o][a]
        /\ EntrySpent(accounts[o][a], n).spent = PaidMap[o][a] + n
    BY <2>1, <2>2 DEF EntrySpent, Accounting
  <2>4. /\ FreeMap' = [FreeMap EXCEPT ![o][a] = FreeMap[o][a]]
        /\ PaidMap' = [PaidMap EXCEPT ![o][a] = PaidMap[o][a] + n]
    BY <1>7, <1>8, <2>3, AccountOfOne DEF RouterInv
  <2> QED BY <2>4 DEF FreeMap
<1>11. Ledger!Extends(p, r)
  <2> DEFINE h == History(p)
  <2> DEFINE payment == [requestId |-> r, accountedAt |-> Approved(r).issuedAt]
  <2>1. /\ History(p)' = Append(h, payment) /\ h \in Seq(Payment)
        /\ \A i \in DOMAIN h : h[i].accountedAt <= payment.accountedAt
    BY <1>1, <1>3, ExecuteAppends DEF ChainInv
  <2>2. /\ Len(h) \in Nat /\ DOMAIN h = 1..Len(h) /\ Len(History(p)') = Len(h) + 1
        /\ \A i \in 1..Len(h) : History(p)'[i] = h[i]
        /\ History(p)'[Len(h) + 1] = payment
    BY <2>1
  <2>3. \A q \in Policy \ {p} : History(q)' = History(q)
    BY <1>4 DEF History
  <2>4. LedgerMap[p] = h /\ LedgerMap'[p] = History(p)'
    BY DEF LedgerMap
  <2>5. \A q \in Policy \ {p} : LedgerMap'[q] = LedgerMap[q]
    BY <2>3 DEF LedgerMap
  <2> HIDE DEF h, payment
  <2>6. /\ Len(LedgerMap'[p]) = Len(LedgerMap[p]) + 1
        /\ \A i \in 1..(Len(LedgerMap[p]) + 1) - 1 :
             /\ LedgerMap'[p][i] = LedgerMap[p][i]
             /\ LedgerMap[p][i].accountedAt <= LedgerMap'[p][Len(LedgerMap[p]) + 1].accountedAt
        /\ LedgerMap'[p][Len(LedgerMap[p]) + 1].requestId = r
    <3>1. 1..(Len(h) + 1) - 1 = DOMAIN h
      BY <2>2
    <3>2. payment.requestId = r
      BY DEF payment
    <3> QED BY <2>1, <2>2, <2>4, <3>1, <3>2
  <2> QED BY <2>5, <2>6 DEF Ledger!Extends, LedgerMap, History
<1>12. Ledger!Pay(r, p)
  BY <1>8, <1>9, <1>10, <1>11, PayIs
<1> QED BY <1>12 DEF Ledger!LedgerNext

LEMMA AbandonSimulates ==
    ASSUME RouterInv, ExpireNext \/ CancelNext
    PROVE  Ledger!LedgerNext
<1>1. PICK r \in RequestId, status \in {"Expired", "Cancelled"} : Open(r) /\ Abandon(r, status)
  BY DEF ExpireNext, Expire, CancelNext, Cancel
<1>2. /\ Status(r)' = status /\ ReleaseIfAllowed(r) /\ LedgerMap' = LedgerMap
      /\ \A q \in RequestId : q # r => requests'[q] = requests[q]
  BY <1>1, QuietLedger
     DEF Abandon, SetRequestStatus, Status, RouterInv, RouterTypeOK, StoredRequest
<1>3. PhaseMap' = [PhaseMap EXCEPT ![r] = "closed"]
  <2>1. LedgerPhase(r)' = "closed"
    BY <1>2 DEF LedgerPhase
  <2> QED BY <1>2, <2>1, PhaseOfOne
<1>4. CASE Status(r) = "Pending"
  <2>1. UNCHANGED <<HoldMap, FreeMap, PaidMap>>
    BY <1>2, <1>4, QuietMoney DEF ReleaseIfAllowed
  <2>2. LedgerPhase(r) = "open"
    BY <1>4 DEF LedgerPhase
  <2>3. Ledger!CloseUnheld(r)
    BY <1>2, <1>3, <2>1, <2>2, CloseUnheldIs
  <2> QED BY <2>3 DEF Ledger!LedgerNext
<1>5. CASE Status(r) = "Allowed"
  <2>1. PICK o, a, n : /\ o = reservations[r].owner /\ a = reservations[r].asset
                       /\ n = reservations[r].amount
    OBVIOUS
  <2>2. /\ reservations[r].active /\ DeleteReservation(r)
        /\ UpdateAccount(o, a, EntryReleased(accounts[o][a], n))
    BY <1>2, <1>5, <2>1 DEF ReleaseIfAllowed, Release
  <2>3. /\ HeldFor(r) = [owner |-> o, asset |-> a, amount |-> n]
        /\ o \in Owner /\ a \in Asset /\ n \in Nat
        /\ HoldMap' = [HoldMap EXCEPT ![r] = [amount |-> 0]]
    BY <2>1, <2>2, SettledHold
  <2>4. accounts[o][a] \in Accounting
    BY <2>3 DEF RouterInv, VaultInv, VaultTypeOK
  <2>5. FreeMap[o][a] = accounts[o][a].available /\ PaidMap[o][a] = accounts[o][a].spent
    BY <2>3 DEF FreeMap, PaidMap
  <2>6. /\ EntryReleased(accounts[o][a], n).available = FreeMap[o][a] + n
        /\ EntryReleased(accounts[o][a], n).spent = PaidMap[o][a]
    BY <2>4, <2>5 DEF EntryReleased, Accounting
  <2>7. /\ FreeMap' = [FreeMap EXCEPT ![o][a] = FreeMap[o][a] + n]
        /\ PaidMap' = [PaidMap EXCEPT ![o][a] = PaidMap[o][a]]
    BY <2>2, <2>3, <2>6, AccountOfOne DEF RouterInv
  <2>8. PaidMap' = PaidMap
    BY <2>7 DEF PaidMap
  <2>9. LedgerPhase(r) = "held"
    BY <1>5 DEF LedgerPhase
  <2>10. Ledger!ReturnHeld(r)
    BY <1>2, <1>3, <2>3, <2>7, <2>8, <2>9, ReturnHeldIs
  <2> QED BY <2>10 DEF Ledger!LedgerNext
<1> QED BY <1>1, <1>4, <1>5 DEF Open

\* A deposit or a withdrawal changes what one owner has free, nothing held.
LEMMA OwnerSimulates ==
    ASSUME RouterInv, OwnerNext, UNCHANGED <<registryVars, routerVars>>
    PROVE  Ledger!LedgerNext
<1>1. PICK o \in Owner, a \in Asset, entry \in Accounting :
        /\ UpdateAccount(o, a, entry)
        /\ entry.spent = accounts[o][a].spent /\ reservations' = reservations
  <2>1. PICK asset \in Asset, amount \in Amount, owner \in Owner,
             other \in Address \cup {ZeroAddress} :
          \/ other \in Owner \cup {ZeroAddress} /\ Deposit(owner, asset, amount, other)
          \/ Withdraw(owner, asset, amount, other)
    BY DEF OwnerNext
  <2>2. amount \in Nat
    BY VaultAssumption
  <2>3. \A q \in Owner : accounts[q][asset] \in Accounting
    BY DEF RouterInv, VaultInv, VaultTypeOK
  <2>4. CASE other \in Owner \cup {ZeroAddress} /\ Deposit(owner, asset, amount, other)
    <3>1. /\ other \in Owner /\ reservations' = reservations
          /\ UpdateAccount(other, asset, EntryDeposited(accounts[other][asset], amount))
      BY <2>4 DEF Deposit
    <3>2. PICK entry : entry = EntryDeposited(accounts[other][asset], amount)
      OBVIOUS
    <3>3. entry \in Accounting
      BY <2>2, <2>3, <3>1, <3>2, EntryUpdates
    <3>4. entry.spent = accounts[other][asset].spent
      BY <2>3, <3>1, <3>2 DEF EntryDeposited, Accounting
    <3> QED BY <3>1, <3>2, <3>3, <3>4
  <2>5. CASE Withdraw(owner, asset, amount, other)
    <3>1. /\ reservations' = reservations /\ Covers(accounts[owner][asset], amount)
          /\ UpdateAccount(owner, asset, EntryWithdrawn(accounts[owner][asset], amount))
      BY <2>5 DEF Withdraw
    <3>2. PICK entry : entry = EntryWithdrawn(accounts[owner][asset], amount)
      OBVIOUS
    <3>3. entry \in Accounting
      BY <2>2, <2>3, <3>1, <3>2, EntryUpdates
    <3>4. entry.spent = accounts[owner][asset].spent
      BY <2>3, <3>1, <3>2 DEF EntryWithdrawn, Accounting
    <3> QED BY <3>1, <3>2, <3>3, <3>4
  <2> QED BY <2>1, <2>4, <2>5
<1>2. /\ FreeMap' = [FreeMap EXCEPT ![o][a] = entry.available]
      /\ PaidMap' = [PaidMap EXCEPT ![o][a] = PaidMap[o][a]]
  <2>1. PaidMap[o][a] = entry.spent
    BY <1>1 DEF PaidMap
  <2> QED BY <1>1, <2>1, AccountOfOne DEF RouterInv
<1>3. PaidMap' = PaidMap
  BY <1>2 DEF PaidMap
<1>4. FreeMap \in [Owner -> [Asset -> Nat]]
  BY DEF FreeMap, RouterInv, VaultInv, VaultTypeOK, Accounting
<1>5. /\ FreeMap' \in [Owner -> [Asset -> Nat]]
      /\ \A q \in Owner, b \in Asset :
           <<q, b>> # <<o, a>> => FreeMap'[q][b] = FreeMap[q][b]
  BY <1>1, <1>2, <1>4 DEF Accounting
<1>6. PhaseMap' = PhaseMap /\ HoldMap' = HoldMap /\ LedgerMap' = LedgerMap
  BY <1>1, QuietLedger DEF PhaseMap, LedgerPhase, Status, HoldMap, HeldFor, routerVars
<1>7. Ledger!Refill(o, a)
  BY <1>3, <1>5, <1>6, RefillIs
<1> QED BY <1>7 DEF Ledger!LedgerNext

LEMMA QuietSimulates ==
    ASSUME UNCHANGED <<vaultVars, routerVars>>
    PROVE  MapsUnchanged
BY QuietMoney, QuietLedger DEF MapsUnchanged, routerVars, PhaseMap, LedgerPhase, Status

LEMMA NextSimulates ==
    ASSUME RouterInv, ChainInv, [Next]_vars
    PROVE  [Ledger!LedgerNext]_Ledger!ledgerVars
<1>1. CASE CreateNext
  BY <1>1, CreateSimulates, StutterIs
<1>2. CASE SubmitNext
  BY <1>2, SubmitSimulates, StutterIs
<1>3. CASE ExecuteNext
  BY <1>3, ExecuteSimulates
<1>4. CASE ExpireNext \/ CancelNext
  BY <1>4, AbandonSimulates
<1>5. CASE OwnerNext /\ UNCHANGED <<registryVars, routerVars>>
  BY <1>5, OwnerSimulates
<1>6. CASE UNCHANGED <<vaultVars, routerVars>>
  BY <1>6, QuietSimulates, StutterIs
<1> QED BY <1>1, <1>2, <1>3, <1>4, <1>5, <1>6 DEF Next, RouterNext, EnvironmentNext, vars

\* The contracts implement the ledger: what is held was free, is paid once or
\* returned once, and each policy's payments only grow at the end, in time.
THEOREM ContractsImplementLedger == Spec => ImplementsLedger
<1>1. RouterInv /\ ChainInv /\ [Next]_vars => [Ledger!LedgerNext]_Ledger!ledgerVars
  BY NextSimulates
<1> QED BY <1>1, InitIsLedgerInit, RouterInvariance, ChainInvariance, PTL
        DEF Spec, ImplementsLedger, Ledger!LedgerSpec

-----------------------------------------------------------------------------
(* A request, once created, is for ever the one that was created.           *)

RequestsAreFinal ==
    \A r \in RequestId : Status(r) # "None" => Status(r)' # "None" /\ Frozen(r)' = Frozen(r)

\* The router's callers make no request in the trigger's name.
NoneForTrigger ==
    \A r \in RequestId :
        Status(r) = "None" /\ Status(r)' # "None" => Frozen(r)'.requester # TriggerAddress

LEMMA CreatedRequest ==
    ASSUME RouterInv, NEW request \in ActionRequest, NEW sender, CreateRequest(request, sender)
    PROVE  /\ request.requestId \in RequestId /\ Status(request.requestId) = "None"
           /\ Status(request.requestId)' = "Pending" /\ Frozen(request.requestId)' = request
           /\ request.requester = sender
           /\ \A r \in RequestId : r # request.requestId => requests'[r] = requests[r]
<1>1. /\ request.requestId \in RequestId /\ Status(request.requestId) = "None"
      /\ request.requester = sender
      /\ requests' = [requests EXCEPT ![request.requestId] =
           [status |-> "Pending", request |-> request, approved |-> NoEvaluation]]
  BY DEF CreateRequest, ActionRequest
<1>2. requests \in [RequestId -> StoredRequest]
  BY DEF RouterInv, RouterTypeOK
<1> QED BY <1>1, <1>2 DEF Status, Frozen

\* A step that only changes the status and the approval of one request.
LEMMA RevisedRequest ==
    ASSUME RouterInv, NEW r \in RequestId, Status(r) # "None", NEW revised,
           requests' = [requests EXCEPT ![r] = revised],
           revised.status # "None", revised.request = Frozen(r)
    PROVE  RequestsAreFinal /\ NoneForTrigger
<1>1. requests \in [RequestId -> StoredRequest]
  BY DEF RouterInv, RouterTypeOK
<1> QED BY <1>1 DEF RequestsAreFinal, NoneForTrigger, Status, Frozen

LEMMA RouterStepKeepsRequests ==
    ASSUME RouterInv, [Next]_vars
    PROVE  RequestsAreFinal /\ NoneForTrigger
<1>1. CASE CreateNext
  <2>1. PICK input \in RequestInput, occurrence \in 1..MaxOccurrence :
          \E checkpoint \in KnownCheckpoints(input.policyCommitment), sender \in Address :
            CreateRequest(PlacedRequest(input, checkpoint, occurrence), sender)
    BY <1>1 DEF CreateNext
  <2>2. PICK checkpoint \in KnownCheckpoints(input.policyCommitment), sender \in Address :
          CreateRequest(PlacedRequest(input, checkpoint, occurrence), sender)
    BY <2>1
  <2> DEFINE request == PlacedRequest(input, checkpoint, occurrence)
  <2>3. input.policyCommitment \in Policy
    BY RouterAssumption DEF RequestInputType
  <2>4. request \in ActionRequest /\ request.requester # TriggerAddress
    BY <2>3, KnownCheckpointsTyped, PlacedRequestTyped, TriggerAssumption DEF RouterInv, PlacedRequest
  <2> HIDE DEF request
  <2> QED BY <2>2, <2>4, CreatedRequest DEF RequestsAreFinal, NoneForTrigger, Status, Frozen, request
<1>2. CASE SubmitNext
  <2>1. PICK r \in RequestId : Status(r) = "Pending" /\
          \E c \in Credential, result \in CandidateResults(Frozen(r)) :
            SubmitEvaluation(r, c.machine, c.key, c.signer, result)
    BY <1>2 DEF SubmitNext
  <2>2. PICK c \in Credential, result \in CandidateResults(Frozen(r)) :
          SubmitEvaluation(r, c.machine, c.key, c.signer, result)
    BY <2>1
  <2>3. CASE UNCHANGED requests
    BY <2>3 DEF RequestsAreFinal, NoneForTrigger, Status, Frozen
  <2>4. CASE DecideRequest(r, result)
    <3> DEFINE decided == [requests[r] EXCEPT
                 !.status = IF result.decision = "ALLOW" THEN "Allowed" ELSE "Denied",
                 !.approved = result]
    <3>1. requests' = [requests EXCEPT ![r] = decided]
      BY <2>4 DEF DecideRequest
    <3>2. decided.status # "None" /\ decided.request = Frozen(r)
      BY DEF RouterInv, RouterTypeOK, StoredRequest, Frozen
    <3> HIDE DEF decided
    <3> QED BY <2>1, <3>1, <3>2, RevisedRequest
  <2> QED BY <2>2, <2>3, <2>4 DEF SubmitEvaluation
<1>3. CASE ExecuteNext \/ ExpireNext \/ CancelNext
  <2>1. PICK r \in RequestId, status \in {"Executed", "Expired", "Cancelled"} :
          Open(r) /\ SetRequestStatus(r, status)
    BY <1>3 DEF ExecuteNext, Execute, ExpireNext, Expire, CancelNext, Cancel, Abandon, Open
  <2> DEFINE ended == [requests[r] EXCEPT !.status = status]
  <2>2. requests' = [requests EXCEPT ![r] = ended]
    BY <2>1 DEF SetRequestStatus
  <2>3. ended.status # "None" /\ ended.request = Frozen(r) /\ Status(r) # "None"
    BY <2>1 DEF RouterInv, RouterTypeOK, StoredRequest, Frozen, Open
  <2> HIDE DEF ended
  <2> QED BY <2>2, <2>3, RevisedRequest
<1>4. CASE EnvironmentNext \/ UNCHANGED vars
  BY <1>4 DEF EnvironmentNext, vars, routerVars, RequestsAreFinal, NoneForTrigger, Status, Frozen
<1> QED BY <1>1, <1>2, <1>3, <1>4 DEF Next, RouterNext

-----------------------------------------------------------------------------
(* The inductive invariant.                                                 *)

TriggerInv ==
    /\ RouterInv
    /\ DOMAIN inputCommitment = RequestId
    /\ PaymentsStandForRequests

LEMMA TriggerInvInit == TriggerInit => TriggerInv
<1> SUFFICES ASSUME TriggerInit PROVE TriggerInv
  OBVIOUS
<1>1. RouterInv
  BY RouterInitInv DEF TriggerInit
<1>2. Triggered = {}
  BY DEF TriggerInit, Init, RouterInit, Triggered, Status
<1>3. transactionConsumed = {} /\ proofConsumed = {} /\ DOMAIN inputCommitment = RequestId
  BY DEF TriggerInit
<1> QED BY <1>1, <1>2, <1>3 DEF TriggerInv, PaymentsStandForRequests, BackedByPayment, SpentIffRequested

\* Steps that are not the trigger's leave its requests and markers alone.
LEMMA RouterKeepsTrigger ==
    ASSUME TriggerInv, [Next]_vars, UNCHANGED triggerVars
    PROVE  TriggerInv'
<1>1. RouterInv' /\ RequestsAreFinal /\ NoneForTrigger
  BY RouterNextInv, RouterStepKeepsRequests DEF TriggerInv
<1>2. UNCHANGED <<transactionConsumed, proofConsumed, inputCommitment>>
  BY DEF triggerVars
<1>3. Triggered' = Triggered
  BY <1>1 DEF Triggered, RequestsAreFinal, NoneForTrigger
<1>4. \A r \in Triggered : Frozen(r)' = Frozen(r)
  BY <1>1 DEF Triggered, RequestsAreFinal
<1>5. BackedByPayment'
  BY <1>2, <1>3, <1>4 DEF TriggerInv, PaymentsStandForRequests, BackedByPayment
<1>6. SpentIffRequested'
  BY <1>2, <1>3 DEF TriggerInv, PaymentsStandForRequests, SpentIffRequested
<1> QED BY <1>1, <1>2, <1>5, <1>6 DEF TriggerInv, PaymentsStandForRequests

\* The trigger's own step: one payment is spent and one request stands for it.
LEMMA ConsumeStep ==
    ASSUME TriggerInv, ConsumeNext
    PROVE  TriggerInv'
<1>1. PICK proof \in Proof, input \in TriggerInput, occurrence \in 1..MaxOccurrence :
        \E other \in Proof, checkpoint \in KnownCheckpoints(input.policyCommitment) :
          ConsumeAndCreateRequest(proof, PlacedRequest(input, checkpoint, occurrence),
                                  xrplInputCommitment(other))
  BY DEF ConsumeNext
<1>2. PICK other \in Proof, checkpoint \in KnownCheckpoints(input.policyCommitment) :
        ConsumeAndCreateRequest(proof, PlacedRequest(input, checkpoint, occurrence),
                                xrplInputCommitment(other))
  BY <1>1
<1> DEFINE request == PlacedRequest(input, checkpoint, occurrence)
           r == request.requestId
           tx == proof.payment.transaction
<1>3. /\ request.requester = TriggerAddress /\ PaysFor(proof.payment, request)
      /\ proof \in Attested
      /\ transactionConsumed' = transactionConsumed \cup {tx}
      /\ proofConsumed' = proofConsumed \cup {proof}
      /\ CreateRequest(request, TriggerAddress)
      /\ inputCommitment' = [inputCommitment EXCEPT ![r] = xrplInputCommitment(proof)]
  BY <1>2 DEF ConsumeAndCreateRequest, CreateOrNothing, xrplProofCommitment
<1>4. request \in ActionRequest
  <2>1. input \in RequestInputType /\ input.policyCommitment \in Policy
    BY TriggerAssumption DEF RequestInputType
  <2>2. checkpoint \in Checkpoint
    BY <2>1, KnownCheckpointsTyped DEF TriggerInv, RouterInv
  <2>3. occurrence \in Nat
    BY RouterAssumption
  <2> QED BY <2>1, <2>2, <2>3 DEF PlacedRequest, ActionRequest, RequestInputType
<1> HIDE DEF request
<1>5. RouterInv'
  BY <1>3, <1>4, CreateStep, TriggerAssumption DEF TriggerInv
<1>6. /\ r \in RequestId /\ Status(r) = "None" /\ Status(r)' = "Pending" /\ Frozen(r)' = request
      /\ \A q \in RequestId : q # r =>
           Status(q)' = Status(q) /\ Frozen(q)' = Frozen(q)
  BY <1>3, <1>4, CreatedRequest DEF TriggerInv, Status, Frozen
<1>7. Triggered' = Triggered \cup {r} /\ r \notin Triggered
  BY <1>3, <1>6 DEF Triggered
<1>8. /\ DOMAIN inputCommitment' = RequestId
      /\ inputCommitment'[r] = xrplInputCommitment(proof)
      /\ \A q \in RequestId : q # r => inputCommitment'[q] = inputCommitment[q]
  BY <1>3, <1>6 DEF TriggerInv
<1>9. inputCommitment'[r].payment = proof.payment
  BY <1>8 DEF xrplInputCommitment
<1>10. BackedByPayment'
  <2>1. /\ \E p \in Attested : xrplInputCommitment(p) = inputCommitment'[r]
        /\ proof.payment.amount = request.amount /\ proof.payment.memo = r
        /\ proof.payment.time <= request.createdAt
    <3>1. proof.payment.time \in Nat /\ request.createdAt \in Nat
      BY <1>4, TriggerAssumption DEF XRPPayment, ActionRequest
    <3> QED BY <1>3, <1>8, <3>1 DEF PaysFor
  <2>2. \A q \in Triggered : q \in RequestId /\ q # r
    BY <1>7 DEF Triggered
  <2> QED BY <1>6, <1>7, <1>8, <1>9, <2>1, <2>2
          DEF TriggerInv, PaymentsStandForRequests, BackedByPayment, xrplInputCommitment
<1>11. SpentIffRequested'
  <2>1. \A q \in Triggered : inputCommitment'[q] = inputCommitment[q]
    BY <1>7, <1>8 DEF Triggered
  <2>2. transactionConsumed' = {inputCommitment'[q].payment.transaction : q \in Triggered'}
    BY <1>3, <1>7, <1>9, <2>1 DEF TriggerInv, PaymentsStandForRequests, SpentIffRequested
  <2>3. \A p \in proofConsumed' : p.payment.transaction \in transactionConsumed'
    BY <1>3 DEF TriggerInv, PaymentsStandForRequests, SpentIffRequested
  <2> QED BY <2>2, <2>3 DEF SpentIffRequested
<1> QED BY <1>5, <1>8, <1>10, <1>11 DEF TriggerInv, PaymentsStandForRequests

LEMMA TriggerInvNext == TriggerInv /\ [TriggerNext]_<<vars, triggerVars>> => TriggerInv'
<1> SUFFICES ASSUME TriggerInv, [TriggerNext]_<<vars, triggerVars>> PROVE TriggerInv'
  OBVIOUS
<1>1. CASE ConsumeNext
  BY <1>1, ConsumeStep
<1>2. CASE RuntimeDrift
  <2>1. /\ UNCHANGED vars
        /\ UNCHANGED <<transactionConsumed, proofConsumed, inputCommitment>>
    BY <1>2 DEF RuntimeDrift, vars
  <2>2. RouterInv'
    BY <2>1, RouterNextInv DEF TriggerInv
  <2>3. Triggered' = Triggered /\ \A r \in RequestId : Frozen(r)' = Frozen(r)
    BY <2>1 DEF vars, routerVars, Triggered, Status, Frozen
  <2>4. BackedByPayment'
    BY <2>1, <2>3 DEF TriggerInv, PaymentsStandForRequests, BackedByPayment, Triggered
  <2>5. SpentIffRequested'
    BY <2>1, <2>3 DEF TriggerInv, PaymentsStandForRequests, SpentIffRequested
  <2> QED BY <2>1, <2>2, <2>4, <2>5 DEF TriggerInv, PaymentsStandForRequests
<1>3. CASE Next /\ UNCHANGED triggerVars
  BY <1>3, RouterKeepsTrigger
<1>4. CASE UNCHANGED <<vars, triggerVars>>
  BY <1>4, RouterKeepsTrigger
<1> QED BY <1>1, <1>2, <1>3, <1>4 DEF TriggerNext

LEMMA TriggerInvariance == TriggerSpec => []TriggerInv
BY TriggerInvInit, TriggerInvNext, PTL DEF TriggerSpec

-----------------------------------------------------------------------------
(* Theorems.                                                                *)

\* Every request of the trigger stands for one attested payment of its amount
\* that names it, and a payment is spent exactly when a request stands for it
\* (consumeAndCreateRequest, PayGuardXrplFdcTrigger.sol).
THEOREM RequestsStandForPayments == TriggerSpec => []PaymentsStandForRequests
<1>1. TriggerInv => PaymentsStandForRequests
  BY DEF TriggerInv
<1> QED BY <1>1, TriggerInvariance, PTL

LEMMA TriggerNextSolvent ==
    TriggerInv /\ Solvency /\ [TriggerNext]_<<vars, triggerVars>> => Solvency'
<1> SUFFICES ASSUME TriggerInv, Solvency, [TriggerNext]_<<vars, triggerVars>>
             PROVE  Solvency'
  OBVIOUS
<1>1. CASE ConsumeNext
  <2>1. UNCHANGED vaultVars
    BY <1>1 DEF ConsumeNext, ConsumeAndCreateRequest, CreateOrNothing, CreateRequest
  <2> QED BY <2>1, QuietSolvent DEF vaultVars
<1>2. CASE RuntimeDrift
  BY <1>2, QuietSolvent DEF RuntimeDrift, vaultVars
<1>3. CASE [Next]_vars
  BY <1>3, RouterNextSolvent DEF TriggerInv
<1> QED BY <1>1, <1>2, <1>3 DEF TriggerNext

\* The trigger is one more caller to the contracts: with it they keep their
\* types, their agreement about holds, the two machines behind a decision, and
\* the vault still has what it owes.
THEOREM TriggerKeepsContracts ==
    TriggerSpec => [](TypeOK /\ ReservationIffAllowed /\ TwoMachinesAgreed /\ Solvency)
<1>1. TriggerInv => TypeOK /\ ReservationIffAllowed /\ TwoMachinesAgreed
  BY DEF TriggerInv, RouterInv, VaultInv, TypeOK, RequestInv, HoldAgrees, ReservationIffAllowed,
         AgreedByTwo, FrozenMachines, TwoMachinesAgreed
<1>2. TriggerInit => Solvency
  BY RouterInitInv, FreshVaultSolvent DEF RouterInv, TriggerInit, Init
<1> QED BY <1>1, <1>2, TriggerInvariance, TriggerNextSolvent, PTL DEF TriggerSpec

-----------------------------------------------------------------------------
(* What the readers decode.  A reader's rules are about one request at one  *)
(* moment; the router establishes each of them at another call.             *)

\* What createRequest asked of the caller's words.
WellFormed(r) ==
    Status(r) # "None" =>
        /\ 0 \notin {Frozen(r).requestNonce, Frozen(r).amount, Frozen(r).occurrence}
        /\ Frozen(r).createdAt <= Frozen(r).expiry

\* Until a request is decided each digest has one vote, and the second vote
\* for one of them decides it; nobody votes after that.
CountsFit(r) ==
    IF Approved(r) = NoEvaluation
      THEN \A d \in DOMAIN digestCounts[r] : digestCounts[r][d] = 1
      ELSE CountOf(r, Approved(r)) = 2

\* What submitEvaluation asked of the result that decided.
DecidedAs(request, result) ==
    /\ result \in EvaluationResult /\ result.issuedAt <= request.expiry
    /\ result.decision = "ALLOW" =>
         /\ result.publicReasonClass = 0 /\ result.reservedAmount = request.amount
         /\ result.resultingCheckpoint = nextSpendCheckpoint(request, result.issuedAt)
    /\ result.decision = "DENY" =>
         /\ result.publicReasonClass # 0 /\ result.reservedAmount = 0
         /\ result.resultingCheckpoint = request.spendCheckpoint

StatusIsDecision(r) ==
    /\ Approved(r) # NoEvaluation => DecidedAs(Frozen(r), Approved(r))
    /\ Status(r) \in {"None", "Pending"} => Approved(r) = NoEvaluation
    /\ Status(r) \in {"Allowed", "Executed"} => Approved(r).decision = "ALLOW"
    /\ Status(r) = "Denied" => Approved(r).decision = "DENY"
    /\ Status(r) \in {"Expired", "Cancelled"} => Approved(r).decision # "DENY"

Readable(r) == WellFormed(r) /\ CountsFit(r) /\ StatusIsDecision(r)

PublicInv == BindingsReceipted /\ \A r \in RequestId : Readable(r)

LEMMA UntouchedIsReadable ==
    ASSUME NEW r \in RequestId, Readable(r), requests'[r] = requests[r], digestCounts'[r] = digestCounts[r]
    PROVE  Readable(r)'
BY DEF Readable, WellFormed, CountsFit, CountOf, StatusIsDecision, Status, Frozen, Approved

LEMMA CreateIsReadable ==
    ASSUME RouterInv, PublicInv, CreateNext, NEW r \in RequestId
    PROVE  Readable(r)'
<1>1. PICK request \in ActionRequest, sender \in Address : CreateRequest(request, sender)
  BY CreatedIsRequest
<1>2. /\ requests' = [requests EXCEPT ![request.requestId] =
           [status |-> "Pending", request |-> request, approved |-> NoEvaluation]]
      /\ digestCounts' = digestCounts /\ Status(request.requestId) = "None"
      /\ request.requestNonce # 0 /\ request.amount # 0 /\ request.occurrence # 0
      /\ request.createdAt <= request.expiry
  BY <1>1 DEF CreateRequest
<1>3. requests \in [RequestId -> StoredRequest]
  BY DEF RouterInv, RouterTypeOK
<1>4. CASE r = request.requestId
  <2>1. Status(r)' = "Pending" /\ Frozen(r)' = request /\ Approved(r)' = NoEvaluation
    BY <1>2, <1>3, <1>4 DEF Status, Frozen, Approved
  <2>2. DOMAIN digestCounts'[r] = {}
    BY <1>2, <1>4 DEF RouterInv, RequestInv, NothingBefore
  <2> QED BY <1>2, <2>1, <2>2 DEF Readable, WellFormed, CountsFit, StatusIsDecision
<1>5. CASE r # request.requestId
  BY <1>2, <1>3, <1>5, UntouchedIsReadable DEF PublicInv
<1> QED BY <1>4, <1>5

\* How a vote changes what is read of its request.
LEMMA VoteIsRead ==
    ASSUME RouterInv, PublicInv, NEW r \in RequestId, NEW m, NEW key, NEW signer,
           NEW result \in EvaluationResult, SubmitEvaluation(r, m, key, signer, result)
    PROVE  /\ Readable(r)' /\ Frozen(r)' = Frozen(r)
           /\ \A q \in RequestId : q # r => Readable(q)'
<1> DEFINE count == CountOf(r, result) + 1
           counts == [d \in DOMAIN digestCounts[r] \cup {result} |->
                        IF d = result THEN count ELSE digestCounts[r][d]]
<1>1. /\ Status(r) = "Pending" /\ ValidResult(Frozen(r), result)
      /\ digestCounts' = [digestCounts EXCEPT ![r] = counts]
      /\ IF count < 2 \/ Approved(r) # NoEvaluation THEN requests' = requests ELSE DecideRequest(r, result)
  BY DEF SubmitEvaluation
<1>2. /\ Readable(r) /\ Approved(r) = NoEvaluation
      /\ \A d \in DOMAIN digestCounts[r] : digestCounts[r][d] = 1
  BY <1>1 DEF PublicInv, Readable, StatusIsDecision, CountsFit
<1>3. /\ requests \in [RequestId -> StoredRequest] /\ DOMAIN digestCounts = RequestId
      /\ Frozen(r) \in ActionRequest /\ Frozen(r).expiry \in Nat /\ now \in Nat
  BY <1>1 DEF RouterInv, RouterTypeOK, RegistryTypeOK, ActionRequest
<1>4. digestCounts'[r] = counts /\ \A q \in RequestId : q # r => digestCounts'[q] = digestCounts[q]
  <2> HIDE DEF counts
  <2> QED BY <1>1, <1>3
<1>5. count \in {1, 2} /\ (count = 1 => result \notin DOMAIN digestCounts[r])
  BY <1>2 DEF CountOf
<1>6. DecidedAs(Frozen(r), result)
  <2>1. result.issuedAt \in Nat
    BY DEF EvaluationResult
  <2> QED BY <1>1, <1>3, <2>1 DEF ValidResult, DecidedAs
<1>7. CASE requests' = requests /\ count = 1
  <2>1. Status(r)' = Status(r) /\ Frozen(r)' = Frozen(r) /\ Approved(r)' = Approved(r)
    BY <1>7 DEF Status, Frozen, Approved
  <2>2. \A d \in DOMAIN digestCounts'[r] : digestCounts'[r][d] = 1
    BY <1>2, <1>4, <1>7
  <2>3. Readable(r)'
    BY <1>2, <2>1, <2>2 DEF Readable, WellFormed, CountsFit, StatusIsDecision
  <2> QED BY <1>4, <1>7, <2>1, <2>3, UntouchedIsReadable DEF PublicInv
<1>8. CASE DecideRequest(r, result) /\ count = 2
  <2> DEFINE status == IF result.decision = "ALLOW" THEN "Allowed" ELSE "Denied"
             decided == [requests[r] EXCEPT !.status = status, !.approved = result]
  <2>1. requests' = [requests EXCEPT ![r] = decided]
    BY <1>8 DEF DecideRequest
  <2>2. decided.status = status /\ decided.request = Frozen(r) /\ decided.approved = result
    BY <1>3 DEF StoredRequest, Frozen
  <2>3. requests'[r] = decided /\ \A q \in RequestId : q # r => requests'[q] = requests[q]
    <3> HIDE DEF decided
    <3> QED BY <1>3, <2>1
  <2>4. Status(r)' = status /\ Frozen(r)' = Frozen(r) /\ Approved(r)' = result
    <3> HIDE DEF decided
    <3> QED BY <2>2, <2>3 DEF Status, Frozen, Approved
  <2> HIDE DEF decided
  <2>5. result.decision \in {"ALLOW", "DENY"} /\ result # NoEvaluation
    BY DEF EvaluationResult, NoEvaluation
  <2>6. result \in DOMAIN digestCounts'[r] /\ digestCounts'[r][result] = 2
    BY <1>4, <1>8
  <2>7. StatusIsDecision(r)'
    BY <1>6, <2>4, <2>5 DEF StatusIsDecision
  <2>8. WellFormed(r)' /\ CountsFit(r)'
    BY <1>1, <1>2, <2>4, <2>5, <2>6 DEF Readable, WellFormed, CountsFit, CountOf
  <2> QED BY <1>4, <2>3, <2>4, <2>7, <2>8, UntouchedIsReadable DEF PublicInv, Readable
<1> QED BY <1>1, <1>2, <1>5, <1>7, <1>8

LEMMA SubmitIsReadable ==
    ASSUME RouterInv, PublicInv, SubmitNext, NEW r \in RequestId
    PROVE  Readable(r)'
<1>1. PICK q \in RequestId :
        /\ Status(q) = "Pending"
        /\ \E c \in Credential, result \in CandidateResults(Frozen(q)) :
             SubmitEvaluation(q, c.machine, c.key, c.signer, result)
  BY DEF SubmitNext
<1>2. PICK c \in Credential, result \in CandidateResults(Frozen(q)) :
        SubmitEvaluation(q, c.machine, c.key, c.signer, result)
  BY <1>1
<1>3. result \in EvaluationResult
  BY <1>1, CandidateResultsTyped DEF RouterInv, RouterTypeOK
<1> QED BY <1>2, <1>3, VoteIsRead

\* A request that ends keeps what it says; a payment is made before expiry.
LEMMA EndIsReadable ==
    ASSUME RouterInv, PublicInv, ExecuteNext \/ ExpireNext \/ CancelNext, NEW r \in RequestId
    PROVE  /\ Readable(r)'
           /\ requests'[r] # requests[r] /\ Status(r)' = "Executed" => now' <= Frozen(r)'.expiry
<1>1. PICK q \in RequestId, status \in {"Executed", "Expired", "Cancelled"} :
        /\ Open(q) /\ SetRequestStatus(q, status)
        /\ status = "Executed" => Status(q) = "Allowed" /\ now <= Frozen(q).expiry
        /\ digestCounts' = digestCounts /\ now' = now
  BY DEF ExecuteNext, Execute, ExpireNext, Expire, CancelNext, Cancel, Abandon, Open, registryVars
<1> DEFINE ended == [requests[q] EXCEPT !.status = status]
<1>2. requests \in [RequestId -> StoredRequest] /\ requests' = [requests EXCEPT ![q] = ended]
  BY <1>1 DEF RouterInv, RouterTypeOK, SetRequestStatus
<1>3. ended.status = status /\ ended.request = Frozen(q) /\ ended.approved = Approved(q)
  BY <1>2 DEF StoredRequest, Frozen, Approved
<1> HIDE DEF ended
<1>4. CASE r = q
  <2>1. Status(r)' = status /\ Frozen(r)' = Frozen(r) /\ Approved(r)' = Approved(r)
    BY <1>2, <1>3, <1>4 DEF Status, Frozen, Approved
  <2>2. Readable(r) /\ Open(r) /\ (status = "Executed" => Status(r) = "Allowed")
    BY <1>1, <1>4 DEF PublicInv
  <2>3. Readable(r)'
    BY <1>1, <2>1, <2>2 DEF Readable, WellFormed, CountsFit, CountOf, StatusIsDecision, Open, NoEvaluation
  <2> QED BY <1>1, <1>4, <2>1, <2>3
<1>5. CASE r # q
  BY <1>1, <1>2, <1>5, UntouchedIsReadable DEF PublicInv
<1> QED BY <1>4, <1>5

LEMMA PublicInvInit == Init => PublicInv
<1> SUFFICES ASSUME Init PROVE PublicInv
  OBVIOUS
<1>1. BindingsReceipted
  BY DEF Init, RegistryInit, BindingsReceipted, Registered
<1>2. \A r \in RequestId : Status(r) = "None" /\ Approved(r) = NoEvaluation /\ DOMAIN digestCounts[r] = {}
  BY DEF Init, RouterInit, Status, Approved
<1> QED BY <1>1, <1>2 DEF PublicInv, Readable, WellFormed, CountsFit, StatusIsDecision

LEMMA PublicInvNext == RouterInv /\ PublicInv /\ [Next]_vars => PublicInv'
<1> SUFFICES ASSUME RouterInv, PublicInv, [Next]_vars PROVE PublicInv'
  OBVIOUS
<1>1. [RegistryNext]_registryVars
  <2>1. CASE RouterNext
    <3>1. CASE CreateNext
      BY <3>1 DEF CreateNext, CreateRequest
    <3>2. CASE SubmitNext
      BY <3>2 DEF SubmitNext, SubmitEvaluation
    <3>3. CASE ExecuteNext \/ ExpireNext \/ CancelNext
      BY <3>3 DEF ExecuteNext, Execute, ExpireNext, Expire, CancelNext, Cancel, Abandon
    <3> QED BY <2>1, <3>1, <3>2, <3>3 DEF RouterNext
  <2>2. CASE EnvironmentNext \/ UNCHANGED vars
    BY <2>2 DEF EnvironmentNext, vars
  <2> QED BY <2>1, <2>2 DEF Next
<1>2. BindingsReceipted'
  BY <1>1, ReceiptedStep DEF RouterInv, PublicInv
<1>3. ASSUME NEW r \in RequestId
      PROVE  Readable(r)'
  <2>1. CASE EnvironmentNext \/ UNCHANGED vars
    <3>1. requests' = requests /\ digestCounts' = digestCounts
      BY <2>1 DEF EnvironmentNext, vars, routerVars
    <3> QED BY <3>1, UntouchedIsReadable DEF PublicInv
  <2> QED BY <2>1, CreateIsReadable, SubmitIsReadable, EndIsReadable DEF Next, RouterNext
<1> QED BY <1>2, <1>3 DEF PublicInv

\* What the readers decode of a request: a payment is asked about at any
\* time up to its expiry.
FactsAt(r, time) ==
    LET s == parseStoredRequest(r) IN
    /\ decodePublicRequestSnapshot(s)
    /\ decodePublicPayeeReceipt(IF s.status = "EXECUTED" THEN SettledReceipt(s, time)
                                                         ELSE derivePayeeReadState(s))
    /\ s.decision # "PENDING" =>
         \E m, n \in VotersFor(r) : decodePublicAuditEvidence(EvidenceOf(r, {m, n}))

FactsStand ==
    \A r \in RequestId :
        IF Parses(r)
          THEN \A time \in Nat : (Status(r) = "Executed" => time <= Frozen(r).expiry) => FactsAt(r, time)
          ELSE Status(r) \in {"None", "Denied"}

\* How the reader sees a request of each status.
LEMMA ParsedIs ==
    ASSUME RouterInv, PublicInv, NEW r \in RequestId, Status(r) # "None"
    PROVE  LET s == parseStoredRequest(r)
               decided == Approved(r) # NoEvaluation
           IN
           /\ s.request = Frozen(r) /\ s.approved = approvalOf(r)
           /\ s.matchingCount = IF decided THEN 2 ELSE 0
           /\ s.decision = IF decided THEN Approved(r).decision ELSE "PENDING"
           /\ s.publicReasonClass = IF decided THEN {Approved(r).publicReasonClass} ELSE {}
           /\ s.status = REQUEST_STATUSES[Status(r)]
           /\ \/ Status(r) = "Pending" /\ s.status = "PENDING" /\ ~decided
              \/ Status(r) = "Allowed" /\ s.status = "ALLOWED" /\ decided /\ s.decision = "ALLOW"
              \/ Status(r) = "Denied" /\ s.status = "DENIED" /\ decided /\ s.decision = "DENY"
              \/ Status(r) = "Executed" /\ s.status = "EXECUTED" /\ decided /\ s.decision = "ALLOW"
              \/ Status(r) = "Expired" /\ s.status = "EXPIRED" /\ (decided => s.decision = "ALLOW")
              \/ Status(r) = "Cancelled" /\ s.status = "CANCELLED" /\ (decided => s.decision = "ALLOW")
<1>1. Readable(r)
  BY DEF PublicInv
<1>2. Status(r) \in RequestStatus \ {"None"}
  BY DEF RouterInv, RouterTypeOK, StoredRequest, Status
<1>3. /\ REQUEST_STATUSES["Pending"] = "PENDING" /\ REQUEST_STATUSES["Allowed"] = "ALLOWED"
      /\ REQUEST_STATUSES["Denied"] = "DENIED" /\ REQUEST_STATUSES["Executed"] = "EXECUTED"
      /\ REQUEST_STATUSES["Expired"] = "EXPIRED" /\ REQUEST_STATUSES["Cancelled"] = "CANCELLED"
  BY DEF REQUEST_STATUSES
<1>4. Approved(r) # NoEvaluation => Approved(r).decision \in {"ALLOW", "DENY"}
  BY <1>1 DEF Readable, StatusIsDecision, DecidedAs, EvaluationResult
<1>5. NoEvaluation.decision = "NONE"
  BY DEF NoEvaluation
<1>6. CASE Approved(r) = NoEvaluation
  BY <1>1, <1>2, <1>3, <1>5, <1>6 DEF parseStoredRequest, Readable, StatusIsDecision, RequestStatus
<1>7. CASE Approved(r) # NoEvaluation
  BY <1>1, <1>2, <1>3, <1>4, <1>7 DEF parseStoredRequest, Readable, StatusIsDecision, CountsFit, RequestStatus
<1> QED BY <1>6, <1>7

\* What approvalOf makes of a decision is what the readers ask of one.
LEMMA ApprovalFits ==
    ASSUME RouterInv, PublicInv, NEW r \in RequestId, Status(r) # "None", Approved(r) # NoEvaluation
    PROVE  LET s == parseStoredRequest(r) IN
           /\ s.approved.expiry = s.request.expiry /\ s.approved.issuedAt <= s.approved.expiry
           /\ s.decision = "ALLOW" =>
                /\ s.publicReasonClass = {0} /\ s.approved.amount = s.request.amount
                /\ s.approved.checkpoint # NoCheckpoint
           /\ s.decision = "DENY" =>
                /\ s.publicReasonClass \notin {{}, {0}} /\ s.approved.amount = 0
                /\ s.approved.checkpoint = s.request.spendCheckpoint
<1>1. DecidedAs(Frozen(r), Approved(r))
  BY DEF PublicInv, Readable, StatusIsDecision
<1>2. Frozen(r) \in ActionRequest
  BY DEF RouterInv, RouterTypeOK
<1>3. nextSpendCheckpoint(Frozen(r), Approved(r).issuedAt).history # <<>>
  <2> DEFINE c == Frozen(r).spendCheckpoint
             payment == [requestId |-> Frozen(r).requestId, accountedAt |-> Approved(r).issuedAt]
  <2>1. c \in [policy: Policy, history: Seq(Payment)] /\ payment \in Payment
    BY <1>1, <1>2 DEF ActionRequest, Checkpoint, Payment, DecidedAs, EvaluationResult
  <2>2. Append(c.history, payment) # <<>>
    BY <2>1
  <2>3. nextSpendCheckpoint(Frozen(r), Approved(r).issuedAt) = [c EXCEPT !.history = Append(c.history, payment)]
    BY DEF nextSpendCheckpoint
  <2> HIDE DEF c, payment
  <2> QED BY <2>1, <2>2, <2>3
<1>4. NoCheckpoint.history = <<>>
  BY DEF NoCheckpoint
<1> DEFINE s == parseStoredRequest(r)
<1>5. /\ s.request = Frozen(r) /\ s.decision = Approved(r).decision
      /\ s.publicReasonClass = {Approved(r).publicReasonClass}
      /\ s.approved = [amount |-> Approved(r).reservedAmount, checkpoint |-> Approved(r).resultingCheckpoint,
                       issuedAt |-> Approved(r).issuedAt, expiry |-> Frozen(r).expiry]
  BY DEF parseStoredRequest, approvalOf
<1> HIDE DEF s
<1>6. s.decision = "ALLOW" => s.approved.checkpoint # NoCheckpoint
  BY <1>1, <1>3, <1>4, <1>5 DEF DecidedAs
<1>7. {Approved(r).publicReasonClass} # {} /\ ({Approved(r).publicReasonClass} = {0} => Approved(r).publicReasonClass = 0)
  OBVIOUS
<1>8. /\ s.approved.expiry = s.request.expiry /\ s.approved.issuedAt <= s.approved.expiry
      /\ s.decision = "ALLOW" => s.publicReasonClass = {0} /\ s.approved.amount = s.request.amount
      /\ s.decision = "DENY" =>
                /\ s.publicReasonClass \notin {{}, {0}} /\ s.approved.amount = 0
                /\ s.approved.checkpoint = s.request.spendCheckpoint
  BY <1>1, <1>5, <1>7 DEF DecidedAs
<1> QED BY <1>6, <1>8 DEF s

\* A request's snapshot decodes.
LEMMA SnapshotDecodes ==
    ASSUME RouterInv, PublicInv, NEW r \in RequestId, Status(r) # "None"
    PROVE  decodePublicRequestSnapshot(parseStoredRequest(r))
<1> DEFINE s == parseStoredRequest(r)
           decided == Approved(r) # NoEvaluation
<1>1. /\ s.request = Frozen(r) /\ s.approved = approvalOf(r)
      /\ s.matchingCount = IF decided THEN 2 ELSE 0
      /\ s.decision = IF decided THEN Approved(r).decision ELSE "PENDING"
      /\ s.publicReasonClass = IF decided THEN {Approved(r).publicReasonClass} ELSE {}
      /\ \/ s.status = "PENDING" /\ ~decided
         \/ s.status \in {"ALLOWED", "EXECUTED"} /\ decided /\ s.decision = "ALLOW"
         \/ s.status = "DENIED" /\ decided /\ s.decision = "DENY"
         \/ s.status \in {"EXPIRED", "CANCELLED"} /\ (decided => s.decision = "ALLOW")
  BY ParsedIs
<1>2. WellFormed(r)
  BY DEF PublicInv, Readable
<1>3. StatusFitsDecision(s)
  <2> HIDE DEF s
  <2> QED BY <1>1 DEF StatusFitsDecision
<1>4. CASE ~decided
  <2>1. s.decision = "PENDING" /\ s.matchingCount <= 1 /\ s.publicReasonClass = {} /\ s.approved = NoApproval
    <3>1. approvalOf(r) = NoApproval
      BY <1>4 DEF approvalOf
    <3> HIDE DEF s
    <3> QED BY <1>1, <1>4, <3>1
  <2> HIDE DEF s
  <2>2. validateStatusAndDecision(s)
    BY <1>3, <2>1 DEF validateStatusAndDecision
  <2>3. decodePublicRequestSnapshot(s)
    BY <1>1, <1>2, <2>1, <2>2 DEF decodePublicRequestSnapshot, WellFormed
  <2> QED BY <2>3 DEF s
<1>5. CASE decided
  <2>1. /\ s.approved.expiry = s.request.expiry /\ s.approved.issuedAt <= s.approved.expiry
        /\ s.decision = "ALLOW" =>
             /\ s.publicReasonClass = {0} /\ s.approved.amount = s.request.amount
             /\ s.approved.checkpoint # NoCheckpoint
        /\ s.decision = "DENY" =>
             /\ s.publicReasonClass \notin {{}, {0}} /\ s.approved.amount = 0
             /\ s.approved.checkpoint = s.request.spendCheckpoint
    BY <1>5, ApprovalFits
  <2>2. s.decision \in {"ALLOW", "DENY"} /\ s.matchingCount = 2
    <3> HIDE DEF s
    <3> QED BY <1>1, <1>5
  <2> HIDE DEF s
  <2>3. validateStatusAndDecision(s)
    <3>1. CASE s.decision = "ALLOW"
      BY <1>3, <2>1, <2>2, <3>1 DEF validateStatusAndDecision
    <3>2. CASE s.decision = "DENY"
      BY <1>3, <2>1, <2>2, <3>2 DEF validateStatusAndDecision
    <3> QED BY <2>2, <3>1, <3>2
  <2>4. decodePublicRequestSnapshot(s)
    BY <1>1, <1>2, <2>2, <2>3 DEF decodePublicRequestSnapshot, WellFormed
  <2> QED BY <2>4 DEF s
<1> QED BY <1>4, <1>5

\* Two machines that signed a decision, and the account it is about, make
\* evidence.
LEMMA EvidenceDecodes ==
    ASSUME RouterInv, PublicInv, NEW r \in RequestId, Status(r) # "None", Approved(r) # NoEvaluation
    PROVE  \E m, n \in VotersFor(r) : decodePublicAuditEvidence(EvidenceOf(r, {m, n}))
<1> DEFINE binding == policies[PolicyOf(r)].binding
           s == parseStoredRequest(r)
<1>1. PICK m \in FrozenMachines(r), n \in FrozenMachines(r) :
        m # n /\ <<m, Approved(r)>> \in evaluationAccepted[r] /\ <<n, Approved(r)>> \in evaluationAccepted[r]
  BY DEF RouterInv, RequestInv, AgreedByTwo
<1>2. /\ Frozen(r) \in ActionRequest /\ PolicyOf(r) \in Policy /\ Frozen(r).asset \in Asset
      /\ Registered(PolicyOf(r)) /\ Receipted(PolicyOf(r))
  BY DEF RouterInv, RouterTypeOK, RequestInv, UnderPolicy, PublicInv, BindingsReceipted, ActionRequest, PolicyOf
<1>3. binding \in Binding /\ binding \in BindingType
  BY <1>2, RegistryAssumption DEF RouterInv, RegistryTypeOK
<1>4. m \in VotersFor(r) /\ n \in VotersFor(r)
  BY <1>1, <1>3 DEF VotersFor, FrozenMachines, BindingType
<1>5. /\ binding.owner # ZeroAddress /\ Distinct(binding.machines) /\ Distinct(binding.keys)
      /\ binding.commitment = PolicyOf(r)
  BY <1>2 DEF Receipted
<1>6. binding.owner \in Owner
  BY <1>3, <1>5, RouterAssumption
<1>7. decodeConservation(accounts[binding.owner][Frozen(r).asset])
  <2>1. Conserves(accounts[binding.owner][Frozen(r).asset])
    <3> HIDE DEF binding
    <3> QED BY <1>2, <1>6 DEF RouterInv, VaultInv, Conservation
  <2> QED BY <2>1 DEF decodeConservation, Conserves
<1>8. Cardinality({m, n}) = 2
  <2>1. {m, n} = {m} \cup {n} /\ n \notin {m}
    BY <1>1
  <2>2. IsFiniteSet({m}) /\ Cardinality({m}) = 1
    BY FS_Singleton
  <2> QED BY <2>1, <2>2, FS_AddElement
<1>9. {m, n} \subseteq {binding.machines[i] : i \in Slot}
  BY <1>1 DEF FrozenMachines
<1>10. decodePublicRequestSnapshot(s)
  BY SnapshotDecodes
<1>11. /\ s.request = Frozen(r) /\ s.decision # "PENDING"
       /\ s.status \in {"ALLOWED", "DENIED", "EXECUTED", "EXPIRED", "CANCELLED"}
  BY ParsedIs
<1> DEFINE e == EvidenceOf(r, {m, n})
<1>12. /\ e.policy = binding /\ e.request = s /\ e.signers = {m, n}
       /\ e.executionStatus = IF s.status = "ALLOWED" THEN "NOT_EXECUTED" ELSE s.status
       /\ e.transaction = IF s.status = "EXECUTED" THEN {r} ELSE {}
       /\ e.conservation = accounts[binding.owner][Frozen(r).asset]
  BY DEF EvidenceOf
<1> HIDE DEF e, s, binding
<1>13. validateExecutionStatus(s, e.executionStatus, e.transaction)
  <2>1. {r} # {}
    OBVIOUS
  <2> QED BY <1>11, <1>12, <2>1 DEF validateExecutionStatus
<1>14. decodePolicyEvidence(binding)
  BY <1>5 DEF decodePolicyEvidence
<1>15. e.policy.commitment = e.request.request.policyCommitment
  BY <1>5, <1>11, <1>12 DEF PolicyOf
<1>16. decodePublicAuditEvidence(e)
  BY <1>7, <1>8, <1>9, <1>10, <1>11, <1>12, <1>13, <1>14, <1>15 DEF decodePublicAuditEvidence
<1> QED BY <1>4, <1>16 DEF e

LEMMA ReceiptDecodes ==
    ASSUME RouterInv, PublicInv, NEW r \in RequestId, Status(r) # "None", NEW time \in Nat,
           Status(r) = "Executed" => time <= Frozen(r).expiry
    PROVE  LET s == parseStoredRequest(r) IN
           decodePublicPayeeReceipt(IF s.status = "EXECUTED" THEN SettledReceipt(s, time)
                                                            ELSE derivePayeeReadState(s))
<1> DEFINE s == parseStoredRequest(r)
<1>1. decodePublicRequestSnapshot(s)
  BY SnapshotDecodes
<1>2. /\ s.request = Frozen(r)
      /\ s.status \in {"PENDING", "ALLOWED", "DENIED", "EXECUTED", "EXPIRED", "CANCELLED"}
      /\ s.status = "EXECUTED" => time <= s.request.expiry
  BY ParsedIs
<1> HIDE DEF s
<1>3. CASE s.status = "EXECUTED"
  <2> DEFINE receipt == SettledReceipt(s, time)
  <2>1. /\ receipt.status = "SETTLED" /\ receipt.request = s
        /\ receipt.settlement.transaction = {s.request.requestId}
        /\ receipt.settlement.checkpoint = s.approved.checkpoint
        /\ receipt.settlement.at = {time}
    BY DEF SettledReceipt
  <2>2. requestStatus(s) = "SETTLED"
    BY <1>3 DEF requestStatus
  <2> HIDE DEF receipt
  <2>3. /\ receipt.settlement.transaction # {} /\ receipt.settlement.at # {}
        /\ \A at \in receipt.settlement.at : at <= s.request.expiry
    BY <1>2, <1>3, <2>1
  <2>4. decodePublicPayeeReceipt(receipt)
    BY <1>1, <2>1, <2>2, <2>3 DEF decodePublicPayeeReceipt
  <2> QED BY <1>3, <2>4 DEF receipt, s
<1>4. CASE s.status # "EXECUTED"
  <2> DEFINE receipt == derivePayeeReadState(s)
  <2>1. /\ receipt.request = s /\ receipt.settlement = NoSettlement
        /\ receipt.status = requestStatus(s) /\ receipt.status # "SETTLED"
    BY <1>2, <1>4 DEF derivePayeeReadState, requestStatus
  <2> HIDE DEF receipt
  <2>2. decodePublicPayeeReceipt(receipt)
    BY <1>1, <2>1 DEF decodePublicPayeeReceipt
  <2> QED BY <1>4, <2>2 DEF receipt, s
<1> QED BY <1>3, <1>4

LEMMA PublicInvImplies == RouterInv /\ PublicInv => FactsStand
<1> SUFFICES ASSUME RouterInv, PublicInv, NEW r \in RequestId
             PROVE  IF Parses(r)
                      THEN \A time \in Nat :
                             (Status(r) = "Executed" => time <= Frozen(r).expiry) => FactsAt(r, time)
                      ELSE Status(r) \in {"None", "Denied"}
  BY DEF FactsStand
<1>1. CASE Parses(r)
  <2>1. Status(r) # "None"
    BY <1>1 DEF Parses
  <2>2. Approved(r) = NoEvaluation => parseStoredRequest(r).decision = "PENDING"
    BY <2>1, ParsedIs
  <2> QED BY <1>1, <2>1, <2>2, SnapshotDecodes, ReceiptDecodes, EvidenceDecodes DEF FactsAt
<1>2. CASE ~Parses(r) /\ Status(r) # "None"
  <2> DEFINE s == parseStoredRequest(r)
  <2>1. ~(s.publicReasonClass \subseteq KnownReason)
    BY <1>2 DEF Parses
  <2>2. Approved(r) # NoEvaluation /\ s.publicReasonClass = {Approved(r).publicReasonClass}
    <3>1. s.publicReasonClass = IF Approved(r) # NoEvaluation THEN {Approved(r).publicReasonClass} ELSE {}
      BY <1>2, ParsedIs
    <3> HIDE DEF s
    <3> QED BY <2>1, <3>1
  <2>3. Approved(r).publicReasonClass # 0
    <3> HIDE DEF s
    <3> QED BY <2>1, <2>2, ReasonAssumption
  <2>4. DecidedAs(Frozen(r), Approved(r)) /\ StatusIsDecision(r)
    BY <2>2 DEF PublicInv, Readable, StatusIsDecision
  <2>5. Approved(r).decision = "DENY"
    BY <2>3, <2>4 DEF DecidedAs, EvaluationResult
  <2>6. Status(r) \in RequestStatus
    BY DEF RouterInv, RouterTypeOK, StoredRequest, Status
  <2> QED BY <1>2, <2>2, <2>4, <2>5, <2>6 DEF StatusIsDecision, RequestStatus
<1> QED BY <1>1, <1>2

LEMMA PublicInvariance == Spec => [](RouterInv /\ PublicInv /\ FactsStand)
<1>1. Init => RouterInv /\ PublicInv
  BY RouterInitInv, PublicInvInit
<1>2. (RouterInv /\ PublicInv) /\ [Next]_vars => (RouterInv /\ PublicInv)'
  BY RouterNextInv, PublicInvNext
<1> QED BY <1>1, <1>2, PublicInvImplies, PTL DEF Spec

\* A payment that is made is made before its request expires, and whatever
\* ends keeps what was asked.
LEMMA EndsAsRead ==
    ASSUME RouterInv, PublicInv, [Next]_vars, NEW r \in RequestId, requests'[r] # requests[r]
    PROVE  /\ Status(r)' # "None"
           /\ Status(r)' = "Executed" => now' <= Frozen(r)'.expiry
           /\ Status(r)' \in {"Executed", "Expired", "Cancelled"} => Frozen(r)' = Frozen(r)
<1>1. CASE CreateNext
  <2>1. PICK request \in ActionRequest, sender \in Address : CreateRequest(request, sender)
    BY <1>1, CreatedIsRequest
  <2>2. request.requestId = r
    BY <2>1, CreatedRequest
  <2> QED BY <2>1, <2>2, CreatedRequest
<1>2. CASE SubmitNext
  <2>1. requests'[r] = requests[r] \/ DecidedMove(r)
    BY <1>2, SubmitMoves
  <2> QED BY <2>1 DEF DecidedMove
<1>3. CASE ExecuteNext \/ ExpireNext \/ CancelNext
  <2>1. Status(r) # "None" /\ Status(r)' # "None"
    BY <1>3, EndingOpensNothing
  <2>2. Frozen(r)' = Frozen(r)
    BY <2>1, RouterStepKeepsRequests DEF RequestsAreFinal
  <2>3. Status(r)' = "Executed" => now' <= Frozen(r)'.expiry
    BY <1>3, EndIsReadable
  <2> QED BY <2>1, <2>2, <2>3
<1>4. CASE EnvironmentNext \/ UNCHANGED vars
  BY <1>4 DEF EnvironmentNext, vars, routerVars
<1> QED BY <1>1, <1>2, <1>3, <1>4 DEF Next, RouterNext

\* Whatever the contracts make of a request parses and decodes, with a receipt
\* and evidence, unless it was denied for a reason no client has a name for;
\* and what the page verifies after its own transaction holds
\* (requests.ts, payee.ts, evidence.ts; apps/web/src/coston2.ts).
THEOREM FactsAlwaysDecode == Spec => PublicFactsDecode
<1>1. /\ RouterInv /\ PublicInv /\ FactsStand
      /\ (RouterInv /\ PublicInv /\ FactsStand)' /\ [Next]_vars
      => [\A r \in RequestId : requests'[r] # requests[r] =>
            /\ IF Parses(r)' THEN FactsDecode(r)' ELSE Status(r)' = "Denied"
            /\ Status(r)' \in DOMAIN Ending =>
                 verifyRequestPostcondition(Ending[Status(r)'], parseStoredRequest(r),
                                            parseStoredRequest(r)')]_vars
  <2> SUFFICES ASSUME RouterInv, PublicInv, RouterInv', PublicInv', FactsStand', [Next]_vars,
                      NEW r \in RequestId, requests'[r] # requests[r]
               PROVE  /\ IF Parses(r)' THEN FactsDecode(r)' ELSE Status(r)' = "Denied"
                      /\ Status(r)' \in DOMAIN Ending =>
                           verifyRequestPostcondition(Ending[Status(r)'], parseStoredRequest(r),
                                                      parseStoredRequest(r)')
    OBVIOUS
  <2>1. /\ Status(r)' # "None" /\ (Status(r)' = "Executed" => now' <= Frozen(r)'.expiry)
        /\ Status(r)' \in {"Executed", "Expired", "Cancelled"} => Frozen(r)' = Frozen(r)
    BY EndsAsRead
  <2>2. now' \in Nat
    BY RegistryAssumption DEF RouterInv, RegistryTypeOK
  <2>3. IF Parses(r)' THEN FactsAt(r, now)' ELSE Status(r)' = "Denied"
    BY <2>1, <2>2 DEF FactsStand
  <2>4. FactsAt(r, now)' => FactsDecode(r)'
    BY DEF FactsAt, FactsDecode
  <2>5. ASSUME Status(r)' \in DOMAIN Ending
        PROVE  verifyRequestPostcondition(Ending[Status(r)'], parseStoredRequest(r), parseStoredRequest(r)')
    <3>1. DOMAIN Ending = {"Executed", "Expired", "Cancelled"}
      BY DEF Ending
    <3>2. parseStoredRequest(r)'.request = parseStoredRequest(r).request
      BY <2>1, <2>5, <3>1 DEF parseStoredRequest
    <3>3. parseStoredRequest(r)'.status = REQUEST_STATUSES[Status(r)']
      BY DEF parseStoredRequest
    <3>4. /\ REQUEST_STATUSES["Executed"] = "EXECUTED" /\ REQUEST_STATUSES["Expired"] = "EXPIRED"
          /\ REQUEST_STATUSES["Cancelled"] = "CANCELLED"
          /\ Ending["Executed"] = "EXECUTE" /\ Ending["Expired"] = "EXPIRE" /\ Ending["Cancelled"] = "CANCEL"
      BY DEF REQUEST_STATUSES, Ending
    <3> QED BY <2>5, <3>1, <3>2, <3>3, <3>4 DEF verifyRequestPostcondition
  <2> QED BY <2>3, <2>4, <2>5
<1> QED BY <1>1, PublicInvariance, PTL DEF Spec, PublicFactsDecode
=============================================================================
