------------------------ MODULE PayGuardActionRouter ------------------------
(***************************************************************************)
(* The action router, packages/contracts/src/PayGuardActionRouter.sol,      *)
(* composed with the vault and the policy registry it calls: a request is   *)
(* created against the policy's current spend checkpoint, two machines must *)
(* sign the same evaluation of it, an allowed one holds a reservation in    *)
(* the vault, and it ends executed, denied, expired or cancelled.           *)
(*                                                                         *)
(* A transaction is atomic: a router call and the vault call inside it are  *)
(* one step, and a vault call that reverts reverts the router's with it.    *)
(***************************************************************************)
EXTENDS PayGuardVault, PayGuardPolicyRegistryV2

CONSTANTS
    RouterAddress,  \* address(this) of the router
    MaxOccurrence,  \* type(uint32).max
    RequestInput,   \* what callers ask for: a request without its place in the chain
    Reason,         \* public reason classes machines give; 0 is "none"
    IssuedAt,       \* the times machines put on their evaluations
    Credential      \* what submitters present: machine, fingerprint, actual signer

RequestInputType ==
    [policyCommitment: Policy, requestId: RequestId, requestNonce: Nat,
     requester: Address, target: Address, asset: Asset, amount: Nat,
     createdAt: Nat, expiry: Nat]

ASSUME RouterAssumption ==
    /\ RouterAddress \in Address
    /\ MaxOccurrence \in Nat
    /\ RequestInput \subseteq RequestInputType
    /\ Reason \subseteq Nat
    /\ IssuedAt \subseteq Nat
    /\ Credential \subseteq [machine: Machine, key: Key, signer: Machine]
    /\ \A b \in Binding : b.owner \in Owner \cup {ZeroAddress}

VARIABLES
    requests,           \* requests[requestId]: the StoredRequest
    machineSubmitted,   \* machineSubmitted[requestId]: machines that voted
    digestCounts,       \* digestCounts[requestId][digest], on the digests seen
    nonceUsed,          \* nonceUsed[policyCommitment]: the nonces spent
    spendState,         \* spendState[policyCommitment]: the SpendState
    evaluationAccepted  \* the EvaluationAccepted events, per request

routerVars == <<requests, machineSubmitted, digestCounts, nonceUsed, spendState,
                evaluationAccepted>>
vars == <<vaultVars, registryVars, routerVars>>

RequestStatus ==
    {"None", "Pending", "Allowed", "Denied", "Executed", "Expired", "Cancelled"}

NoRequest == [requestId |-> ZeroAddress]
NoEvaluation == [decision |-> "NONE"]

StoredRequest ==
    [status: RequestStatus, request: ActionRequest \cup {NoRequest},
     approved: EvaluationResult \cup {NoEvaluation}]

NoCheckpoint == [policy |-> ZeroAddress, history |-> <<>>]

SpendState ==
    [checkpoint: Checkpoint \cup {NoCheckpoint}, occurrence: Nat,
     accountedAt: Nat, initialized: BOOLEAN]

Status(r) == requests[r].status
Frozen(r) == requests[r].request
Approved(r) == requests[r].approved
PolicyOf(r) == Frozen(r).policyCommitment

RouterTypeOK ==
    /\ requests \in [RequestId -> StoredRequest]
    /\ \A r \in RequestId : Status(r) # "None" =>
         Frozen(r) \in ActionRequest /\ Frozen(r).requestId = r
    /\ \A r \in RequestId :
         Status(r) \in {"Allowed", "Denied", "Executed"} => Approved(r) \in EvaluationResult
    /\ machineSubmitted \in [RequestId -> SUBSET Machine]
    /\ \A r \in RequestId : \A d \in DOMAIN digestCounts[r] :
         d \in EvaluationResult /\ digestCounts[r][d] \in Nat
    /\ nonceUsed \in [Policy -> SUBSET Nat]
    /\ spendState \in [Policy -> SpendState]
    /\ \A p \in Policy : spendState[p].initialized => spendState[p].checkpoint \in Checkpoint
    /\ evaluationAccepted \in [RequestId -> SUBSET (Machine \X EvaluationResult)]

TypeOK == VaultTypeOK /\ RegistryTypeOK /\ RouterTypeOK

RouterInit ==
    /\ requests = [r \in RequestId |->
         [status |-> "None", request |-> NoRequest, approved |-> NoEvaluation]]
    /\ machineSubmitted = [r \in RequestId |-> {}]
    /\ digestCounts = [r \in RequestId |-> <<>>]
    /\ nonceUsed = [p \in Policy |-> {}]
    /\ spendState = [p \in Policy |->
         [checkpoint |-> NoCheckpoint, occurrence |-> 0,
          accountedAt |-> 0, initialized |-> FALSE]]
    /\ evaluationAccepted = [r \in RequestId |-> {}]

\* The three contracts as the deployment scripts leave them: assets enabled,
\* the vault wired to this router, no policy registered yet.
Init == FreshVault(Asset, RouterAddress) /\ RegistryInit /\ RouterInit

-----------------------------------------------------------------------------
(* createRequest                                                            *)

\* (A mutant: the occurrence is compared, the checkpoint is not.)
ContinuesChain_OccurrenceOnly(request) ==
    request.occurrence = spendState[request.policyCommitment].occurrence + 1

\* The request continues the policy's chain of payments: it names the chain's
\* end and the next occurrence.  createRequest and execute both require it.
ContinuesChain(request) ==
    LET prior == spendState[request.policyCommitment] IN
    IF prior.initialized
      THEN /\ prior.occurrence # MaxOccurrence
           /\ request.spendCheckpoint = prior.checkpoint
           /\ request.occurrence = prior.occurrence + 1
      ELSE /\ request.occurrence = 1
           /\ request.spendCheckpoint = genesisSpendCheckpoint(request.policyCommitment)

FreshNonce(p, nonce) == nonce \notin nonceUsed[p]

CreateRequest(request, sender) ==
    LET p == request.policyCommitment
        r == request.requestId
    IN
    /\ request.requester = sender
    /\ request.requestNonce # 0 /\ request.amount # 0 /\ request.occurrence # 0
    /\ request.createdAt <= now
    /\ request.createdAt <= request.expiry /\ now <= request.expiry
    /\ effectiveStatus(p) = "Active"
    /\ Status(r) = "None"
    /\ FreshNonce(p, request.requestNonce)
    /\ ContinuesChain(request)
    /\ nonceUsed' = [nonceUsed EXCEPT ![p] = @ \cup {request.requestNonce}]
    /\ requests' = [requests EXCEPT ![r] =
         [status |-> "Pending", request |-> request, approved |-> NoEvaluation]]
    /\ UNCHANGED <<machineSubmitted, digestCounts, spendState, evaluationAccepted>>
    /\ UNCHANGED <<vaultVars, registryVars>>

-----------------------------------------------------------------------------
(* submitEvaluation                                                         *)

\* An allowed payment may not be accounted before the chain's last one.
NotBeforeChain(request, result) ==
    LET current == spendState[request.policyCommitment] IN
    ~(/\ current.initialized
      /\ request.spendCheckpoint = current.checkpoint
      /\ result.issuedAt < current.accountedAt)

\* The result speaks of this request, now, and its consequences are the ones
\* the router derives itself from the request and the result's time.
ValidResult(request, result) ==
    /\ result.issuedAt <= now /\ now <= request.expiry
    /\ result.decision = "ALLOW" =>
         /\ result.publicReasonClass = 0
         /\ result.reservedAmount = request.amount
         /\ NotBeforeChain(request, result)
         /\ result.resultingCheckpoint = nextSpendCheckpoint(request, result.issuedAt)
    /\ result.decision = "DENY" =>
         /\ result.reservedAmount = 0
         /\ result.publicReasonClass # 0
         /\ result.resultingCheckpoint = request.spendCheckpoint

\* (A mutant: votes are counted whatever they say.)
CountOf_AnyDigest(r, digest) == Cardinality(machineSubmitted[r])

CountOf(r, digest) ==
    IF digest \in DOMAIN digestCounts[r] THEN digestCounts[r][digest] ELSE 0

\* The second machine to sign the same digest decides the request.
DecideRequest(r, result) ==
    /\ requests' = [requests EXCEPT
         ![r] = [@ EXCEPT !.status = IF result.decision = "ALLOW" THEN "Allowed" ELSE "Denied",
                          !.approved = result]]
    /\ IF result.decision = "ALLOW"
         THEN Reserve(RouterAddress, policies[PolicyOf(r)].binding.owner,
                      Frozen(r).asset, r, Frozen(r).amount)
         ELSE UNCHANGED vaultVars

FirstVote(r, machine) == machine \notin machineSubmitted[r]

SubmitEvaluation(r, machine, key, signer, result) ==
    LET count == CountOf(r, result) + 1 IN
    /\ Status(r) = "Pending"
    /\ ValidResult(Frozen(r), result)
    /\ effectiveStatus(PolicyOf(r)) = "Active"
    /\ FirstVote(r, machine)
    /\ isFrozenSigner(PolicyOf(r), machine, key, signer)
    /\ machineSubmitted' = [machineSubmitted EXCEPT ![r] = @ \cup {machine}]
    /\ digestCounts' = [digestCounts EXCEPT ![r] =
         [d \in DOMAIN @ \cup {result} |-> IF d = result THEN count ELSE @[d]]]
    /\ evaluationAccepted' = [evaluationAccepted EXCEPT ![r] = @ \cup {<<machine, result>>}]
    /\ IF count < 2 \/ Approved(r) # NoEvaluation
         THEN UNCHANGED <<requests, vaultVars>>
         ELSE DecideRequest(r, result)
    /\ UNCHANGED <<nonceUsed, spendState, registryVars>>

-----------------------------------------------------------------------------
(* execute, expire, cancel                                                  *)

SetRequestStatus(r, status) == requests' = [requests EXCEPT ![r].status = status]

\* (A mutant: the checkpoint stays where it was.)
AdvancedState_SameCheckpoint(r) ==
    [checkpoint |-> Frozen(r).spendCheckpoint, occurrence |-> Frozen(r).occurrence,
     accountedAt |-> Approved(r).issuedAt, initialized |-> TRUE]

AdvancedState(r) ==
    [checkpoint |-> Approved(r).resultingCheckpoint, occurrence |-> Frozen(r).occurrence,
     accountedAt |-> Approved(r).issuedAt, initialized |-> TRUE]

\* Permissionless, and independent of the policy's status: an allowed request
\* settles even when its policy has been stopped, revoked or paused since.
Execute(r) ==
    LET p == PolicyOf(r)
        state == spendState[p]
    IN
    /\ Status(r) = "Allowed" /\ Approved(r) # NoEvaluation
    /\ now <= Frozen(r).expiry
    /\ ContinuesChain(Frozen(r))
    /\ state.initialized => Approved(r).issuedAt >= state.accountedAt
    /\ SetRequestStatus(r, "Executed")
    /\ spendState' = [spendState EXCEPT ![p] = AdvancedState(r)]
    /\ ExecuteReserved(RouterAddress, r, Frozen(r).target)
    /\ UNCHANGED <<machineSubmitted, digestCounts, nonceUsed, evaluationAccepted, registryVars>>

\* (A mutant: only a pending request can be abandoned.)
Open_PendingOnly(r) == Status(r) = "Pending"

Open(r) == Status(r) \in {"Pending", "Allowed"}

\* (A mutant: the reservation is left behind.)
ReleaseIfAllowed_Never(r) == UNCHANGED vaultVars

\* Only an allowed request has a reservation.
ReleaseIfAllowed(r) ==
    IF Status(r) = "Allowed" THEN Release(RouterAddress, r) ELSE UNCHANGED vaultVars

\* What expire and cancel share.
Abandon(r, status) ==
    /\ SetRequestStatus(r, status)
    /\ ReleaseIfAllowed(r)
    /\ UNCHANGED <<machineSubmitted, digestCounts, nonceUsed, spendState,
                   evaluationAccepted, registryVars>>

Expire(r) == Open(r) /\ now > Frozen(r).expiry /\ Abandon(r, "Expired")

Cancel(r, sender) ==
    /\ Open(r)
    /\ sender \in {policies[PolicyOf(r)].binding.owner, Frozen(r).requester}
    /\ Abandon(r, "Cancelled")

-----------------------------------------------------------------------------
(* What callers may try.                                                    *)

\* Checkpoints a caller can know: the genesis, the present end of the chain,
\* and the outcome of every evaluation approved so far.
KnownCheckpoints(p) ==
    {genesisSpendCheckpoint(p)}
        \cup (IF spendState[p].initialized THEN {spendState[p].checkpoint} ELSE {})
        \cup {Approved(r).resultingCheckpoint :
                r \in {q \in RequestId : Approved(q) # NoEvaluation /\ PolicyOf(q) = p}}

PlacedRequest(input, checkpoint, occurrence) ==
    [policyCommitment |-> input.policyCommitment, requestId |-> input.requestId,
     requestNonce |-> input.requestNonce, requester |-> input.requester,
     target |-> input.target, asset |-> input.asset, amount |-> input.amount,
     occurrence |-> occurrence, spendCheckpoint |-> checkpoint,
     createdAt |-> input.createdAt, expiry |-> input.expiry]

CreateNext ==
    \E input \in RequestInput, occurrence \in 1..MaxOccurrence :
    \E checkpoint \in KnownCheckpoints(input.policyCommitment), sender \in Address :
        CreateRequest(PlacedRequest(input, checkpoint, occurrence), sender)

\* Results a machine may sign about a request, consistent or not.
CandidateResults(request) ==
    [decision: {"ALLOW", "DENY"}, publicReasonClass: Reason,
     reservedAmount: {0, request.amount},
     resultingCheckpoint:
        {request.spendCheckpoint} \cup {nextSpendCheckpoint(request, t) : t \in IssuedAt},
     issuedAt: IssuedAt]

SubmitNext ==
    \E r \in RequestId : Status(r) = "Pending" /\
        \E c \in Credential, result \in CandidateResults(Frozen(r)) :
            SubmitEvaluation(r, c.machine, c.key, c.signer, result)

ExecuteNext == \E r \in RequestId : Execute(r)

ExpireNext == \E r \in RequestId : Expire(r)

CancelNext == \E r \in RequestId, sender \in Address : Cancel(r, sender)

RouterNext == CreateNext \/ SubmitNext \/ ExecuteNext \/ ExpireNext \/ CancelNext

\* The other contracts' own operations leave the router alone.
EnvironmentNext ==
    \/ OwnerNext /\ UNCHANGED <<registryVars, routerVars>>
    \/ RegistryNext /\ UNCHANGED <<vaultVars, routerVars>>

Next == RouterNext \/ EnvironmentNext

Spec == Init /\ [][Next]_vars

\* The chain's clock and the permissionless expire call keep going: anyone may
\* call expire, and whoever wants the reservation back has a reason to.
Fairness == WF_vars(Tick /\ UNCHANGED <<vaultVars, routerVars>>)
            /\ \A r \in RequestId : WF_vars(Expire(r))

FairSpec == Spec /\ Fairness

-----------------------------------------------------------------------------
(* Properties.                                                              *)

Executed(p) == {r \in RequestId : Status(r) = "Executed" /\ PolicyOf(r) = p}

OwnerOf(r) == policies[PolicyOf(r)].binding.owner

\* The router's status and the vault's reservation never disagree: money is
\* held exactly for the allowed requests, for the request's own asset and
\* amount, out of the account of the owner its policy froze.
ReservationIffAllowed ==
    \A r \in RequestId :
        /\ reservations[r].active <=> Status(r) = "Allowed"
        /\ Status(r) = "Allowed" =>
             /\ reservations[r].owner = OwnerOf(r)
             /\ reservations[r].asset = Frozen(r).asset
             /\ reservations[r].amount = Frozen(r).amount

\* No decision without two machines: whatever was approved was signed, as the
\* very same evaluation, by two different machines of the policy's binding.
TwoMachinesAgreed ==
    \A r \in RequestId : Approved(r) # NoEvaluation =>
        \E m, n \in {policies[PolicyOf(r)].binding.machines[i] : i \in Slot} :
            /\ m # n
            /\ <<m, Approved(r)>> \in evaluationAccepted[r]
            /\ <<n, Approved(r)>> \in evaluationAccepted[r]

\* The spend checkpoint is the account of what was executed: it lists each
\* executed request of the policy exactly once, in occurrence order, with
\* accounting times that never go back.  Two requests evaluated from the same
\* snapshot therefore never both execute.
ChainIsExecutions ==
    \A p \in Policy :
        LET h == spendState[p].checkpoint.history IN
        /\ Len(h) = spendState[p].occurrence
        /\ Executed(p) = {h[i].requestId : i \in DOMAIN h}
        /\ \A i \in DOMAIN h : /\ Frozen(h[i].requestId).occurrence = i
                               /\ h[i].accountedAt <= spendState[p].accountedAt
        /\ \A i, j \in DOMAIN h : i <= j => h[i].accountedAt <= h[j].accountedAt

\* The states a request ends in.
Terminal == {"Denied", "Executed", "Expired", "Cancelled"}

\* While a policy is stopped, revoked or under the global pause it gains no
\* request and no evaluation and no new money is held for it, yet its allowed
\* requests may still settle.
InactivePolicyGainsNothing ==
    [][\A r \in RequestId :
        (requests'[r] # requests[r] \/ evaluationAccepted'[r] # evaluationAccepted[r])
        => \/ policies[PolicyOf(r)'].status = "Active" /\ ~globallyPaused
           \/ Status(r) = "Allowed" /\ Status(r)' \in {"Executed", "Expired", "Cancelled"}
           \/ Status(r) = "Pending" /\ Status(r)' \in {"Expired", "Cancelled"}
      ]_vars

\* No request stays open and no reservation stays held for ever.
EveryRequestEnds ==
    \A r \in RequestId : Status(r) \in {"Pending", "Allowed"} ~> Status(r) \in Terminal

-----------------------------------------------------------------------------
(* The contracts implement the payment ledger.                              *)

LedgerPhase(r) ==
    CASE Status(r) \in {"None", "Pending"} -> "open"
      [] Status(r) = "Allowed" -> "held"
      [] Status(r) = "Executed" -> "paid"
      [] Status(r) \in {"Denied", "Expired", "Cancelled"} -> "closed"

Ledger == INSTANCE PaymentLedger WITH
    phase <- [r \in RequestId |-> LedgerPhase(r)],
    hold <- [r \in RequestId |->
               IF reservations[r].active
                 THEN [owner |-> reservations[r].owner, asset |-> reservations[r].asset,
                       amount |-> reservations[r].amount]
                 ELSE [amount |-> 0]],
    free <- [o \in Owner |-> [a \in Asset |-> accounts[o][a].available]],
    paid <- [o \in Owner |-> [a \in Asset |-> accounts[o][a].spent]],
    ledger <- [p \in Policy |-> spendState[p].checkpoint.history]

\* Every step of the contracts is a step of the ledger or leaves it alone.
ImplementsLedger == Ledger!LedgerSpec
=============================================================================
