---------------------------- MODULE RedemptionJob ----------------------------
(***************************************************************************)
(* A redemption job, packages/integrations/src/redemption.ts, and its       *)
(* Coston2 client, fassets-redemption.ts: FAssets are handed in, several    *)
(* agents owe the underlying, and every leg ends as a payment on the XRP    *)
(* Ledger or as a default paid in collateral.  As with a funding job, the   *)
(* functions take immutable public snapshots and return the next ones; a    *)
(* snapshot may be used again, and several calls may be under way.          *)
(*                                                                         *)
(* An intent is one record; payTo stands for what a leg repeats of it: the  *)
(* redeemer, the XRPL address, the executor and the tag.  intentHash and    *)
(* checkpointHash are what they were computed from, and the commitment of a *)
(* settlement proof is the event proved.  Client and verifier are truthful, *)
(* and may fail.  One account redeems; the asset manager is external.       *)
(***************************************************************************)
EXTENDS FundingJob, Sequences, Functions

CONSTANTS
    Intent,       \* records [jobId, payTo, amount]
    Agent,
    Request,      \* calls of requestRedemption
    Accept,       \* calls of acceptRedemptionPerformed and acceptRedemptionDefault
    Supply        \* FAssets the account starts with

ASSUME RedemptionAssumption ==
    /\ Supply \in Nat
    /\ \A i \in Intent : i.amount \in Nat \ {0}

NoEvent == [kind |-> "none"]
NoTransaction == 0

VARIABLES
    snapshots,   \* every job ever returned
    requests,    \* requests[c], accepts[c]: where an asynchronous call is
    accepts,
    opened,      \* the legs of the asset manager by request id
    balance,     \* FAssets of the account
    allowance,   \* what the asset manager may take of them
    mutated      \* an object that a call was given has been changed

chainVars == <<opened, balance, allowance>>
redemptionVars == <<snapshots, requests, accepts, chainVars, mutated>>

Uncalled == [at |-> "ready"]
Called == [at |-> "over"]

Sum(legs) == SumFunctionOnSet([i \in DOMAIN legs |-> legs[i].value], DOMAIN legs)

\* What the checkpoint hash covers.
Checkpoint(job) ==
    <<job.intentHash, job.state, job.transaction, job.redeemed, job.remaining, job.requests>>

checkpointRedemptionJob(job) == [job EXCEPT !.checkpointHash = Checkpoint(job)]

ExpectedState(legs) ==
    IF legs = <<>> THEN "CREATED"
    ELSE IF \A i \in DOMAIN legs : legs[i].state # "REQUESTED" THEN "SETTLED"
    ELSE "REQUESTED"

\* Legs are of one job when they repeat its intent and no two share an
\* identifier or an agent.
LegsOf(job, legs) ==
    /\ \A i \in DOMAIN legs : legs[i].payTo = job.intent.payTo
    /\ IsInjective([i \in DOMAIN legs |-> legs[i].requestId])
    /\ IsInjective([i \in DOMAIN legs |-> legs[i].agentVault])

assertRedemptionJobIntegrity(job) ==
    /\ job.intentHash = job.intent
    /\ job.checkpointHash = Checkpoint(job)
    /\ LegsOf(job, job.requests)
    /\ \A i \in DOMAIN job.requests :
         (job.requests[i].state = "REQUESTED") = (job.requests[i].settlement = NoEvent)
    /\ job.state = ExpectedState(job.requests)
    /\ (job.state = "CREATED") = (job.transaction = NoTransaction)
    /\ job.state # "CREATED" =>
         /\ job.redeemed = Sum(job.requests)
         /\ job.redeemed + job.remaining = job.intent.amount

\* The same assertion, of the object as it is after an await.
StillIntact(job) == assertRedemptionJobIntegrity(job)

redemptionOutcome(job) ==
    LET paidLegs == {i \in DOMAIN job.requests : job.requests[i].state = "UNDERLYING_PAID"} IN
    IF job.state = "CREATED" THEN "NOT_REQUESTED"
    ELSE IF job.state = "REQUESTED" THEN "PENDING"
    ELSE IF paidLegs = DOMAIN job.requests THEN "UNDERLYING_PAID"
    ELSE IF paidLegs = {} THEN "COLLATERAL_DEFAULT"
    ELSE "MIXED"

RedemptionInit ==
    /\ snapshots = {}
    /\ requests = [c \in Request |-> Uncalled]
    /\ accepts = [c \in Accept |-> Uncalled]
    /\ opened = <<>> /\ balance = Supply /\ allowance = 0 /\ mutated = FALSE

Snapshot(job) == snapshots' = snapshots \cup {checkpointRedemptionJob(job)}

createRedemptionJob(intent) ==
    /\ Snapshot([intent |-> intent, intentHash |-> intent, state |-> "CREATED",
                 transaction |-> NoTransaction, redeemed |-> 0, remaining |-> 0,
                 requests |-> <<>>, checkpointHash |-> <<>>])
    /\ UNCHANGED <<requests, accepts, chainVars, mutated>>

-----------------------------------------------------------------------------
(* requestRedemption and the client.  The job object is shared: what the    *)
(* client reads after an await is what the object holds by then.            *)

Goes(c, place) == requests' = [requests EXCEPT ![c].at = place]

RequestRedemption(c, job) ==
    /\ requests[c] = Uncalled
    /\ assertRedemptionJobIntegrity(job) /\ job.state = "CREATED"
    /\ requests' = [requests EXCEPT ![c] =
         [at |-> "balance", job |-> job, sent |-> job.intent,
          transaction |-> NoTransaction]]
    /\ UNCHANGED <<snapshots, accepts, chainVars, mutated>>

\* The manager's asset and minimum are read on the way, and refused or not.
ReadBalance(c) ==
    /\ requests[c].at = "balance"
    /\ balance >= requests[c].job.intent.amount
    /\ Goes(c, "allowance")
    /\ UNCHANGED <<snapshots, accepts, chainVars, mutated>>

\* buildCoston2RedemptionCall asserts the job once more, and the call is sent.
Send(c) ==
    /\ StillIntact(requests[c].job)
    /\ requests' = [requests EXCEPT ![c].at = "redeeming", ![c].sent = requests[c].job.intent]

ReadAllowance(c) ==
    LET enough == allowance >= requests[c].job.intent.amount IN
    /\ requests[c].at = "allowance"
    /\ \/ enough /\ Send(c)
       \/ ~enough /\ Goes(c, "approve")
    /\ UNCHANGED <<snapshots, accepts, chainVars, mutated>>

Approve(c) ==
    /\ requests[c].at = "approve"
    /\ allowance' = requests[c].job.intent.amount
    /\ Goes(c, "approved")
    /\ UNCHANGED <<snapshots, accepts, opened, balance, mutated>>

RereadAllowance(c) ==
    /\ requests[c].at = "approved"
    /\ allowance >= requests[c].job.intent.amount
    /\ Send(c)
    /\ UNCHANGED <<snapshots, accepts, chainVars, mutated>>

LastTransaction == IF opened = <<>> THEN NoTransaction ELSE opened[Len(opened)].transaction

\* The asset manager redeems with some of the agents in its queue, one leg
\* each, and perhaps for less than was asked.
Redeem(c, agents) ==
    LET amount == Len(agents)
        legs == [i \in 1..amount |->
                   [transaction |-> LastTransaction + 1, payTo |-> requests[c].sent.payTo,
                    agentVault |-> agents[i], value |-> 1, outcome |-> "REQUESTED"]]
    IN
    /\ requests[c].at = "redeeming"
    /\ amount \in 1..requests[c].sent.amount
    /\ balance >= amount /\ allowance >= amount
    /\ opened' = opened \o legs
    /\ balance' = balance - amount /\ allowance' = allowance - amount
    /\ requests' = [requests EXCEPT ![c].at = "redeemed", ![c].transaction = LastTransaction + 1]
    /\ UNCHANGED <<snapshots, accepts, mutated>>

\* The legs a transaction opened, and one as its event tells of it.
OpenedBy(transaction) == {id \in DOMAIN opened : opened[id].transaction = transaction}

LegOf(id) ==
    [requestId |-> id, payTo |-> opened[id].payTo, agentVault |-> opened[id].agentVault,
     value |-> opened[id].value, state |-> "REQUESTED", settlement |-> NoEvent]

\* The events of a receipt, in their order: a transaction opens its legs one
\* after the other.
parseCoston2RedemptionReceipt(transaction) ==
    LET ids == OpenedBy(transaction)
        first == CHOOSE id \in ids : \A other \in ids : id <= other
        last == CHOOSE id \in ids : \A other \in ids : id >= other
    IN [n \in 1..(last - first + 1) |-> LegOf(first + n - 1)]

\* The client answers; the job is asserted again before it advances.
Requested(c) ==
    LET job == requests[c].job
        legs == parseCoston2RedemptionReceipt(requests[c].transaction)
    IN
    /\ requests[c].at = "redeemed"
    /\ StillIntact(job) /\ job.state = "CREATED"
    /\ LegsOf(job, legs) /\ Sum(legs) <= job.intent.amount
    /\ Snapshot([job EXCEPT !.state = "REQUESTED", !.transaction = requests[c].transaction,
                            !.redeemed = Sum(legs), !.remaining = job.intent.amount - Sum(legs),
                            !.requests = legs])
    /\ requests' = [requests EXCEPT ![c] = Called]
    /\ UNCHANGED <<accepts, chainVars, mutated>>

-----------------------------------------------------------------------------
(* acceptRedemptionPerformed and acceptRedemptionDefault: an event is       *)
(* matched to a leg, verified, and applied to the job as it is by then.     *)

\* Events as callers present them: of any leg, true, early or false.
Event ==
    [kind: {"UNDERLYING_PAID", "COLLATERAL_DEFAULT"}, requestId: DOMAIN opened,
     agentVault: Agent, amount: {1}]

IsTrue(event) ==
    /\ opened[event.requestId].outcome = event.kind
    /\ opened[event.requestId].agentVault = event.agentVault

Concerns(event, leg) == leg.requestId = event.requestId

AcceptRedemption(c, job, event) ==
    /\ accepts[c] = Uncalled
    /\ assertRedemptionJobIntegrity(job) /\ job.state = "REQUESTED"
    /\ \E i \in DOMAIN job.requests :
         LET leg == job.requests[i] IN
         /\ Concerns(event, leg)
         /\ leg.state = "REQUESTED"
         /\ leg.agentVault = event.agentVault /\ leg.value = event.amount
         /\ accepts' = [accepts EXCEPT ![c] =
              [at |-> "verifying", job |-> job, index |-> i, event |-> event,
               eventHash |-> event, commitment |-> NoEvent]]
    /\ UNCHANGED <<snapshots, requests, chainVars, mutated>>

Verify(c) ==
    /\ accepts[c].at = "verifying" /\ IsTrue(accepts[c].event)
    /\ accepts' = [accepts EXCEPT ![c].at = "verified", ![c].commitment = accepts[c].event]
    /\ UNCHANGED <<snapshots, requests, chainVars, mutated>>

SameEvent(call) == call.event = call.eventHash

Settled(legs, index, event, commitment) ==
    [legs EXCEPT ![index] = [legs[index] EXCEPT !.state = event.kind, !.settlement = commitment]]

Accepted(c) ==
    LET call == accepts[c]
        legs == Settled(call.job.requests, call.index, call.event, call.commitment)
    IN
    /\ call.at = "verified"
    /\ StillIntact(call.job)
    /\ \A i \in DOMAIN call.job.requests : call.job.requests[i].settlement # call.commitment
    /\ SameEvent(call)
    /\ Snapshot([call.job EXCEPT !.state = ExpectedState(legs), !.requests = legs])
    /\ accepts' = [accepts EXCEPT ![c] = Called]
    /\ UNCHANGED <<requests, chainVars, mutated>>

-----------------------------------------------------------------------------
(* What happens around the calls.                                           *)

Waiting(call) == call.at \notin {"ready", "over"}

\* What a call waits for throws, answers what is refused, or never answers.
CallEnds ==
    \/ /\ \E c \in Request : Waiting(requests[c]) /\ requests' = [requests EXCEPT ![c] = Called]
       /\ UNCHANGED <<snapshots, accepts, chainVars, mutated>>
    \/ /\ \E c \in Accept : Waiting(accepts[c]) /\ accepts' = [accepts EXCEPT ![c] = Called]
       /\ UNCHANGED <<snapshots, requests, chainVars, mutated>>

\* An object that a call was given is changed while it waits; bound: once.
MutateObject ==
    /\ ~mutated /\ mutated' = TRUE
    /\ \/ /\ \E c \in Request, intent \in Intent :
               /\ Waiting(requests[c])
               /\ requests' = [requests EXCEPT ![c].job.intent = intent]
          /\ UNCHANGED accepts
       \/ /\ \E c \in Accept :
               /\ Waiting(accepts[c])
               /\ \/ \E intent \in Intent :
                       accepts' = [accepts EXCEPT ![c].job.intent = intent]
                  \/ \E event \in Event : accepts' = [accepts EXCEPT ![c].event = event]
          /\ UNCHANGED requests
    /\ UNCHANGED <<snapshots, chainVars>>

\* An agent pays a leg, or defaults on it.
SettleLeg(id) ==
    /\ opened[id].outcome = "REQUESTED"
    /\ \E outcome \in {"UNDERLYING_PAID", "COLLATERAL_DEFAULT"} :
         opened' = [opened EXCEPT ![id].outcome = outcome]
    /\ UNCHANGED <<snapshots, requests, accepts, balance, allowance, mutated>>

\* The account spends an FAsset elsewhere.
SpendAsset ==
    /\ balance > 0 /\ balance' = balance - 1
    /\ UNCHANGED <<snapshots, requests, accepts, opened, allowance, mutated>>

RedemptionNext ==
    \/ \E intent \in Intent : createRedemptionJob(intent)
    \/ \E c \in Request :
         \/ \E job \in snapshots : RequestRedemption(c, job)
         \/ ReadBalance(c) \/ ReadAllowance(c) \/ Approve(c) \/ RereadAllowance(c) \/ Requested(c)
         \/ \E agents \in {<<a>> : a \in Agent} \cup {s \in Agent \X Agent : s[1] # s[2]} :
              Redeem(c, agents)
    \/ \E c \in Accept :
         \/ \E job \in snapshots, event \in Event : AcceptRedemption(c, job, event)
         \/ Verify(c) \/ Accepted(c)
    \/ CallEnds \/ MutateObject \/ SpendAsset
    \/ \E id \in DOMAIN opened : SettleLeg(id)

RedemptionSpec == RedemptionInit /\ [][RedemptionNext]_redemptionVars

-----------------------------------------------------------------------------
(* Properties.                                                              *)

\* A snapshot never says more than the chain: its legs are exactly those its
\* own transaction opened, for its own intent and amount, and every leg it
\* calls paid or defaulted is, on the proof of that very leg, whichever calls
\* overlap, whatever snapshot they start from, and whatever becomes of the
\* objects while they wait; so redemptionOutcome is the outcome.
SnapshotsFollowChain ==
    \A job \in snapshots : job.state # "CREATED" =>
        LET legs == job.requests IN
        /\ {legs[i].requestId : i \in DOMAIN legs} = OpenedBy(job.transaction)
        /\ Sum(legs) <= job.intentHash.amount
        /\ \A i \in DOMAIN legs :
             LET leg == opened[legs[i].requestId] IN
             /\ leg.payTo = job.intentHash.payTo
             /\ legs[i].state # "REQUESTED" =>
                  legs[i].state = leg.outcome /\ legs[i].settlement.requestId = legs[i].requestId
        /\ redemptionOutcome(job) = "UNDERLYING_PAID" =>
             \A i \in DOMAIN legs : opened[legs[i].requestId].outcome = "UNDERLYING_PAID"

\* Every returned snapshot passes its own integrity check: an object that was
\* changed while a call waited is never made the next checkpoint.
ReturnedSnapshotsVerify == \A job \in snapshots : assertRedemptionJobIntegrity(job)

\* What a keeper can rely on in a snapshot that a call gave it.
SnapshotsAreSound == SnapshotsFollowChain /\ ReturnedSnapshotsVerify

-----------------------------------------------------------------------------
(* The two jobs side by side.                                               *)

JobsInit == FundingInit /\ RedemptionInit

JobsNext ==
    \/ FundingNext /\ UNCHANGED redemptionVars
    \/ RedemptionNext /\ UNCHANGED fundingVars

JobsSpec == JobsInit /\ [][JobsNext]_<<fundingVars, redemptionVars>>

\* What a funding or a redemption snapshot says is so.
JobsAreSound == MintedJobsWereMinted /\ SnapshotsAreSound
=============================================================================
