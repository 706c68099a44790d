------------------------------ MODULE TriggerRun ------------------------------
(***************************************************************************)
(* The live trigger run, tooling/coston2-fdc-trigger-live.mjs: one payment  *)
(* is made on XRPL with a fresh request identifier as its memo, attested to *)
(* by the FDC, and turned into one pending request by the trigger contract, *)
(* under a policy of three simulated machines registered on the way; the    *)
(* evidence says what the run did.  The run has no journal: it may die        *)
(* anywhere, and then leaves what it did without evidence.                   *)
(*                                                                         *)
(* Around it other accounts use the trigger and the router, the relays are  *)
(* replaced, and time passes.  PayGuardXrplFdcTrigger models the contract;  *)
(* what it refuses of one run's transaction is abstract here.               *)
(***************************************************************************)
EXTENDS FdcFlow

CONSTANTS
    Ours,                \* the payment that this run's wallet makes
    Trigger,             \* the trigger contract, as a proof owner
    MaxProofAgeSeconds

ASSUME TriggerRunAssumption == Ours \in Transaction /\ Trigger \in Owner

RequestId == {PaymentOf[t].memo : t \in Transaction}
requestId == PaymentOf[Ours].memo

NoRequest == [status |-> "None"]
NoEvidence == [written |-> FALSE]

Machines == 3

VARIABLES
    run,        \* where the run is, and what it has read and done
    router,     \* router[q]: requests of the router, and what they stand for
    consumed,   \* XRPL transactions the trigger has consumed
    registered, \* machines of the run's policy registered so far, and then the policy
    paidAt,     \* when Ours was validated
    published

runVars == <<run, router, consumed, registered, paidAt, published>>
triggerRunVars == <<fdcVars, runVars>>

OurRequest == [transaction |-> Ours, owner |-> Trigger]

RunInit ==
    /\ run = [at |-> "start"] /\ published = NoEvidence
    /\ router = [q \in RequestId |-> NoRequest]
    /\ consumed = {} /\ registered = 0 /\ paidAt = 0

-----------------------------------------------------------------------------
(* The run.                                                                 *)

GoesOn(to, step) == run' = [step EXCEPT !.at = to]

\* readRuntimeSnapshot: the relay is the one the Flare registry names.  The
\* bindings and the balance it checks are not read again: a failure, or not.
readRuntimeSnapshot ==
    /\ run.at = "start"
    /\ run' = [at |-> "pay", relay |-> named, requestedAt |-> 0, round |-> 0,
               finality |-> NoRoot, response |-> NoRoot, createdAt |-> 0]
    /\ UNCHANGED <<fdcVars, router, consumed, registered, paidAt, published>>

\* The wallets are new, so nobody else can make this payment.
submitXrplPayment ==
    /\ run.at = "pay" /\ Validate(Ours) /\ PaymentOf[Ours].success
    /\ paidAt' = now
    /\ GoesOn("prepare", run)
    /\ UNCHANGED <<preparations, router, consumed, registered, published>>

RunStep(from, to, step) ==
    /\ run.at = from /\ GoesOn(to, step)
    /\ UNCHANGED <<fdcVars, router, consumed, registered, paidAt, published>>

\* The verifier is asked again until it has indexed the payment; the fee is
\* read after that.
waitForPreparedFdcRequest == Preparable(OurRequest) /\ RunStep("prepare", "request", run)

submitFdcRequest ==
    /\ run.at = "request" /\ RequestAttestation(Ours, Trigger)
    /\ GoesOn("round", [run EXCEPT !.requestedAt = now])
    /\ UNCHANGED <<preparations, router, consumed, registered, paidAt, published>>

\* The round of the block that the request was mined in.
DeriveRound == RunStep("round", "relay", [run EXCEPT !.round = RoundOf(run.requestedAt)])

PollRelay ==
    RunStep("relay", "finality", [run EXCEPT !.finality = [relay |-> used, round |-> run.round, root |-> NoRoot]])

SameRelay(finality) == finality.relay = run.relay

PollFinality ==
    LET finality == Finality(run.finality.relay, run.round) IN
    /\ run.at = "finality" /\ SameRelay(finality)
    /\ \/ Finalized(finality) /\ RunStep("finality", "proof", [run EXCEPT !.finality = finality])
       \/ ~Finalized(finality) /\ RunStep("finality", "relay", run)

\* An answer that is not ready, or none, is asked for again: no step.
waitForFdcProof(response) ==
    /\ run.at = "proof"
    /\ Binds(response, OurRequest, run.round) /\ Presentable(response, run.finality, Trigger)
    /\ RunStep("proof", "verify", [run EXCEPT !.response = response])

\* The proof must show the payment that the run saw validated.
BindsPayment(response) == response.transaction = Ours /\ response.payment = PaymentOf[Ours]

VerifyProof ==
    /\ run.at = "verify" /\ verifyXRPPayment(run.response)
    /\ BindsPayment(run.response)
    /\ RunStep("verify", "policy", run)

registerSimulatedPolicy ==
    /\ run.at = "policy" /\ registered <= Machines
    /\ registered' = registered + 1
    /\ GoesOn(IF registered = Machines THEN "checkpoint" ELSE "policy", run)
    /\ UNCHANGED <<fdcVars, router, consumed, paidAt, published>>

\* The balance, a block and its time are read; the request is built on them.
ReadCheckpoint == now >= paidAt /\ RunStep("checkpoint", "consume", [run EXCEPT !.createdAt = now])

Fresh(time) == time <= now /\ now - time <= MaxProofAgeSeconds

Standing(transaction, by) == [status |-> "Pending", transaction |-> transaction, by |-> by]

consumeProof ==
    /\ run.at = "consume"
    /\ verifyXRPPayment(run.response) /\ Fresh(paidAt)
    /\ Ours \notin consumed /\ router[requestId] = NoRequest
    /\ consumed' = consumed \cup {Ours}
    /\ router' = [router EXCEPT ![requestId] = Standing(Ours, "run")]
    /\ GoesOn("readback", run)
    /\ UNCHANGED <<fdcVars, registered, paidAt, published>>

\* The markers and the request are read back, the evidence is built, and put
\* in place by a rename.
saveEvidence ==
    /\ run.at = "readback"
    /\ Ours \in consumed /\ router[requestId].status = "Pending"
    /\ published' = [written |-> TRUE, relay |-> run.relay, round |-> run.round,
                    requestedAt |-> run.requestedAt, root |-> run.finality.root,
                    response |-> run.response, createdAt |-> run.createdAt]
    /\ GoesOn("done", run)
    /\ UNCHANGED <<fdcVars, router, consumed, registered, paidAt>>

\* A read, a transaction or the process fails, a wait times out, or what was
\* read is refused.
RunFails == run.at \notin {"done", "failed"} /\ RunStep(run.at, "failed", run)

-----------------------------------------------------------------------------
(* The others.                                                              *)

\* An account consumes a proof under a policy of its own.
ConsumeElsewhere(response) ==
    LET t == response.transaction
        q == response.payment.memo
    IN
    /\ verifyXRPPayment(response) /\ response.owner = Trigger /\ response.payment.success
    /\ t \notin consumed /\ router[q] = NoRequest
    /\ consumed' = consumed \cup {t}
    /\ router' = [router EXCEPT ![q] = Standing(t, "other")]
    /\ UNCHANGED <<fdcVars, run, registered, paidAt, published>>

\* A request is placed directly, or one ends.
RouterElsewhere ==
    /\ \E q \in RequestId :
         \/ router[q] = NoRequest /\ router' = [router EXCEPT ![q] = Standing(NoRoot, "other")]
         \/ router[q].status = "Pending" /\ router' = [router EXCEPT ![q].status = "Ended"]
    /\ UNCHANGED <<fdcVars, run, consumed, registered, paidAt, published>>

RunNext ==
    \/ readRuntimeSnapshot \/ submitXrplPayment \/ waitForPreparedFdcRequest
    \/ submitFdcRequest \/ DeriveRound \/ PollRelay \/ PollFinality
    \/ (\E response \in Response : waitForFdcProof(response))
    \/ VerifyProof \/ registerSimulatedPolicy \/ ReadCheckpoint \/ consumeProof
    \/ saveEvidence \/ RunFails

ElsewhereNext ==
    \/ \E relay \in FdcRelay, round \in Round :
         roots[relay][round].finalized /\ \E response \in roots[relay][round].leaves : ConsumeElsewhere(response)
    \/ RouterElsewhere
    \/ ConnectorNext /\ (Ours \in validated \/ Ours \notin validated') /\ UNCHANGED <<preparations, runVars>>

TriggerRunNext == RunNext \/ ElsewhereNext

TriggerRunSpec == FdcInit /\ RunInit /\ [][TriggerRunNext]_triggerRunVars

-----------------------------------------------------------------------------
(* Properties.                                                              *)

\* What the evidence asserts is so: the payment was validated before the
\* request was created, its attestation was asked for in the very round named,
\* the root named is that of this round at the relay named and has the
\* response under it, and the run's own request, of no other payment and under
\* a policy whose three machines were registered, consumed it.
EvidenceIsTrue ==
    published.written =>
        /\ Ours \in validated /\ paidAt <= published.createdAt
        /\ \E q \in requested :
             /\ q.transaction = Ours /\ q.owner = Trigger /\ q.time = published.requestedAt
             /\ RoundOf(q.time) = published.round
        /\ published.root = roots[published.relay][published.round]
        /\ published.response \in published.root.leaves
        /\ published.response.transaction = Ours /\ published.response.payment = PaymentOf[Ours]
        /\ Ours \in consumed /\ registered = Machines + 1
        /\ router[requestId].transaction = Ours /\ router[requestId].by = "run"

\* What the adapters hand on, and what the run that uses them publishes.
AttestationsHold == PreparedIsAttested /\ EvidenceIsTrue
=============================================================================
