----------------------------- MODULE FundingJob -----------------------------
(***************************************************************************)
(* A funding job, packages/integrations/src/funding.ts and fdc.ts: an XRPL  *)
(* payment is observed, attested to, and minted as an FAsset for a Smart    *)
(* Account.  A job is an immutable public snapshot; every function takes a  *)
(* snapshot, asserts its integrity and returns the next one.  Whoever keeps *)
(* the snapshots may call with any of them again, and several calls may be  *)
(* under way.                                                               *)
(*                                                                         *)
(* The hashes are modelled as what they hash: an operation and an expected  *)
(* payment are one value each, operationHash and expectedPaymentHash name   *)
(* the ones the job was created with, and checkpointHash is the public part *)
(* it was computed from.  Behind the injected client stands an asset        *)
(* manager that mints once for a payment, possibly after a delay.           *)
(***************************************************************************)
EXTENDS Integers, FiniteSets

CONSTANTS
    Operation,      \* owner, accounts, asset, amount, fee, nonce and memo
    Payment,        \* expected XRPL payments
    PaymentsFor,    \* PaymentsFor[o]: those of o's amount, memo and destination
    FundingProof,   \* records [payment, commitment] that callers present
    AttestedProof,  \* those the FDC verifier confirms
    Call,           \* calls of the two asynchronous functions
    MaxClock

ASSUME FundingAssumption ==
    /\ PaymentsFor \in [Operation -> SUBSET Payment]
    /\ AttestedProof \subseteq FundingProof
    /\ MaxClock \in Nat

Nothing == "nothing"
NoTime == 0

VARIABLES
    jobs,        \* every snapshot ever returned
    calls,       \* calls[c]: where an asynchronous call is
    paid,        \* payments validated on the XRP Ledger
    minted,      \* minted[p]: the operation the asset manager minted for p
    delayed,     \* delayed[p]: when a delayed minting of p may execute, or NoTime
    clock

fundingVars == <<jobs, calls, paid, minted, delayed, clock>>

NotCalled == [at |-> "ready"]

\* What the checkpoint hash covers.
Public(job) ==
    [operationHash |-> job.operationHash, expectedPaymentHash |-> job.expectedPaymentHash,
     state |-> job.state, requested |-> job.requested,
     proofCommitment |-> job.proofCommitment,
     executionAllowedAt |-> job.executionAllowedAt, mint |-> job.mint]

checkpointFundingJob(job) == [job EXCEPT !.checkpointHash = Public(job)]

assertFundingJobIntegrity(job) ==
    /\ job.operationHash = job.operation
    /\ job.expectedPaymentHash = job.expectedPayment
    /\ job.checkpointHash = Public(job)
    /\ job.expectedPayment \in PaymentsFor[job.operation]
    /\ job.requested <=> job.state \in {"FDC_REQUESTED", "PROOF_READY", "DELAYED", "DIRECT_MINTED"}
    /\ job.proofCommitment # Nothing <=> job.state \in {"PROOF_READY", "DELAYED", "DIRECT_MINTED"}
    /\ job.executionAllowedAt # NoTime <=> job.state = "DELAYED"
    /\ job.mint # Nothing <=> job.state = "DIRECT_MINTED"

FundingInit ==
    /\ jobs = {} /\ paid = {} /\ clock = 0
    /\ calls = [c \in Call |-> NotCalled]
    /\ minted = [p \in Payment |-> Nothing]
    /\ delayed = [p \in Payment |-> NoTime]

-----------------------------------------------------------------------------
(* The synchronous checkpoints.                                             *)

Returned(job) == jobs' = jobs \cup {checkpointFundingJob(job)}

Synchronous == UNCHANGED <<calls, paid, minted, delayed, clock>>

createFundingJob(operation, payment) ==
    /\ payment \in PaymentsFor[operation]
    /\ Returned([operation |-> operation, operationHash |-> operation,
               expectedPayment |-> payment, expectedPaymentHash |-> payment,
               state |-> "CREATED", requested |-> FALSE, proofCommitment |-> Nothing,
               executionAllowedAt |-> NoTime, mint |-> Nothing, checkpointHash |-> Nothing])
    /\ Synchronous

\* An observation is read from a validated ledger, and may be of any payment.
observeXrplPayment(job, observed) ==
    /\ assertFundingJobIntegrity(job)
    /\ job.state = "CREATED"
    /\ observed \in paid /\ observed = job.expectedPayment
    /\ Returned([job EXCEPT !.state = "PAYMENT_OBSERVED"])
    /\ Synchronous

markFdcRequested(job) ==
    /\ assertFundingJobIntegrity(job)
    /\ job.state = "PAYMENT_OBSERVED"
    /\ Returned([job EXCEPT !.state = "FDC_REQUESTED", !.requested = TRUE])
    /\ Synchronous

resumeDelayed(job, now) ==
    /\ assertFundingJobIntegrity(job)
    /\ job.state = "DELAYED" /\ now >= job.executionAllowedAt
    /\ Returned([job EXCEPT !.state = "PROOF_READY", !.executionAllowedAt = NoTime])
    /\ Synchronous

-----------------------------------------------------------------------------
(* The asynchronous ones.  The job object is shared with the verifier or    *)
(* the client while the call waits for it.                                  *)

Await(c, at, job, proof) ==
    calls' = [calls EXCEPT ![c] = [at |-> at, job |-> job, proof |-> proof, answer |-> Nothing]]

Ends(c) == calls' = [calls EXCEPT ![c] = [at |-> "over"]]

\* acceptFdcProof up to the verifier.
AcceptFdcProof(c, job, proof) ==
    /\ calls[c] = NotCalled
    /\ assertFundingJobIntegrity(job)
    /\ job.state = "FDC_REQUESTED"
    /\ proof.payment = job.expectedPayment
    /\ Await(c, "verifying", job, proof)
    /\ UNCHANGED <<jobs, paid, minted, delayed, clock>>

\* The verifier confirms, and the call returns what it makes of the job
\* object as it is now.
Verified(c) ==
    LET call == calls[c] IN
    /\ call.at = "verifying" /\ call.proof \in AttestedProof
    /\ Returned([call.job EXCEPT !.state = "PROOF_READY",
                               !.proofCommitment = call.proof.commitment])
    /\ Ends(c)
    /\ UNCHANGED <<paid, minted, delayed, clock>>

\* executeDirectMint up to the client.
ExecuteDirectMint(c, job, proof) ==
    /\ calls[c] = NotCalled
    /\ assertFundingJobIntegrity(job)
    /\ job.state = "PROOF_READY"
    /\ proof.commitment = job.proofCommitment /\ proof.payment = job.expectedPayment
    /\ Await(c, "minting", job, proof)
    /\ UNCHANGED <<jobs, paid, minted, delayed, clock>>

\* The client reaches the asset manager: the payment is minted, or delayed
\* on its first attempt.
Minting(c) ==
    LET call == calls[c]
        p == call.proof.payment
    IN
    /\ call.at = "minting" /\ call.answer = Nothing
    /\ minted[p] = Nothing
    /\ \/ /\ clock >= delayed[p]
          /\ minted' = [minted EXCEPT ![p] = call.job.operation]
          /\ UNCHANGED delayed
       \/ /\ delayed[p] = NoTime /\ clock < MaxClock
          /\ delayed' = [delayed EXCEPT ![p] = clock + 1]
          /\ UNCHANGED minted
    /\ calls' = [calls EXCEPT ![c].answer = "reached"]
    /\ UNCHANGED <<jobs, paid, clock>>

\* The client answers with a receipt that is on the chain; after a mix-up,
\* with that of another payment.
Receipts == {[mint |-> p, operation |-> minted[p]] : p \in {q \in Payment : minted[q] # Nothing}}

\* (A mutant: a receipt is believed whatever operation it is of.)
ReceiptMatches_Any(receipt, job) == receipt.mint # Nothing

ReceiptMatches(receipt, job) ==
    receipt.operation = job.operationHash /\ receipt.operation = job.operation

DirectMinted(c, receipt) ==
    LET call == calls[c] IN
    /\ call.at = "minting" /\ call.answer = "reached"
    /\ ReceiptMatches(receipt, call.job)
    /\ Returned([call.job EXCEPT !.state = "DIRECT_MINTED", !.mint = receipt.mint])
    /\ Ends(c)
    /\ UNCHANGED <<paid, minted, delayed, clock>>

Delayed(c) ==
    LET call == calls[c]
        p == call.proof.payment
    IN
    /\ call.at = "minting" /\ call.answer = "reached" /\ delayed[p] # NoTime
    /\ Returned([call.job EXCEPT !.state = "DELAYED", !.executionAllowedAt = delayed[p]])
    /\ Ends(c)
    /\ UNCHANGED <<paid, minted, delayed, clock>>

\* The verifier or the client throws, or answers what is refused.
CallFails(c) ==
    /\ calls[c].at \in {"verifying", "minting"}
    /\ Ends(c)
    /\ UNCHANGED <<jobs, paid, minted, delayed, clock>>

\* What the call waits for changes one field of the job object it was given.
Mutate(c) ==
    /\ calls[c].at \in {"verifying", "minting"}
    /\ \/ \E o \in Operation : calls' = [calls EXCEPT ![c].job.operation = o]
       \/ \E p \in Payment : calls' = [calls EXCEPT ![c].job.expectedPayment = p]
    /\ UNCHANGED <<jobs, paid, minted, delayed, clock>>

-----------------------------------------------------------------------------
Pay(p) == p \notin paid /\ paid' = paid \cup {p} /\ UNCHANGED <<jobs, calls, minted, delayed, clock>>

ClockTicks == clock < MaxClock /\ clock' = clock + 1 /\ UNCHANGED <<jobs, calls, paid, minted, delayed>>

KeeperNext ==
    \/ \E o \in Operation, p \in Payment : createFundingJob(o, p)
    \/ \E job \in jobs :
         \/ \E p \in Payment : observeXrplPayment(job, p)
         \/ markFdcRequested(job)
         \/ resumeDelayed(job, clock)
         \/ \E c \in Call, proof \in FundingProof :
              AcceptFdcProof(c, job, proof) \/ ExecuteDirectMint(c, job, proof)

AnswerNext ==
    \E c \in Call :
        \/ Verified(c) \/ Minting(c) \/ Delayed(c) \/ CallFails(c) \/ Mutate(c)
        \/ \E receipt \in Receipts : DirectMinted(c, receipt)

FundingNext == KeeperNext \/ AnswerNext \/ ClockTicks \/ (\E p \in Payment : Pay(p))

FundingSpec == FundingInit /\ [][FundingNext]_fundingVars

-----------------------------------------------------------------------------
(* Properties.                                                              *)

\* A job that says it was minted names a transaction that minted its very
\* operation: not that of a concurrent call, of another job for the same
\* payment, or of a call that was delayed, whatever becomes of the job object
\* in the meantime (funding.ts:174-183).
MintedJobsWereMinted ==
    \A job \in jobs : job.state = "DIRECT_MINTED" => minted[job.mint] = job.operationHash

\* Every returned job passes its own integrity check: the operation and the
\* expected payment are recomputed "after every asynchronous checkpoint"
\* (docs/technology/architecture.md).
ReturnedJobsVerify == \A job \in jobs : assertFundingJobIntegrity(job)
=============================================================================
