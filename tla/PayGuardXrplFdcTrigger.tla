----------------------- MODULE PayGuardXrplFdcTrigger -----------------------
(***************************************************************************)
(* The FDC trigger, packages/contracts/src/PayGuardXrplFdcTrigger.sol, with *)
(* the router it creates requests at: a proof of an XRPL payment is         *)
(* verified, marked as consumed and turned into one pending request, in one *)
(* transaction that leaves nothing behind when any part of it reverts.      *)
(*                                                                         *)
(* Amounts and times of XRPL and of the chain share their units.  What a    *)
(* proof must say of itself (attestation type, source, proof owner, payment *)
(* status, address hashes) has one accepted value and is left out.          *)
(***************************************************************************)
EXTENDS PayGuardActionRouter

CONSTANTS
    TriggerAddress,     \* address(this) of the trigger
    MaxProofAgeSeconds,
    Transaction,        \* XRPL transactions
    Proof,              \* proofs that callers present
    Attested,           \* those the Flare data connector attests to
    TriggerInput        \* requests callers present with them

XRPPayment == [transaction: Transaction, amount: Nat, memo: RequestId, time: Nat]

ASSUME TriggerAssumption ==
    /\ TriggerAddress \in Address
    /\ MaxProofAgeSeconds \in Nat \ {0}
    /\ Proof \subseteq [payment: XRPPayment, votingRound: Nat, merkleProof: Nat]
    /\ Attested \subseteq Proof
    \* The connector attests to what happened: one transaction, one payment.
    /\ \A p, q \in Attested :
         p.payment.transaction = q.payment.transaction => p.payment = q.payment
    /\ TriggerInput \subseteq RequestInputType
    \* Nobody but the trigger calls from the trigger's address.
    /\ \A i \in RequestInput : i.requester # TriggerAddress

VARIABLES
    transactionConsumed,
    proofConsumed,
    inputCommitment,    \* inputCommitment[r]: that of the request stored under r
    runtimeDrifted      \* the Flare registry names another FdcVerification

triggerVars == <<transactionConsumed, proofConsumed, inputCommitment, runtimeDrifted>>

xrplProofCommitment(proof) == proof

xrplInputCommitment(proof) == [payment |-> proof.payment, votingRound |-> proof.votingRound]

NoInput == <<>>

TriggerInit ==
    /\ Init
    /\ transactionConsumed = {} /\ proofConsumed = {}
    /\ inputCommitment = [r \in RequestId |-> NoInput]
    /\ runtimeDrifted = FALSE

Unconsumed(proof) ==
    /\ proof.payment.transaction \notin transactionConsumed
    /\ xrplProofCommitment(proof) \notin proofConsumed

FreshProof(payment) == payment.time <= now /\ now - payment.time <= MaxProofAgeSeconds

PaysFor(payment, request) ==
    /\ request.createdAt >= payment.time
    /\ payment.amount = request.amount
    /\ payment.memo = request.requestId

\* (A mutant: the proof is marked, and a router that refuses is ignored.)
CreateOrNothing_Swallowed(request) ==
    CreateRequest(request, TriggerAddress)
        \/ UNCHANGED <<vaultVars, registryVars, routerVars>>

\* A router revert reverts the whole call: no step.
CreateOrNothing(request) == CreateRequest(request, TriggerAddress)

ConsumeAndCreateRequest(proof, request, commitment) ==
    /\ proof.payment.amount > 0
    /\ Unconsumed(proof)
    /\ FreshProof(proof.payment)
    /\ request.requester = TriggerAddress
    /\ PaysFor(proof.payment, request)
    /\ commitment = xrplInputCommitment(proof)
    /\ ~runtimeDrifted /\ proof \in Attested
    /\ transactionConsumed' = transactionConsumed \cup {proof.payment.transaction}
    /\ proofConsumed' = proofConsumed \cup {xrplProofCommitment(proof)}
    /\ CreateOrNothing(request)
    /\ inputCommitment' = [inputCommitment EXCEPT ![request.requestId] = commitment]
    /\ UNCHANGED runtimeDrifted

ConsumeNext ==
    \E proof, other \in Proof, input \in TriggerInput, occurrence \in 1..MaxOccurrence :
    \E checkpoint \in KnownCheckpoints(input.policyCommitment) :
        ConsumeAndCreateRequest(proof, PlacedRequest(input, checkpoint, occurrence),
                                xrplInputCommitment(other))

\* Flare governance replaces the verification contract.
RuntimeDrift ==
    /\ ~runtimeDrifted /\ runtimeDrifted' = TRUE
    /\ UNCHANGED <<transactionConsumed, proofConsumed, inputCommitment>>
    /\ UNCHANGED <<vaultVars, registryVars, routerVars>>

TriggerNext == ConsumeNext \/ RuntimeDrift \/ (Next /\ UNCHANGED triggerVars)

TriggerSpec == TriggerInit /\ [][TriggerNext]_<<vars, triggerVars>>

-----------------------------------------------------------------------------
(* Properties.                                                              *)

Triggered == {r \in RequestId : Status(r) # "None" /\ Frozen(r).requester = TriggerAddress}

TriggerTypeOK ==
    /\ transactionConsumed \subseteq Transaction
    /\ proofConsumed \subseteq Proof
    /\ \A r \in RequestId : inputCommitment[r] # NoInput =>
         inputCommitment[r] \in [payment: XRPPayment, votingRound: Nat]
    /\ \A r \in Triggered : inputCommitment[r] # NoInput
    /\ runtimeDrifted \in BOOLEAN

\* Every request of the trigger stands for one payment that was made on XRPL,
\* of its very amount, that names it and that precedes it; it commits to that
\* payment.  Since the payment names the request, no payment stands for two,
\* however many rounds attest to it.
BackedByPayment ==
    \A r \in Triggered :
        LET payment == inputCommitment[r].payment IN
        /\ \E p \in Attested : xrplInputCommitment(p) = inputCommitment[r]
        /\ payment.amount = Frozen(r).amount /\ payment.memo = r
        /\ payment.time <= Frozen(r).createdAt

\* The replay markers and the requests never disagree: a transaction is spent
\* exactly when a request stands for it, so a call that fails anywhere leaves
\* the payment usable, and one that succeeds does not.
SpentIffRequested ==
    /\ transactionConsumed = {inputCommitment[r].payment.transaction : r \in Triggered}
    /\ \A p \in proofConsumed : p.payment.transaction \in transactionConsumed

\* Requests and payments correspond: a payment behind every request, and every
\* payment that is spent spent on one.
PaymentsStandForRequests == BackedByPayment /\ SpentIffRequested

=============================================================================
