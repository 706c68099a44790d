------------------------------- MODULE FdcFlow -------------------------------
(***************************************************************************)
(* The FDC adapters, packages/integrations/src/fdc-*.ts: an attestation     *)
(* request for an XRPL payment is prepared and priced, its voting round is  *)
(* derived from the block it was mined in, the round's finality is read, a  *)
(* proof is fetched and verified on the chain, and the call that mints      *)
(* against it is built (prepareCoston2FdcFundingFlow).                      *)
(*                                                                         *)
(* Around them: the Flare data connector, which attests to what happened    *)
(* and puts the responses of a round under one root; relay contracts that   *)
(* hold the roots, and may be replaced in FdcVerification and in the Flare  *)
(* registry, one after the other; and a data availability layer that        *)
(* answers anything.  A Merkle root is the set of responses under it.       *)
(***************************************************************************)
EXTENDS Integers, FiniteSets

CONSTANTS
    Transaction,   \* XRPL transactions
    PaymentOf,     \* PaymentOf[t]: ledger, amount, memo and success of t
    Owner,         \* proof owners
    FdcRelay,      \* relay contracts
    RoundLength,
    MaxTime,
    MaxRequests,   \* bound: attestation requests ever mined
    Preparation    \* calls of prepareCoston2FdcFundingFlow

ASSUME FdcAssumption ==
    /\ RoundLength \in Nat \ {0} /\ {MaxTime, MaxRequests} \subseteq Nat
    /\ \A t \in Transaction : PaymentOf[t].success \in BOOLEAN

\* Relay.getVotingRoundId.
RoundOf(time) == 1 + time \div RoundLength

Round == 1..RoundOf(MaxTime)

PaymentBody == {PaymentOf[t] : t \in Transaction}

Response == [transaction: Transaction, owner: Owner, round: Round, payment: PaymentBody]

NoRoot == [finalized |-> FALSE]
Anyone == "anyone"

VARIABLES
    validated,   \* transactions validated on the XRP Ledger
    requested,   \* attestation requests mined: [transaction, owner, time]
    roots,       \* roots[r][n]: the root of round n that relay r holds, or NoRoot
    used,        \* the relay that FdcVerification uses
    named,       \* the relay that the Flare registry names
    now,
    preparations \* preparations[c]: where a call is

connectorVars == <<validated, requested, roots, used, named, now>>
fdcVars == <<connectorVars, preparations>>

FdcInit ==
    /\ validated = {} /\ requested = {} /\ now = 0
    /\ roots = [r \in FdcRelay |-> [n \in Round |-> NoRoot]]
    /\ used \in FdcRelay /\ named = used
    /\ preparations = [c \in Preparation |-> [at |-> "ready"]]

-----------------------------------------------------------------------------
(* The steps that the flow and the live trigger script share.               *)

\* prepareCoston2XrplPaymentRequest: the verifier calls a request for a
\* validated transaction valid, and its encoding names that request.
Preparable(request) == request.transaction \in validated

\* readCoston2FdcRoundFinality, at the relay FdcVerification named just before.
Finality(relay, round) == [relay |-> relay, round |-> round, root |-> roots[relay][round]]

Finalized(finality) == finality.root.finalized

\* (A mutant: the response may be of another transaction.)
Binds_AnyTransaction(response, request, round) ==
    response.owner = request.owner /\ response.round = round

\* parseCoston2XrplPaymentProof: the answer is of this request and round.
Binds(response, request, round) ==
    /\ response.transaction = request.transaction /\ response.owner = request.owner
    /\ response.round = round

\* proofFromEnvelope, before the contract is asked.
Presentable(response, finality, expectedOwner) ==
    /\ Finalized(finality) /\ finality.round = response.round
    /\ expectedOwner # Anyone => response.owner = expectedOwner
    /\ response.payment.success

\* FdcVerification.verifyXRPPayment.
verifyXRPPayment(response) ==
    roots[used][response.round].finalized /\ response \in roots[used][response.round].leaves

-----------------------------------------------------------------------------
(* prepareCoston2FdcFundingFlow.  The receipt is whatever checkpoint the    *)
(* caller supplies, of any request that was mined.                          *)

FlowStep(c, at, to, flow) ==
    /\ preparations[c].at = at
    /\ preparations' = [preparations EXCEPT ![c] = [flow EXCEPT !.at = to]]
    /\ UNCHANGED connectorVars

prepareCoston2FdcFundingFlow(c, relay, request, receipt, expectedOwner) ==
    /\ preparations[c].at = "ready"
    /\ preparations' = [preparations EXCEPT ![c] =
         [at |-> "fee", givenRelay |-> relay, request |-> request, receipt |-> receipt,
          expectedOwner |-> expectedOwner, round |-> 0, finality |-> NoRoot, response |-> NoRoot]]
    /\ UNCHANGED connectorVars

\* The hub's fee configuration is read, and the fee of this request.
prepareCoston2FdcSubmission(c) == FlowStep(c, "fee", "round", preparations[c])

deriveCoston2FdcVotingRound(c) ==
    FlowStep(c, "round", "relay", [preparations[c] EXCEPT !.round = RoundOf(preparations[c].receipt.time)])

ReadRelay(c) ==
    FlowStep(c, "relay", "finality",
         [preparations[c] EXCEPT !.finality = [relay |-> used, round |-> 0, root |-> NoRoot]])

\* A round that is not finalized goes on, and is refused with its proof.
readCoston2FdcRoundFinality(c) ==
    LET flow == preparations[c] IN
    /\ flow.at = "finality" /\ flow.finality.relay = flow.givenRelay
    /\ FlowStep(c, "finality", "proof",
            [flow EXCEPT !.finality = Finality(flow.finality.relay, flow.round)])

fetchCoston2XrplPaymentProof(c, response) ==
    LET flow == preparations[c] IN
    /\ flow.at = "proof"
    /\ Binds(response, flow.request, flow.round)
    /\ Presentable(response, flow.finality, flow.expectedOwner)
    /\ FlowStep(c, "proof", "verifying", [flow EXCEPT !.response = response])

\* The proof is verified, and buildCoston2DirectMintCall takes it once more.
verifyCoston2XrplPaymentProof(c) ==
    /\ preparations[c].at = "verifying"
    /\ verifyXRPPayment(preparations[c].response)
    /\ FlowStep(c, "verifying", "prepared", preparations[c])

\* A read fails, or answers what is refused: there is no retry.
PreparationFails(c) ==
    /\ preparations[c].at \notin {"ready", "prepared", "failed"}
    /\ FlowStep(c, preparations[c].at, "failed", preparations[c])

PreparationNext ==
    \E c \in Preparation :
        \/ \E relay \in FdcRelay, t \in validated, owner \in Owner, receipt \in requested,
              expectedOwner \in Owner \cup {Anyone} :
             LET request == [transaction |-> t, owner |-> owner] IN
             /\ Preparable(request)
             /\ prepareCoston2FdcFundingFlow(c, relay, request, receipt, expectedOwner)
        \/ prepareCoston2FdcSubmission(c) \/ deriveCoston2FdcVotingRound(c)
        \/ ReadRelay(c) \/ readCoston2FdcRoundFinality(c)
        \/ \E response \in Response : fetchCoston2XrplPaymentProof(c, response)
        \/ verifyCoston2XrplPaymentProof(c) \/ PreparationFails(c)

-----------------------------------------------------------------------------
(* The connector and its surroundings.                                      *)

Validate(t) ==
    /\ t \notin validated /\ validated' = validated \cup {t}
    /\ UNCHANGED <<requested, roots, used, named, now>>

\* FdcHub.requestAttestation, by anyone.
RequestAttestation(t, owner) ==
    LET request == [transaction |-> t, owner |-> owner, time |-> now] IN
    /\ t \in validated /\ request \notin requested
    /\ Cardinality(requested) < MaxRequests
    /\ requested' = requested \cup {request}
    /\ UNCHANGED <<validated, roots, used, named, now>>

Attested(round) ==
    [finalized |-> TRUE,
     leaves |-> {[transaction |-> q.transaction, owner |-> q.owner, round |-> round,
                  payment |-> PaymentOf[q.transaction]] : q \in {p \in requested : RoundOf(p.time) = round}}]

FinalizeRound(relay, round) ==
    /\ round < RoundOf(now) /\ roots[relay][round] = NoRoot
    /\ roots' = [roots EXCEPT ![relay][round] = Attested(round)]
    /\ UNCHANGED <<validated, requested, used, named, now>>

\* Flare governance moves to another relay, in two transactions.
ReplaceRelay(relay) ==
    /\ \/ used' = relay /\ UNCHANGED named
       \/ named' = relay /\ UNCHANGED used
    /\ UNCHANGED <<validated, requested, roots, now>>

Tick == now < MaxTime /\ now' = now + 1 /\ UNCHANGED <<validated, requested, roots, used, named>>

ConnectorNext ==
    \/ \E t \in Transaction : Validate(t) \/ \E owner \in Owner : RequestAttestation(t, owner)
    \/ \E relay \in FdcRelay : ReplaceRelay(relay) \/ \E round \in Round : FinalizeRound(relay, round)
    \/ Tick

FdcNext == (ConnectorNext /\ UNCHANGED preparations) \/ PreparationNext

FdcSpec == FdcInit /\ [][FdcNext]_fdcVars

-----------------------------------------------------------------------------
(* Properties.                                                              *)

\* What the flow hands to the minting call is a successful payment that
\* happened, of the very transaction and owner the request bytes name, in a
\* response under the root that the result names, held for that round by the
\* relay it names: whatever the availability layer answers, whichever receipt
\* the caller supplies, and whenever the relays are replaced.
PreparedIsAttested ==
    \A c \in Preparation : preparations[c].at = "prepared" =>
        LET flow == preparations[c]
            response == flow.response
        IN
        /\ response.transaction = flow.request.transaction /\ response.transaction \in validated
        /\ response.payment = PaymentOf[response.transaction] /\ response.payment.success
        /\ flow.expectedOwner \in {Anyone, response.owner}
        /\ flow.finality.root = roots[flow.finality.relay][flow.round]
        /\ response \in flow.finality.root.leaves /\ flow.finality.relay = flow.givenRelay
=============================================================================
