----------------------------- MODULE InputTriggers -----------------------------
(***************************************************************************)
(* The input triggers of packages/integrations: triggers.ts checks an FDC   *)
(* proof of an EVM transaction or of an XRPL payment, web2-json-trigger.ts  *)
(* one of a public JSON response, against what the caller expects.  What    *)
(* can be compared is compared at once; the proof itself is verified by an  *)
(* injected verifier, which is awaited, and then what can have changed      *)
(* meanwhile is looked at again: the sets of used inputs, which are the     *)
(* caller's, and the proof, an object the caller still holds.               *)
(*                                                                         *)
(* A caller puts an input and its proof into the used sets once it has the  *)
(* answer.  Commitments are ideal: a commitment is what it commits to.      *)
(***************************************************************************)
EXTENDS Integers, FiniteSets, TLC

CONSTANTS
    Check,          \* calls of a verify function
    Offer,          \* proofs that callers have, with what they expect of them
    AttestedInput,  \* AttestedInput[k]: what the FDC attests to, of a kind
    AllowedSource,  \* allowedSourceCommitments of web2-json-trigger.ts
    MaxTriggerTime

Kind == {"EVMTransaction", "XRPPayment", "Web2Json"}

ASSUME TriggerAssumption ==
    MaxTriggerTime \in Nat /\ \A offer \in Offer : offer.kind \in Kind

\* lowestUsedTimestamp of a response with no timestamp of its own.
NoLowest == -1

-----------------------------------------------------------------------------
(* Request bodies of Web2Json.                                              *)

\* The ABI signature: a tuple of distinct, named, primitive components.
parseAbiSignature(signature) ==
    /\ signature.tuple
    /\ Cardinality({c.name : c \in signature.components}) = Cardinality(signature.components)
    /\ [name |-> "observedAt", type |-> "uint64"] \in signature.components

validRequestBody(body) ==
    /\ body.url.https /\ ~ body.url.literal
    /\ body.httpMethod \in {"GET", "POST", "PUT", "PATCH", "DELETE"}
    /\ body.canonical /\ parseAbiSignature(body.abiSignature)
    /\ body.httpMethod \in {"GET", "DELETE"} => body.body = {}

web2JsonSchemaCommitmentV1(jq, signature) == <<jq, signature>>
web2JsonSourceCommitmentV1(source) == source

sourceFromRequestBody(body) ==
    [body |-> body, semanticTrust |-> "ATTESTED_RESPONSE_ONLY",
     schemaCommitment |-> web2JsonSchemaCommitmentV1(body.postProcessJq, body.abiSignature)]

NoFailure == "OK"

sourcePolicyFailure(source) ==
    CASE source.semanticTrust # "ATTESTED_RESPONSE_ONLY" -> "SEMANTIC_TRUST"
      [] ~ validRequestBody(source.body) -> "MALFORMED"
      [] source.schemaCommitment
             # web2JsonSchemaCommitmentV1(source.body.postProcessJq, source.body.abiSignature)
           -> "SCHEMA_MISMATCH"
      [] OTHER -> NoFailure

-----------------------------------------------------------------------------
(* A proof is [type, finalized, request, round, lowest, response].  Of       *)
(* Web2Json, the request is [code, body] and the response [time, data]; of  *)
(* the two others [transaction, asked], where asked has the source and what *)
(* was to be provided, and [block, time, status, parties, amount, data].    *)

isFresh(time, expected, time0) ==
    expected.minTimestamp <= time /\ time <= time0 /\ time0 - time <= expected.maxAgeSeconds

\* All but the type and whether the round is final.
evmInputCommitment(proof) ==
    [request |-> proof.request, round |-> proof.round, lowest |-> proof.lowest,
     response |-> proof.response]

xrplPaymentInputCommitmentV1(proof) == evmInputCommitment(proof)

web2JsonReplayCommitmentV1(proof) ==
    [source |-> web2JsonSourceCommitmentV1(sourceFromRequestBody(proof.request.body)),
     code |-> proof.request.code, response |-> proof.response]

\* It also commits to the replay commitment, which the rest determines.
web2JsonInputCommitmentV1(proof) == evmInputCommitment(proof) @@ [type |-> proof.type]

InputCommitment(kind, proof) ==
    CASE kind = "EVMTransaction" -> evmInputCommitment(proof)
      [] kind = "XRPPayment" -> xrplPaymentInputCommitmentV1(proof)
      [] kind = "Web2Json" -> web2JsonInputCommitmentV1(proof)

\* What must not be used twice, whatever round attests to it.
ReplayKey(kind, proof) ==
    IF kind = "Web2Json" THEN web2JsonReplayCommitmentV1(proof) ELSE proof.request.transaction

TransactionFailure(kind, proof, expected, matches, time0, used) ==
    CASE proof.type # kind -> "ATTESTATION_TYPE"
      [] ~ proof.finalized -> "NOT_FINALIZED"
      [] proof.round = 0 -> "MALFORMED"
      [] ReplayKey(kind, proof) \in used -> "REPLAY"
      [] proof.request # expected.request -> "REQUEST_MISMATCH"
      [] \/ proof.response.block < expected.minBlockNumber
         \/ proof.response.time # proof.lowest
         \/ ~ isFresh(proof.response.time, expected, time0) -> "STALE"
      [] ~ matches -> "RESPONSE_MISMATCH"
      [] OTHER -> NoFailure

verifyEvmTransactionTrigger(proof, expected, time0, used) ==
    TransactionFailure("EVMTransaction", proof, expected,
        /\ proof.response.status = 1
        /\ [proof.response EXCEPT !.block = 0, !.time = 0] = expected.response,
        time0, used)

verifyXrplPaymentTrigger(proof, expected, time0, used) ==
    TransactionFailure("XRPPayment", proof, expected,
        /\ proof.response.status = 0 /\ expected.response.amount > 0
        /\ [proof.response EXCEPT !.block = 0, !.time = 0] = expected.response,
        time0, used)

verifyWeb2JsonTrigger(proof, expected, time0, used) ==
    CASE proof.type # "Web2Json" -> "ATTESTATION_TYPE"
      [] ~ proof.finalized -> "NOT_FINALIZED"
      [] sourcePolicyFailure(expected.source) # NoFailure -> sourcePolicyFailure(expected.source)
      [] web2JsonSourceCommitmentV1(expected.source) \notin AllowedSource -> "NOT_ALLOWLISTED"
      [] expected.maxAgeSeconds = 0 -> "MALFORMED"
      [] proof.request # [code |-> expected.code, body |-> expected.source.body] -> "REQUEST_MISMATCH"
      [] proof.round = 0 \/ proof.lowest # NoLowest -> "MALFORMED"
      [] proof.response # expected.response -> "RESPONSE_MISMATCH"
      [] ~ isFresh(proof.response.time, expected, time0) -> "STALE"
      [] ReplayKey("Web2Json", proof) \in used -> "REPLAY"
      [] OTHER -> NoFailure

-----------------------------------------------------------------------------
VARIABLES
    checks,       \* checks[c]: where a verification is
    usedInputs,   \* usedInputs[k]: usedTransactions, usedReplayCommitments
    usedProofCommitments,   \* of each kind
    triggerTime

triggerVars == <<checks, usedInputs, usedProofCommitments, triggerTime>>

TriggerInit ==
    /\ checks = [c \in Check |-> [at |-> "ready"]]
    /\ usedInputs = [k \in Kind |-> {}] /\ usedProofCommitments = usedInputs /\ triggerTime = 0

Settled(c, result) == [at |-> "settled", result |-> result, offer |-> checks[c].offer,
                       object |-> checks[c].object, marked |-> {d \in Check : checks[d].at = "marked"}]

NoVerdict == [answer |-> "none"]

Fail(reason) == [ok |-> FALSE, reason |-> reason]

\* The part of a verify function before its await.
Verify(c, offer) ==
    LET used == usedInputs[offer.kind]
        failure ==
            CASE offer.kind = "EVMTransaction" ->
                   verifyEvmTransactionTrigger(offer.proof, offer.expected, triggerTime, used)
              [] offer.kind = "XRPPayment" ->
                   verifyXrplPaymentTrigger(offer.proof, offer.expected, triggerTime, used)
              [] offer.kind = "Web2Json" ->
                   verifyWeb2JsonTrigger(offer.proof, offer.expected, triggerTime, used)
    IN
    /\ checks[c].at = "ready"
    /\ checks' = [checks EXCEPT ![c] =
         IF failure # NoFailure
           THEN [at |-> "settled", result |-> Fail(failure), offer |-> offer,
                 object |-> offer.proof, marked |-> {}]
           ELSE [at |-> "verifying", offer |-> offer, object |-> offer.proof, changed |-> FALSE,
                 input |-> InputCommitment(offer.kind, offer.proof),
                 key |-> ReplayKey(offer.kind, offer.proof), verdict |-> NoVerdict]]
    /\ UNCHANGED <<usedInputs, usedProofCommitments, triggerTime>>

\* The verifier looks at the object, as it is now.
VerifierAnswers(c, answers) ==
    LET content == InputCommitment(checks[c].offer.kind, checks[c].object) IN
    /\ checks[c].at = "verifying"
    /\ checks' = [checks EXCEPT ![c].at = "verified",
         ![c].verdict = CASE ~ answers -> [answer |-> "throws"]
                          [] answers /\ content \in AttestedInput[checks[c].offer.kind] ->
                               [answer |-> "proved", proof |-> content]
                          [] OTHER -> [answer |-> "false"]]
    /\ UNCHANGED <<usedInputs, usedProofCommitments, triggerTime>>

verifyCryptographicProof(verdict, used) ==
    CASE verdict.answer = "throws" -> "VERIFIER_UNAVAILABLE"
      [] verdict.answer = "false" -> "PROOF_INVALID"
      [] verdict.proof \in used -> "REPLAY"
      [] OTHER -> NoFailure

\* (A mutant: what was used while the verifier was at work is not asked.)
RecheckFailure_Trusting(check) ==
    LET proved == verifyCryptographicProof(check.verdict, usedProofCommitments[check.offer.kind]) IN
    CASE proved # NoFailure -> proved
      [] \/ ~ check.object.finalized
         \/ InputCommitment(check.offer.kind, check.object) # check.input -> "MALFORMED"
      [] OTHER -> NoFailure

\* After the await: of a transaction the object says which it is, of a JSON
\* response the commitment made before.
RecheckFailure(check) ==
    LET proved == verifyCryptographicProof(check.verdict, usedProofCommitments[check.offer.kind]) IN
    CASE proved # NoFailure -> proved
      [] (IF check.offer.kind = "Web2Json" THEN check.key
          ELSE ReplayKey(check.offer.kind, check.object)) \in usedInputs[check.offer.kind] -> "REPLAY"
      [] \/ ~ check.object.finalized
         \/ check.offer.kind # "Web2Json" /\ check.object.type # check.offer.kind
         \/ InputCommitment(check.offer.kind, check.object) # check.input -> "MALFORMED"
      [] OTHER -> NoFailure

Settle(c) ==
    /\ checks[c].at = "verified"
    /\ LET failure == RecheckFailure(checks[c]) IN
       checks' = [checks EXCEPT ![c] = Settled(c,
         IF failure # NoFailure THEN Fail(failure)
         ELSE [ok |-> TRUE, inputCommitment |-> checks[c].input,
               proofCommitment |-> checks[c].verdict.proof])]
    /\ UNCHANGED <<usedInputs, usedProofCommitments, triggerTime>>

-----------------------------------------------------------------------------
(* The callers.                                                             *)

Accepted(c) == checks[c].at \in {"settled", "marked"} /\ checks[c].result.ok

Mark(c) ==
    /\ checks[c].at = "settled" /\ Accepted(c)
    /\ checks' = [checks EXCEPT ![c].at = "marked"]
    /\ LET kind == checks[c].offer.kind IN
       /\ usedInputs' = [usedInputs EXCEPT ![kind] = @ \union {ReplayKey(kind, checks[c].offer.proof)}]
       /\ usedProofCommitments' =
            [usedProofCommitments EXCEPT ![kind] = @ \union {checks[c].result.proofCommitment}]
    /\ UNCHANGED triggerTime

\* The caller writes into a proof that it gave away, once.
Rewrite(c, object) ==
    /\ checks[c].at \in {"verifying", "verified"} /\ ~ checks[c].changed
    /\ object.type \in {checks[c].offer.kind, "other"} /\ object # checks[c].object
    /\ checks' = [checks EXCEPT ![c].object = object, ![c].changed = TRUE]
    /\ UNCHANGED <<usedInputs, usedProofCommitments, triggerTime>>

TriggerTick ==
    /\ triggerTime < MaxTriggerTime
    /\ triggerTime' = triggerTime + 1
    /\ UNCHANGED <<checks, usedInputs, usedProofCommitments>>

TriggerNext ==
    \/ \E c \in Check :
          \/ \E offer \in Offer : Verify(c, offer)
          \/ \E answers \in BOOLEAN : VerifierAnswers(c, answers)
          \/ Settle(c) \/ Mark(c)
          \/ \E offer \in Offer : Rewrite(c, offer.proof)
          \/ Rewrite(c, [checks[c].object EXCEPT !.finalized = FALSE])
          \/ Rewrite(c, [checks[c].object EXCEPT !.type = "other"])
    \/ TriggerTick

-----------------------------------------------------------------------------
(* Properties.                                                              *)

\* An accepted input is what was compared with what the caller expects and
\* what the verifier attested, with nothing put in its place between the
\* two; and two verifications accept one input, or one proof, only if
\* neither caller had been told when the other was answered.
InputsAcceptedOnce ==
    \A c \in Check : Accepted(c) =>
        LET kind == checks[c].offer.kind
            result == checks[c].result
        IN
        /\ result.inputCommitment = InputCommitment(kind, checks[c].offer.proof)
        /\ result.proofCommitment = result.inputCommitment
        /\ result.inputCommitment \in AttestedInput[kind]
        /\ \A d \in {m \in checks[c].marked : checks[m].offer.kind = kind} :
             /\ checks[d].result.proofCommitment # result.proofCommitment
             /\ ReplayKey(kind, checks[d].offer.proof) # ReplayKey(kind, checks[c].offer.proof)
=============================================================================
