------------------------------ MODULE Live_proofs ------------------------------
(***************************************************************************)
(* What holds of the scripts and adapters on the live network, for every    *)
(* value of their constants: of the verifications of input triggers, for    *)
(* any callers, any proofs and any verifier that answers for the object it  *)
(* is given; of attestations, for any payments, relays and answers of the   *)
(* availability layer; of the rate windows before the relays, for any       *)
(* clients, limits and spans; of the monitor, for any retention and any     *)
(* overlap of its samples; of what is published of direct minting, for any  *)
(* changes of settings, payments, delays and audits; and of the feed, for   *)
(* any requests, blocks and order in which a collector hears of them.       *)
(***************************************************************************)
EXTENDS TriggerRun, InputTriggers, RelayFronts, Monitor, DirectMint, PublicFeed, TLAPS,
        FiniteSetTheorems, SequenceTheorems

-----------------------------------------------------------------------------
(* Input triggers.                                                          *)

KindOf(c) == checks[c].offer.kind

\* A verification in progress keeps what it compared: its input and key are
\* those of the proof it was offered, and the object is that proof until the
\* caller writes into it, which happens once.
ComparedIsKept(check) ==
    check.at \in {"verifying", "verified"} =>
        /\ DOMAIN check = {"at", "offer", "object", "changed", "input", "key", "verdict"}
        /\ check.offer \in Offer
        /\ check.changed \in BOOLEAN
        /\ check.input = InputCommitment(check.offer.kind, check.offer.proof)
        /\ check.key = ReplayKey(check.offer.kind, check.offer.proof)
        /\ ~check.changed => check.object = check.offer.proof

\* What the verifier proved is the input, or it is the object for good: the
\* one rewrite came before the answer.
ProvedIsInputOrObject(check) ==
    check.at = "verified" =>
        /\ check.verdict.answer \in {"throws", "false", "proved"}
        /\ check.verdict.answer = "proved" =>
             /\ check.verdict.proof \in AttestedInput[check.offer.kind]
             /\ \/ check.verdict.proof = check.input
                \/ /\ check.changed
                   /\ check.verdict.proof = InputCommitment(check.offer.kind, check.object)

\* What is accepted was compared and attested.
AcceptedIsCompared(check) ==
    check.at \in {"settled", "marked"} =>
        /\ DOMAIN check = {"at", "result", "offer", "object", "marked"}
        /\ check.offer \in Offer
        /\ check.result.ok =>
             /\ check.result.inputCommitment = InputCommitment(check.offer.kind, check.offer.proof)
             /\ check.result.proofCommitment = check.result.inputCommitment
             /\ check.result.inputCommitment \in AttestedInput[check.offer.kind]

CheckInv(check) ==
    /\ check.at \in {"ready", "verifying", "verified", "settled", "marked"}
    /\ ComparedIsKept(check) /\ ProvedIsInputOrObject(check) /\ AcceptedIsCompared(check)

\* What a caller has marked is in the used sets.
MarkedAreUsed ==
    \A d \in Check : checks[d].at = "marked" =>
        /\ checks[d].result.ok
        /\ checks[d].result.proofCommitment \in usedProofCommitments[KindOf(d)]
        /\ ReplayKey(KindOf(d), checks[d].offer.proof) \in usedInputs[KindOf(d)]

\* The verifications a result was told of are marked, and have used others.
ToldApart(c) ==
    Accepted(c) =>
        \A d \in checks[c].marked :
            /\ d \in Check /\ checks[d].at = "marked"
            /\ KindOf(d) = KindOf(c) =>
                 /\ checks[d].result.proofCommitment # checks[c].result.proofCommitment
                 /\ ReplayKey(KindOf(c), checks[d].offer.proof)
                      # ReplayKey(KindOf(c), checks[c].offer.proof)

TriggerInv ==
    /\ DOMAIN checks = Check
    /\ DOMAIN usedInputs = Kind /\ DOMAIN usedProofCommitments = Kind
    /\ \A c \in Check : CheckInv(checks[c]) /\ ToldApart(c)
    /\ MarkedAreUsed

-----------------------------------------------------------------------------

\* A step of one verification that does not mark it leaves the others as they
\* are, and them apart.
LEMMA OthersStay ==
    ASSUME TriggerInv, NEW c \in Check, checks[c].at # "marked",
           DOMAIN checks' = Check, \A d \in Check \ {c} : checks'[d] = checks[d],
           CheckInv(checks'[c]), checks'[c].at # "marked", ToldApart(c)',
           UNCHANGED <<usedInputs, usedProofCommitments>>
    PROVE  TriggerInv'
<1>1. \A d \in Check : checks[d].at = "marked" => d # c /\ checks'[d] = checks[d]
  OBVIOUS
<1>2. \A d \in Check : CheckInv(checks'[d])
  BY DEF TriggerInv
<1>3. ASSUME NEW d \in Check
      PROVE  ToldApart(d)'
  <2>1. CASE d = c  BY <2>1
  <2>2. CASE d # c
    <3>1. checks'[d] = checks[d]  BY <2>2
    <3>2. ToldApart(d)  BY DEF TriggerInv
    <3> QED  BY <3>1, <3>2, <1>1 DEF ToldApart, Accepted, KindOf
  <2> QED  BY <2>1, <2>2
<1>4. MarkedAreUsed'
  BY <1>1 DEF TriggerInv, MarkedAreUsed, KindOf
<1> QED  BY <1>2, <1>3, <1>4 DEF TriggerInv

LEMMA TriggerStarts == TriggerInit => TriggerInv
BY DEF TriggerInit, TriggerInv, CheckInv, ComparedIsKept, ProvedIsInputOrObject,
       AcceptedIsCompared, ToldApart, Accepted, MarkedAreUsed, KindOf

LEMMA VerifyKeeps ==
    ASSUME TriggerInv, NEW c \in Check, NEW offer \in Offer, Verify(c, offer)
    PROVE  TriggerInv'
<1>1. DOMAIN checks = Check  BY DEF TriggerInv
<1>2. CASE \E reason : checks' = [checks EXCEPT ![c] =
              [at |-> "settled", result |-> Fail(reason), offer |-> offer,
               object |-> offer.proof, marked |-> {}]]
  <2>1. PICK reason : checks' = [checks EXCEPT ![c] =
              [at |-> "settled", result |-> Fail(reason), offer |-> offer,
               object |-> offer.proof, marked |-> {}]]
    BY <1>2
  <2>2. /\ DOMAIN checks' = Check /\ \A d \in Check \ {c} : checks'[d] = checks[d]
        /\ checks'[c] = [at |-> "settled", result |-> Fail(reason), offer |-> offer,
                         object |-> offer.proof, marked |-> {}]
    BY <1>1, <2>1
  <2>3. CheckInv(checks'[c])
    BY <2>2 DEF CheckInv, ComparedIsKept, ProvedIsInputOrObject, AcceptedIsCompared, Fail
  <2>4. ToldApart(c)'
    BY <2>2 DEF ToldApart, Accepted, Fail
  <2> QED  BY <2>2, <2>3, <2>4, OthersStay DEF Verify
<1>3. CASE checks' = [checks EXCEPT ![c] =
              [at |-> "verifying", offer |-> offer, object |-> offer.proof, changed |-> FALSE,
               input |-> InputCommitment(offer.kind, offer.proof),
               key |-> ReplayKey(offer.kind, offer.proof), verdict |-> NoVerdict]]
  <2>1. /\ DOMAIN checks' = Check /\ \A d \in Check \ {c} : checks'[d] = checks[d]
        /\ checks'[c] = [at |-> "verifying", offer |-> offer, object |-> offer.proof,
                         changed |-> FALSE,
                         input |-> InputCommitment(offer.kind, offer.proof),
                         key |-> ReplayKey(offer.kind, offer.proof), verdict |-> NoVerdict]
    BY <1>1, <1>3
  <2>2. CheckInv(checks'[c])
    BY <2>1 DEF CheckInv, ComparedIsKept, ProvedIsInputOrObject, AcceptedIsCompared
  <2>3. ToldApart(c)'
    BY <2>1 DEF ToldApart, Accepted
  <2> QED  BY <2>1, <2>2, <2>3, OthersStay DEF Verify
<1> QED  BY <1>2, <1>3 DEF Verify

LEMMA VerifierAnswersKeeps ==
    ASSUME TriggerInv, NEW c \in Check, NEW answers \in BOOLEAN, VerifierAnswers(c, answers)
    PROVE  TriggerInv'
<1> DEFINE content == InputCommitment(checks[c].offer.kind, checks[c].object)
           verdict == CASE ~answers -> [answer |-> "throws"]
                        [] answers /\ content \in AttestedInput[checks[c].offer.kind] ->
                             [answer |-> "proved", proof |-> content]
                        [] OTHER -> [answer |-> "false"]
<1>1. DOMAIN checks = Check /\ CheckInv(checks[c]) /\ checks[c].at = "verifying"
  BY DEF TriggerInv, VerifierAnswers
<1>2. /\ verdict.answer \in {"throws", "false", "proved"}
      /\ verdict.answer = "proved" =>
           verdict.proof = content /\ content \in AttestedInput[checks[c].offer.kind]
  <2> HIDE DEF content
  <2>1. CASE ~answers  BY <2>1
  <2>2. CASE answers /\ content \in AttestedInput[checks[c].offer.kind]  BY <2>2
  <2>3. CASE answers /\ content \notin AttestedInput[checks[c].offer.kind]  BY <2>3
  <2> QED  BY <2>1, <2>2, <2>3
<1>3. checks' = [checks EXCEPT ![c].at = "verified", ![c].verdict = verdict]
  BY DEF VerifierAnswers
<1> HIDE DEF verdict, content
<1>4. /\ DOMAIN checks' = Check /\ \A d \in Check \ {c} : checks'[d] = checks[d]
      /\ checks'[c] = [[checks[c] EXCEPT !.at = "verified"] EXCEPT !.verdict = verdict]
  BY <1>1, <1>3
<1>5. /\ checks'[c].at = "verified" /\ checks'[c].verdict = verdict
      /\ checks'[c].offer = checks[c].offer /\ checks'[c].object = checks[c].object
      /\ checks'[c].changed = checks[c].changed /\ checks'[c].input = checks[c].input
      /\ checks'[c].key = checks[c].key /\ DOMAIN checks'[c] = DOMAIN checks[c]
  BY <1>1, <1>4 DEF CheckInv, ComparedIsKept
<1>6. CheckInv(checks'[c])
  <2>1. ComparedIsKept(checks'[c]) /\ AcceptedIsCompared(checks'[c])
    BY <1>1, <1>5 DEF CheckInv, ComparedIsKept, AcceptedIsCompared
  <2>2. ProvedIsInputOrObject(checks'[c])
    BY <1>1, <1>2, <1>5 DEF CheckInv, ComparedIsKept, ProvedIsInputOrObject, content
  <2> QED  BY <1>5, <2>1, <2>2 DEF CheckInv
<1>7. ToldApart(c)'
  BY <1>5 DEF ToldApart, Accepted
<1> QED  BY <1>1, <1>4, <1>5, <1>6, <1>7, OthersStay DEF VerifierAnswers

\* What the check after the await lets through.
LEMMA RecheckIsComplete ==
    ASSUME NEW check, CheckInv(check), check.at = "verified", RecheckFailure(check) = NoFailure
    PROVE  LET kind == check.offer.kind IN
           /\ check.verdict.proof = check.input
           /\ check.input = InputCommitment(kind, check.offer.proof)
           /\ check.input \in AttestedInput[kind]
           /\ check.verdict.proof \notin usedProofCommitments[kind]
           /\ ReplayKey(kind, check.offer.proof) \notin usedInputs[kind]
<1> DEFINE kind == check.offer.kind
           proved == verifyCryptographicProof(check.verdict, usedProofCommitments[kind])
           key == IF kind = "Web2Json" THEN check.key ELSE ReplayKey(kind, check.object)
<1>1. check.verdict.answer \in {"throws", "false", "proved"}
  BY DEF CheckInv, ProvedIsInputOrObject
<1>2. proved = NoFailure
  BY DEF RecheckFailure, NoFailure
<1>3. check.verdict.answer = "proved" /\ check.verdict.proof \notin usedProofCommitments[kind]
  BY <1>1, <1>2 DEF verifyCryptographicProof, NoFailure
<1>4. key \notin usedInputs[kind] /\ InputCommitment(kind, check.object) = check.input
  BY <1>2 DEF RecheckFailure, NoFailure
<1>5. kind \in Kind
  BY TriggerAssumption DEF CheckInv, ComparedIsKept
<1>6. check.input = InputCommitment(kind, check.offer.proof)
      /\ check.key = ReplayKey(kind, check.offer.proof)
  BY DEF CheckInv, ComparedIsKept
<1>7. key = ReplayKey(kind, check.offer.proof)
  <2>1. CASE kind = "Web2Json"  BY <1>6, <2>1
  <2>2. CASE kind # "Web2Json"
    <3>1. evmInputCommitment(check.object) = evmInputCommitment(check.offer.proof)
      BY <1>4, <1>5, <1>6, <2>2 DEF InputCommitment, xrplPaymentInputCommitmentV1, Kind
    <3>2. check.object.request = check.offer.proof.request
      BY <3>1 DEF evmInputCommitment
    <3> QED  BY <2>2, <3>2 DEF ReplayKey
  <2> QED  BY <2>1, <2>2
<1> QED  BY <1>3, <1>4, <1>6, <1>7 DEF CheckInv, ProvedIsInputOrObject

LEMMA SettleKeeps ==
    ASSUME TriggerInv, NEW c \in Check, Settle(c)
    PROVE  TriggerInv'
<1>1. DOMAIN checks = Check /\ CheckInv(checks[c]) /\ checks[c].at = "verified"
  BY DEF TriggerInv, Settle
<1>7. UNCHANGED <<usedInputs, usedProofCommitments>>
  BY DEF Settle
<1>2. PICK result :
        /\ checks' = [checks EXCEPT ![c] = Settled(c, result)]
        /\ \/ ~result.ok
           \/ /\ RecheckFailure(checks[c]) = NoFailure
              /\ result = [ok |-> TRUE, inputCommitment |-> checks[c].input,
                           proofCommitment |-> checks[c].verdict.proof]
  <2> DEFINE failure == RecheckFailure(checks[c])
             answer == IF failure # NoFailure THEN Fail(failure)
                       ELSE [ok |-> TRUE, inputCommitment |-> checks[c].input,
                             proofCommitment |-> checks[c].verdict.proof]
  <2>1. checks' = [checks EXCEPT ![c] = Settled(c, answer)]
    BY DEF Settle
  <2>2. \/ ~answer.ok
        \/ /\ failure = NoFailure
           /\ answer = [ok |-> TRUE, inputCommitment |-> checks[c].input,
                        proofCommitment |-> checks[c].verdict.proof]
    <3> HIDE DEF failure
    <3> QED  BY DEF Fail
  <2> HIDE DEF answer
  <2> WITNESS answer
  <2> QED  BY <2>1, <2>2
<1>3. /\ DOMAIN checks' = Check /\ \A d \in Check \ {c} : checks'[d] = checks[d]
      /\ checks'[c] = [at |-> "settled", result |-> result, offer |-> checks[c].offer,
                       object |-> checks[c].object,
                       marked |-> {d \in Check : checks[d].at = "marked"}]
  BY <1>1, <1>2 DEF Settled
<1>8. /\ checks[c].at # "marked" /\ checks'[c].at # "marked"
      /\ DOMAIN checks' = Check /\ \A d \in Check \ {c} : checks'[d] = checks[d]
  BY <1>1, <1>3
<1>4. checks[c].offer \in Offer
  BY <1>1 DEF CheckInv, ComparedIsKept
<1>5. CASE ~result.ok
  <2>1. CheckInv(checks'[c])
    BY <1>3, <1>4, <1>5 DEF CheckInv, ComparedIsKept, ProvedIsInputOrObject, AcceptedIsCompared
  <2>2. ToldApart(c)'
    BY <1>3, <1>5 DEF ToldApart, Accepted
  <2> QED  BY <1>7, <1>8, <2>1, <2>2, OthersStay
<1>6. CASE /\ RecheckFailure(checks[c]) = NoFailure
           /\ result = [ok |-> TRUE, inputCommitment |-> checks[c].input,
                        proofCommitment |-> checks[c].verdict.proof]
  <2> DEFINE kind == checks[c].offer.kind
  <2>1. /\ checks[c].verdict.proof = checks[c].input
        /\ checks[c].input = InputCommitment(kind, checks[c].offer.proof)
        /\ checks[c].input \in AttestedInput[kind]
        /\ checks[c].verdict.proof \notin usedProofCommitments[kind]
        /\ ReplayKey(kind, checks[c].offer.proof) \notin usedInputs[kind]
    BY <1>1, <1>6, RecheckIsComplete
  <2>2. CheckInv(checks'[c])
    BY <1>3, <1>4, <1>6, <2>1
       DEF CheckInv, ComparedIsKept, ProvedIsInputOrObject, AcceptedIsCompared
  <2>3. ToldApart(c)'
    <3>1. SUFFICES ASSUME NEW d \in Check, checks[d].at = "marked"
                   PROVE  /\ checks'[d] = checks[d]
                          /\ KindOf(d) = kind =>
                               /\ checks[d].result.proofCommitment # checks[c].verdict.proof
                               /\ ReplayKey(kind, checks[d].offer.proof)
                                    # ReplayKey(kind, checks[c].offer.proof)
      BY <1>3, <1>6 DEF ToldApart, KindOf
    <3>2. checks'[d] = checks[d]  BY <1>1, <1>3, <3>1
    <3>3. /\ checks[d].result.proofCommitment \in usedProofCommitments[KindOf(d)]
          /\ ReplayKey(KindOf(d), checks[d].offer.proof) \in usedInputs[KindOf(d)]
      BY <3>1 DEF TriggerInv, MarkedAreUsed
    <3> QED  BY <2>1, <3>2, <3>3
  <2> QED  BY <1>7, <1>8, <2>2, <2>3, OthersStay
<1> QED  BY <1>2, <1>5, <1>6

LEMMA MarkKeeps ==
    ASSUME TriggerInv, NEW c \in Check, Mark(c)
    PROVE  TriggerInv'
<1> DEFINE kind == checks[c].offer.kind
<1>1. /\ DOMAIN checks = Check /\ CheckInv(checks[c]) /\ checks[c].at = "settled"
      /\ checks[c].result.ok
  BY DEF TriggerInv, Mark, Accepted
<1>2. /\ DOMAIN checks' = Check /\ \A d \in Check \ {c} : checks'[d] = checks[d]
      /\ checks'[c] = [checks[c] EXCEPT !.at = "marked"]
  BY <1>1 DEF Mark
<1>3. /\ checks'[c].at = "marked" /\ checks'[c].result = checks[c].result
      /\ checks'[c].offer = checks[c].offer /\ checks'[c].marked = checks[c].marked
      /\ DOMAIN checks'[c] = DOMAIN checks[c]
  BY <1>1, <1>2 DEF CheckInv, AcceptedIsCompared
<1>4. checks[c].offer \in Offer /\ kind \in Kind
  BY <1>1, TriggerAssumption DEF CheckInv, AcceptedIsCompared
<1>5. \A d \in Check : /\ CheckInv(checks'[d])
                       /\ checks[d].at = "marked" => checks'[d] = checks[d]
                       /\ Accepted(d)' => Accepted(d)
                       /\ checks'[d].at # "ready" => checks'[d].offer = checks[d].offer
                       /\ Accepted(d) => checks'[d].result = checks[d].result
                                         /\ checks'[d].marked = checks[d].marked
  <2>1. CheckInv(checks'[c])
    BY <1>1, <1>3 DEF CheckInv, ComparedIsKept, ProvedIsInputOrObject, AcceptedIsCompared
  <2> QED  BY <1>1, <1>2, <1>3, <2>1 DEF TriggerInv, Accepted
<1>6. \A d \in Check : ToldApart(d)'
  <2>1. SUFFICES ASSUME NEW d \in Check, Accepted(d)', NEW m \in checks'[d].marked
                 PROVE  /\ m \in Check /\ checks'[m].at = "marked"
                        /\ checks'[m].offer.kind = checks'[d].offer.kind =>
                             /\ checks'[m].result.proofCommitment # checks'[d].result.proofCommitment
                             /\ ReplayKey(checks'[d].offer.kind, checks'[m].offer.proof)
                                  # ReplayKey(checks'[d].offer.kind, checks'[d].offer.proof)
    BY DEF ToldApart, KindOf
  <2>2. Accepted(d) /\ m \in checks[d].marked /\ checks'[d].offer = checks[d].offer
        /\ checks'[d].result = checks[d].result
    BY <1>5, <2>1 DEF Accepted
  <2>3. ToldApart(d)  BY DEF TriggerInv
  <2>4. m \in Check /\ checks[m].at = "marked"  BY <2>2, <2>3 DEF ToldApart
  <2> QED  BY <1>5, <2>2, <2>3, <2>4 DEF ToldApart, KindOf
<1>7. MarkedAreUsed'
  <2>1. /\ DOMAIN usedInputs = Kind /\ DOMAIN usedProofCommitments = Kind
        /\ usedInputs' = [usedInputs EXCEPT ![kind] = @ \union {ReplayKey(kind, checks[c].offer.proof)}]
        /\ usedProofCommitments' =
             [usedProofCommitments EXCEPT ![kind] = @ \union {checks[c].result.proofCommitment}]
    BY DEF TriggerInv, Mark
  <2>2. /\ \A k \in Kind : usedInputs[k] \subseteq usedInputs'[k]
                           /\ usedProofCommitments[k] \subseteq usedProofCommitments'[k]
        /\ ReplayKey(kind, checks[c].offer.proof) \in usedInputs'[kind]
        /\ checks[c].result.proofCommitment \in usedProofCommitments'[kind]
    BY <1>4, <2>1
  <2>3. ASSUME NEW d \in Check, checks'[d].at = "marked"
        PROVE  /\ checks'[d].result.ok
               /\ checks'[d].result.proofCommitment \in usedProofCommitments'[checks'[d].offer.kind]
               /\ ReplayKey(checks'[d].offer.kind, checks'[d].offer.proof)
                    \in usedInputs'[checks'[d].offer.kind]
    <3>1. CASE d = c  BY <1>1, <1>3, <2>2, <3>1
    <3>2. CASE d # c
      <4>1. checks'[d] = checks[d]  BY <1>2, <3>2
      <4>2. checks[d].offer.kind \in Kind
        BY <2>3, <4>1, TriggerAssumption DEF TriggerInv, CheckInv, AcceptedIsCompared
      <4> QED  BY <2>2, <2>3, <4>1, <4>2 DEF TriggerInv, MarkedAreUsed, KindOf
    <3> QED  BY <3>1, <3>2
  <2> QED  BY <2>3 DEF MarkedAreUsed, KindOf
<1>8. DOMAIN usedInputs' = Kind /\ DOMAIN usedProofCommitments' = Kind
  BY DEF TriggerInv, Mark
<1> QED  BY <1>2, <1>5, <1>6, <1>7, <1>8 DEF TriggerInv

LEMMA RewriteKeeps ==
    ASSUME TriggerInv, NEW c \in Check, NEW object, Rewrite(c, object)
    PROVE  TriggerInv'
<1>1. /\ DOMAIN checks = Check /\ CheckInv(checks[c])
      /\ checks[c].at \in {"verifying", "verified"} /\ ~checks[c].changed
      /\ checks' = [checks EXCEPT ![c].object = object, ![c].changed = TRUE]
  BY DEF TriggerInv, Rewrite
<1>2. /\ DOMAIN checks' = Check /\ \A d \in Check \ {c} : checks'[d] = checks[d]
      /\ checks'[c] = [[checks[c] EXCEPT !.object = object] EXCEPT !.changed = TRUE]
  BY <1>1
<1>3. /\ checks'[c].at = checks[c].at /\ checks'[c].verdict = checks[c].verdict
      /\ checks'[c].offer = checks[c].offer /\ checks'[c].changed = TRUE
      /\ checks'[c].input = checks[c].input
      /\ checks'[c].key = checks[c].key /\ DOMAIN checks'[c] = DOMAIN checks[c]
  BY <1>1, <1>2 DEF CheckInv, ComparedIsKept
<1>4. CheckInv(checks'[c])
  <2>1. ComparedIsKept(checks'[c]) /\ AcceptedIsCompared(checks'[c])
    BY <1>1, <1>3 DEF CheckInv, ComparedIsKept, AcceptedIsCompared
  <2>2. ProvedIsInputOrObject(checks'[c])
    BY <1>1, <1>3 DEF CheckInv, ProvedIsInputOrObject
  <2> QED  BY <1>1, <1>3, <2>1, <2>2 DEF CheckInv
<1>5. ToldApart(c)'
  BY <1>1, <1>3 DEF ToldApart, Accepted
<1> QED  BY <1>1, <1>2, <1>3, <1>4, <1>5, OthersStay DEF Rewrite

LEMMA TriggerStepKeeps == TriggerInv /\ [TriggerNext]_triggerVars => TriggerInv'
<1> SUFFICES ASSUME TriggerInv, [TriggerNext]_triggerVars PROVE TriggerInv'
  OBVIOUS
<1>1. ASSUME NEW c \in Check, NEW offer \in Offer, Verify(c, offer) PROVE TriggerInv'
  BY <1>1, VerifyKeeps
<1>2. ASSUME NEW c \in Check, NEW answers \in BOOLEAN, VerifierAnswers(c, answers) PROVE TriggerInv'
  BY <1>2, VerifierAnswersKeeps
<1>3. ASSUME NEW c \in Check, Settle(c) PROVE TriggerInv'
  BY <1>3, SettleKeeps
<1>4. ASSUME NEW c \in Check, Mark(c) PROVE TriggerInv'
  BY <1>4, MarkKeeps
<1>5. ASSUME NEW c \in Check, NEW object, Rewrite(c, object) PROVE TriggerInv'
  BY <1>5, RewriteKeeps
<1>6. CASE TriggerTick \/ UNCHANGED triggerVars
  BY <1>6 DEF TriggerTick, triggerVars, TriggerInv, MarkedAreUsed, ToldApart, Accepted, KindOf
<1> QED  BY <1>1, <1>2, <1>3, <1>4, <1>5, <1>6 DEF TriggerNext

\* The invariant says what the property says, about every accepted input.
LEMMA TriggerInvSuffices == TriggerInv => InputsAcceptedOnce
BY DEF TriggerInv, InputsAcceptedOnce, CheckInv, AcceptedIsCompared, ToldApart, Accepted, KindOf

\* The verify functions of triggers.ts and web2-json-trigger.ts accept what was
\* offered, compared and attested, although the caller holds the proof during
\* the await, and never one input or proof a second time once a caller was told.
THEOREM TriggersAcceptOnce ==
    TriggerInit /\ [][TriggerNext]_triggerVars => []InputsAcceptedOnce
<1>1. TriggerInit => TriggerInv  BY TriggerStarts
<1>2. TriggerInv /\ [TriggerNext]_triggerVars => TriggerInv'  BY TriggerStepKeeps
<1>3. TriggerInv => InputsAcceptedOnce  BY TriggerInvSuffices
<1> QED  BY <1>1, <1>2, <1>3, PTL

-----------------------------------------------------------------------------
(* Attestations.                                                            *)

\* A root that a relay holds is the one of its round, which is over: nothing
\* is asked for in it any more, so that all relays hold the same.
RootsAreOfRounds ==
    \A r \in FdcRelay, n \in Round :
        roots[r][n] # NoRoot => roots[r][n] = Attested(n) /\ n < RoundOf(now)

ConnectorInv ==
    /\ now \in 0..MaxTime /\ used \in FdcRelay /\ named \in FdcRelay
    /\ DOMAIN roots = FdcRelay /\ \A r \in FdcRelay : DOMAIN roots[r] = Round
    /\ \A q \in requested : q.time \in 0..now /\ q.transaction \in validated
    /\ RootsAreOfRounds

\* The steps of the connector and its surroundings, whoever takes them.
ConnectorSteps ==
    \/ \E t \in Transaction : Validate(t) \/ \E owner \in Owner : RequestAttestation(t, owner)
    \/ \E relay \in FdcRelay : ReplaceRelay(relay) \/ \E round \in Round : FinalizeRound(relay, round)
    \/ Tick
    \/ UNCHANGED connectorVars

\* What they never take back.
ConnectorGrows ==
    /\ validated \subseteq validated' /\ requested \subseteq requested' /\ now <= now'
    /\ \A r \in FdcRelay, n \in Round : roots[r][n].finalized => roots'[r][n] = roots[r][n]

\* A root that was read as final is still the one that the relay holds.
RootIsHeld(finality) ==
    /\ finality.relay \in FdcRelay /\ finality.round \in Round
    /\ finality.root.finalized /\ finality.root = roots[finality.relay][finality.round]

\* Where a call of the adapters is, and what it has read by then.
FlowInv(flow) ==
    /\ flow.at \in {"ready", "failed"} \/ DOMAIN flow = {"at", "givenRelay", "request", "receipt",
            "expectedOwner", "round", "finality", "response"}
    /\ flow.at \in {"fee", "round", "relay", "finality", "proof"} => flow.receipt.time \in 0..MaxTime
    /\ flow.at \in {"relay", "finality", "proof"} => flow.round \in Round
    /\ flow.at \in {"finality", "proof"} => flow.finality.relay \in FdcRelay
    /\ flow.at = "proof" => /\ flow.finality.round = flow.round
                            /\ flow.finality.relay = flow.givenRelay
                            /\ flow.finality.root.finalized => RootIsHeld(flow.finality)
    /\ flow.at \in {"verifying", "prepared"} =>
         /\ RootIsHeld(flow.finality) /\ flow.finality.relay = flow.givenRelay
         /\ flow.finality.round = flow.round
         /\ flow.response \in Response
         /\ Binds(flow.response, flow.request, flow.round)
         /\ Presentable(flow.response, flow.finality, flow.expectedOwner)
    /\ flow.at = "prepared" => flow.response \in flow.finality.root.leaves

FlowsInv ==
    /\ DOMAIN preparations = Preparation
    /\ \A c \in Preparation : FlowInv(preparations[c])

-----------------------------------------------------------------------------

LEMMA DivIsMonotone ==
    ASSUME NEW a \in Nat, NEW b \in Nat, a <= b
    PROVE  /\ a \div RoundLength \in Nat
           /\ a \div RoundLength <= b \div RoundLength
<1> DEFINE p == a \div RoundLength
           q == b \div RoundLength
<1>1. RoundLength \in Nat /\ RoundLength > 0  BY FdcAssumption
<1>2. /\ p \in Int /\ a = RoundLength * p + (a % RoundLength) /\ a % RoundLength \in 0..(RoundLength - 1)
      /\ q \in Int /\ b = RoundLength * q + (b % RoundLength) /\ b % RoundLength \in 0..(RoundLength - 1)
  BY <1>1
<1>3. RoundLength * p <= a /\ b < RoundLength * (q + 1) /\ a < RoundLength * (p + 1)
  BY <1>1, <1>2
<1> HIDE DEF p, q
<1>4. p >= 0
  <2>1. SUFFICES ASSUME p + 1 <= 0 PROVE FALSE  BY <1>2
  <2>2. RoundLength * (p + 1) <= 0  BY <1>1, <1>2, <2>1
  <2> QED  BY <1>1, <1>2, <1>3, <2>2
<1>5. p <= q
  <2>1. SUFFICES ASSUME q + 1 <= p PROVE FALSE  BY <1>2
  <2>2. RoundLength * (q + 1) <= RoundLength * p  BY <1>1, <1>2, <2>1
  <2> QED  BY <1>1, <1>2, <1>3, <2>2
<1> QED  BY <1>2, <1>4, <1>5 DEF p, q

LEMMA RoundsAreMonotone ==
    ASSUME NEW a \in Nat, NEW b \in Nat, a <= b
    PROVE  RoundOf(a) \in Nat \ {0} /\ RoundOf(a) <= RoundOf(b) /\ RoundOf(b) \in Nat
BY DivIsMonotone, DivIsMonotone DEF RoundOf

LEMMA RoundsAreRounds ==
    ASSUME NEW time \in 0..MaxTime
    PROVE  RoundOf(time) \in Round
BY RoundsAreMonotone, FdcAssumption DEF Round

\* A finalized root is the one of its round, and its leaves are payments that
\* were made.
LEMMA FinalizedIsAttested ==
    ASSUME ConnectorInv, NEW r \in FdcRelay, NEW n \in Round, roots[r][n].finalized
    PROVE  /\ roots[r][n] = Attested(n)
           /\ \A leaf \in roots[r][n].leaves :
                leaf.transaction \in validated /\ leaf.payment = PaymentOf[leaf.transaction]
<1>1. roots[r][n] = Attested(n)
  BY DEF ConnectorInv, RootsAreOfRounds, NoRoot
<1>2. \A leaf \in Attested(n).leaves :
        leaf.transaction \in validated /\ leaf.payment = PaymentOf[leaf.transaction]
  BY DEF Attested, ConnectorInv
<1> QED  BY <1>1, <1>2

\* Another relay's root of the same round is the same root.
LEMMA RelaysAgree ==
    ASSUME ConnectorInv, NEW r \in FdcRelay, NEW s \in FdcRelay, NEW n \in Round,
           roots[r][n].finalized, roots[s][n].finalized
    PROVE  roots[r][n] = roots[s][n]
BY FinalizedIsAttested

LEMMA ConnectorStarts == FdcInit => ConnectorInv
BY FdcAssumption DEF FdcInit, ConnectorInv, RootsAreOfRounds, NoRoot

LEMMA ConnectorKeeps ==
    ASSUME ConnectorInv, ConnectorSteps
    PROVE  ConnectorInv' /\ ConnectorGrows
<1>7. now \in Nat /\ MaxTime \in Nat
  BY FdcAssumption DEF ConnectorInv
<1>1. ASSUME NEW t \in Transaction, Validate(t)
      PROVE  ConnectorInv' /\ ConnectorGrows
  BY <1>1, <1>7 DEF Validate, ConnectorInv, ConnectorGrows, RootsAreOfRounds, Attested
<1>2. ASSUME NEW t \in Transaction, NEW owner \in Owner, RequestAttestation(t, owner)
      PROVE  ConnectorInv' /\ ConnectorGrows
  <2>1. \A n \in Nat : n < RoundOf(now) => Attested(n)' = Attested(n)
    <3>1. ASSUME NEW n \in Nat, n < RoundOf(now)
          PROVE  {p \in requested' : RoundOf(p.time) = n} = {p \in requested : RoundOf(p.time) = n}
      <4>1. RoundOf(now) # n  BY <1>7, <3>1, RoundsAreMonotone
      <4> QED  BY <1>2, <4>1 DEF RequestAttestation
    <3> QED  BY <3>1 DEF Attested
  <2>2. RootsAreOfRounds'
    BY <1>2, <2>1 DEF RequestAttestation, ConnectorInv, RootsAreOfRounds, Round
  <2> QED  BY <1>2, <1>7, <2>2 DEF RequestAttestation, ConnectorInv, ConnectorGrows
<1>3. ASSUME NEW relay \in FdcRelay, ReplaceRelay(relay)
      PROVE  ConnectorInv' /\ ConnectorGrows
  BY <1>3, <1>7 DEF ReplaceRelay, ConnectorInv, ConnectorGrows, RootsAreOfRounds, Attested
<1>4. ASSUME NEW relay \in FdcRelay, NEW round \in Round, FinalizeRound(relay, round)
      PROVE  ConnectorInv' /\ ConnectorGrows
  <2>1. /\ DOMAIN roots = FdcRelay /\ \A r \in FdcRelay : DOMAIN roots[r] = Round
        /\ roots' = [roots EXCEPT ![relay][round] = Attested(round)]
        /\ \A n \in Round : Attested(n)' = Attested(n)
    BY <1>4 DEF FinalizeRound, ConnectorInv, Attested
  <2>2. /\ DOMAIN roots' = FdcRelay /\ \A r \in FdcRelay : DOMAIN roots'[r] = Round
        /\ roots'[relay][round] = Attested(round)
        /\ \A r \in FdcRelay, n \in Round : r # relay \/ n # round => roots'[r][n] = roots[r][n]
    <3> HIDE DEF Attested
    <3> QED  BY <2>1
  <2>3. RootsAreOfRounds'
    BY <1>4, <2>1, <2>2 DEF FinalizeRound, ConnectorInv, RootsAreOfRounds
  <2>4. ConnectorGrows
    BY <1>4, <1>7, <2>2 DEF FinalizeRound, ConnectorGrows, NoRoot
  <2> QED  BY <1>4, <2>2, <2>3, <2>4 DEF FinalizeRound, ConnectorInv
<1>5. CASE Tick
  <2>1. now' \in Nat /\ now <= now' /\ now' \in 0..MaxTime  BY <1>5, <1>7 DEF Tick
  <2>2. RoundOf(now) <= RoundOf(now') /\ RoundOf(now) \in Nat /\ RoundOf(now') \in Nat
    BY <1>7, <2>1, RoundsAreMonotone
  <2>3. RootsAreOfRounds'
    BY <1>5, <2>2 DEF Tick, ConnectorInv, RootsAreOfRounds, Attested, Round
  <2> QED  BY <1>5, <1>7, <2>1, <2>3 DEF Tick, ConnectorInv, ConnectorGrows
<1>6. CASE UNCHANGED connectorVars
  BY <1>6, <1>7 DEF connectorVars, ConnectorInv, ConnectorGrows, RootsAreOfRounds, Attested
<1> QED  BY <1>1, <1>2, <1>3, <1>4, <1>5, <1>6 DEF ConnectorSteps

-----------------------------------------------------------------------------

LEMMA HeldRootsStay ==
    ASSUME ConnectorInv, ConnectorGrows, NEW finality, RootIsHeld(finality)
    PROVE  RootIsHeld(finality)'
BY DEF RootIsHeld, ConnectorGrows

LEMMA FlowStays ==
    ASSUME ConnectorInv, ConnectorGrows, NEW flow, FlowInv(flow)
    PROVE  FlowInv(flow)'
<1>1. RootIsHeld(flow.finality) => RootIsHeld(flow.finality)'
  BY HeldRootsStay
<1>2. Binds(flow.response, flow.request, flow.round)'
        = Binds(flow.response, flow.request, flow.round)
  BY DEF Binds
<1>3. Presentable(flow.response, flow.finality, flow.expectedOwner)'
        = Presentable(flow.response, flow.finality, flow.expectedOwner)
  BY DEF Presentable, Finalized
<1> QED  BY <1>1, <1>2, <1>3 DEF FlowInv

\* A step of one call leaves the others, and the connector, as they are.
LEMMA OneFlowMoves ==
    ASSUME FlowsInv, ConnectorInv, NEW c \in Preparation, NEW flow,
           preparations' = [preparations EXCEPT ![c] = flow],
           FlowInv(flow), UNCHANGED connectorVars
    PROVE  FlowsInv'
<1>1. ConnectorGrows  BY ConnectorKeeps DEF ConnectorSteps
<1>2. DOMAIN preparations = Preparation
  BY DEF FlowsInv
<1>3. DOMAIN preparations' = Preparation
      /\ \A d \in Preparation : preparations'[d] = (IF d = c THEN flow ELSE preparations[d])
  BY <1>2
<1>4. \A f : FlowInv(f) => FlowInv(f)'
  BY <1>1, FlowStays
<1>5. \A d \in Preparation : FlowInv(preparations[d])
  BY DEF FlowsInv
<1>6. ASSUME NEW d \in Preparation PROVE FlowInv(preparations[d])'
  <2>1. PICK f : f = (IF d = c THEN flow ELSE preparations[d])  OBVIOUS
  <2>2. FlowInv(f)'  BY <1>4, <1>5, <2>1
  <2>3. preparations'[d] = f  BY <1>3, <2>1
  <2> QED  BY <2>2, <2>3 DEF FlowInv, RootIsHeld, Binds, Presentable, Finalized
<1> QED  BY <1>3, <1>6 DEF FlowsInv

LEMMA FlowStarts ==
    ASSUME FlowsInv, ConnectorInv, NEW c \in Preparation, NEW relay \in FdcRelay, NEW request,
           NEW receipt \in requested, NEW expectedOwner,
           prepareCoston2FdcFundingFlow(c, relay, request, receipt, expectedOwner)
    PROVE  FlowsInv'
<1> DEFINE flow == [at |-> "fee", givenRelay |-> relay, request |-> request, receipt |-> receipt,
                    expectedOwner |-> expectedOwner, round |-> 0, finality |-> NoRoot,
                    response |-> NoRoot]
<1>1. receipt.time \in 0..MaxTime
  BY FdcAssumption DEF ConnectorInv
<1>2. FlowInv(flow)
  BY <1>1 DEF FlowInv
<1>3. preparations' = [preparations EXCEPT ![c] = flow] /\ UNCHANGED connectorVars
  BY DEF prepareCoston2FdcFundingFlow
<1> HIDE DEF flow
<1> QED  BY <1>2, <1>3, OneFlowMoves

\* What one step of a call needs: the record it leaves satisfies the invariant.
LEMMA FlowGoesOn ==
    ASSUME FlowsInv, ConnectorInv, NEW c \in Preparation, NEW from, NEW to, NEW flow,
           FlowStep(c, from, to, flow),
           DOMAIN flow = {"at", "givenRelay", "request", "receipt",
                          "expectedOwner", "round", "finality", "response"},
           \A next : /\ DOMAIN next = DOMAIN flow /\ next.at = to
                     /\ next.givenRelay = flow.givenRelay /\ next.request = flow.request
                     /\ next.receipt = flow.receipt /\ next.expectedOwner = flow.expectedOwner
                     /\ next.round = flow.round /\ next.finality = flow.finality
                     /\ next.response = flow.response
                     => FlowInv(next)
    PROVE  FlowsInv'
<1> DEFINE next == [flow EXCEPT !.at = to]
<1>1. /\ DOMAIN next = DOMAIN flow /\ next.at = to
      /\ next.givenRelay = flow.givenRelay /\ next.request = flow.request
      /\ next.receipt = flow.receipt /\ next.expectedOwner = flow.expectedOwner
      /\ next.round = flow.round /\ next.finality = flow.finality
      /\ next.response = flow.response
  OBVIOUS
<1>2. preparations' = [preparations EXCEPT ![c] = next] /\ UNCHANGED connectorVars
  BY DEF FlowStep
<1> HIDE DEF next
<1>3. FlowInv(next)  BY <1>1
<1> QED  BY <1>2, <1>3, OneFlowMoves

LEMMA ShapeOfFlow ==
    ASSUME FlowsInv, NEW c \in Preparation, preparations[c].at \notin {"ready", "failed"}
    PROVE  /\ FlowInv(preparations[c])
           /\ DOMAIN preparations[c] = {"at", "givenRelay", "request", "receipt",
                          "expectedOwner", "round", "finality", "response"}
BY DEF FlowsInv, FlowInv

LEMMA PriceKeeps ==
    ASSUME FlowsInv, ConnectorInv, NEW c \in Preparation, prepareCoston2FdcSubmission(c)
    PROVE  FlowsInv'
<1>1. preparations[c].at = "fee" /\ FlowStep(c, "fee", "round", preparations[c])
  BY DEF prepareCoston2FdcSubmission, FlowStep
<1>2. preparations[c].receipt.time \in 0..MaxTime
  BY <1>1, ShapeOfFlow DEF FlowInv
<1>3. \A next : next.at = "round" /\ DOMAIN next = DOMAIN preparations[c]
                /\ next.receipt = preparations[c].receipt => FlowInv(next)
  BY <1>1, <1>2, ShapeOfFlow DEF FlowInv
<1> QED  BY <1>1, <1>3, ShapeOfFlow, FlowGoesOn

LEMMA DeriveKeeps ==
    ASSUME FlowsInv, ConnectorInv, NEW c \in Preparation, deriveCoston2FdcVotingRound(c)
    PROVE  FlowsInv'
<1> DEFINE flow == [preparations[c] EXCEPT !.round = RoundOf(preparations[c].receipt.time)]
<1>1. preparations[c].at = "round" /\ FlowStep(c, "round", "relay", flow)
  BY DEF deriveCoston2FdcVotingRound, FlowStep
<1>2. preparations[c].receipt.time \in 0..MaxTime
  BY <1>1, ShapeOfFlow DEF FlowInv
<1>3. RoundOf(preparations[c].receipt.time) \in Round
  BY <1>2, RoundsAreRounds
<1>4. /\ DOMAIN flow = {"at", "givenRelay", "request", "receipt",
                        "expectedOwner", "round", "finality", "response"}
      /\ flow.receipt = preparations[c].receipt /\ flow.round \in Round
  BY <1>1, <1>3, ShapeOfFlow
<1> HIDE DEF flow
<1>5. \A next : next.at = "relay" /\ DOMAIN next = DOMAIN flow
                /\ next.receipt = flow.receipt /\ next.round = flow.round => FlowInv(next)
  BY <1>2, <1>4 DEF FlowInv
<1> QED  BY <1>1, <1>4, <1>5, FlowGoesOn

LEMMA ReadRelayKeeps ==
    ASSUME FlowsInv, ConnectorInv, NEW c \in Preparation, ReadRelay(c)
    PROVE  FlowsInv'
<1> DEFINE flow == [preparations[c] EXCEPT !.finality = [relay |-> used, round |-> 0, root |-> NoRoot]]
<1>1. preparations[c].at = "relay" /\ FlowStep(c, "relay", "finality", flow)
  BY DEF ReadRelay, FlowStep
<1>2. preparations[c].receipt.time \in 0..MaxTime /\ preparations[c].round \in Round
  BY <1>1, ShapeOfFlow DEF FlowInv
<1>3. used \in FdcRelay  BY DEF ConnectorInv
<1>4. /\ DOMAIN flow = {"at", "givenRelay", "request", "receipt",
                        "expectedOwner", "round", "finality", "response"}
      /\ flow.receipt = preparations[c].receipt /\ flow.round = preparations[c].round
      /\ flow.finality.relay \in FdcRelay
  BY <1>1, <1>3, ShapeOfFlow
<1> HIDE DEF flow
<1>5. \A next : next.at = "finality" /\ DOMAIN next = DOMAIN flow
                /\ next.receipt = flow.receipt /\ next.round = flow.round
                /\ next.finality = flow.finality => FlowInv(next)
  BY <1>2, <1>4 DEF FlowInv
<1> QED  BY <1>1, <1>4, <1>5, FlowGoesOn

LEMMA ReadFinalityKeeps ==
    ASSUME FlowsInv, ConnectorInv, NEW c \in Preparation, readCoston2FdcRoundFinality(c)
    PROVE  FlowsInv'
<1> DEFINE before == preparations[c]
           finality == Finality(before.finality.relay, before.round)
           flow == [before EXCEPT !.finality = finality]
<1>1. /\ before.at = "finality" /\ before.finality.relay = before.givenRelay
      /\ FlowStep(c, "finality", "proof", flow)
  BY DEF readCoston2FdcRoundFinality
<1>2. /\ before.receipt.time \in 0..MaxTime /\ before.round \in Round
      /\ before.finality.relay \in FdcRelay
  BY <1>1, ShapeOfFlow DEF FlowInv
<1>3. /\ finality.relay = before.finality.relay /\ finality.round = before.round
      /\ finality.root.finalized => RootIsHeld(finality)
  BY <1>2 DEF Finality, RootIsHeld
<1> HIDE DEF finality
<1>4. /\ DOMAIN flow = {"at", "givenRelay", "request", "receipt",
                        "expectedOwner", "round", "finality", "response"}
      /\ flow.receipt = before.receipt /\ flow.round = before.round
      /\ flow.givenRelay = before.givenRelay /\ flow.finality = finality
  BY <1>1, ShapeOfFlow
<1> HIDE DEF flow
<1>5. ASSUME NEW next, next.at = "proof", DOMAIN next = DOMAIN flow,
             next.receipt = flow.receipt, next.round = flow.round,
             next.givenRelay = flow.givenRelay, next.finality = flow.finality
      PROVE  FlowInv(next)
  BY <1>1, <1>2, <1>3, <1>4, <1>5 DEF FlowInv
<1> QED  BY <1>1, <1>4, <1>5, FlowGoesOn

LEMMA FetchKeeps ==
    ASSUME FlowsInv, ConnectorInv, NEW c \in Preparation, NEW response \in Response,
           fetchCoston2XrplPaymentProof(c, response)
    PROVE  FlowsInv'
<1> DEFINE before == preparations[c]
           flow == [before EXCEPT !.response = response]
<1>1. /\ before.at = "proof" /\ Binds(response, before.request, before.round)
      /\ Presentable(response, before.finality, before.expectedOwner)
      /\ FlowStep(c, "proof", "verifying", flow)
  BY DEF fetchCoston2XrplPaymentProof
<1>2. /\ RootIsHeld(before.finality) /\ before.finality.relay = before.givenRelay
      /\ before.finality.round = before.round
  BY <1>1, ShapeOfFlow DEF FlowInv, Presentable, Finalized
<1>3. /\ DOMAIN flow = {"at", "givenRelay", "request", "receipt",
                        "expectedOwner", "round", "finality", "response"}
      /\ flow.request = before.request /\ flow.round = before.round
      /\ flow.givenRelay = before.givenRelay /\ flow.finality = before.finality
      /\ flow.expectedOwner = before.expectedOwner /\ flow.response = response
  BY <1>1, ShapeOfFlow
<1> HIDE DEF flow
<1>4. ASSUME NEW next, next.at = "verifying", DOMAIN next = DOMAIN flow,
             next.request = flow.request, next.round = flow.round,
             next.givenRelay = flow.givenRelay, next.finality = flow.finality,
             next.expectedOwner = flow.expectedOwner, next.response = flow.response
      PROVE  FlowInv(next)
  BY <1>1, <1>2, <1>3, <1>4 DEF FlowInv
<1> QED  BY <1>1, <1>3, <1>4, FlowGoesOn

\* The contract verifies under the root of the relay it uses now; the root
\* that the flow names, which another relay may hold, is the same.
LEMMA VerifyProofKeeps ==
    ASSUME FlowsInv, ConnectorInv, NEW c \in Preparation, verifyCoston2XrplPaymentProof(c)
    PROVE  FlowsInv'
<1> DEFINE flow == preparations[c]
<1>1. /\ flow.at = "verifying" /\ verifyXRPPayment(flow.response)
      /\ FlowStep(c, "verifying", "prepared", flow)
  BY DEF verifyCoston2XrplPaymentProof
<1>2. /\ RootIsHeld(flow.finality) /\ flow.finality.relay = flow.givenRelay
      /\ flow.finality.round = flow.round
      /\ flow.response \in Response
      /\ Binds(flow.response, flow.request, flow.round)
      /\ Presentable(flow.response, flow.finality, flow.expectedOwner)
  BY <1>1, ShapeOfFlow DEF FlowInv
<1>3. /\ used \in FdcRelay /\ flow.response.round \in Round
      /\ roots[used][flow.response.round].finalized
      /\ flow.response \in roots[used][flow.response.round].leaves
  BY <1>1, <1>2 DEF verifyXRPPayment, ConnectorInv, Response
<1>4. flow.response \in flow.finality.root.leaves
  BY <1>2, <1>3, RelaysAgree DEF RootIsHeld, Presentable
<1>5. DOMAIN flow = {"at", "givenRelay", "request", "receipt",
                     "expectedOwner", "round", "finality", "response"}
  BY <1>1, ShapeOfFlow
<1> HIDE DEF flow
<1>6. ASSUME NEW next, next.at = "prepared", DOMAIN next = DOMAIN flow,
             next.request = flow.request, next.round = flow.round,
             next.givenRelay = flow.givenRelay, next.finality = flow.finality,
             next.expectedOwner = flow.expectedOwner, next.response = flow.response
      PROVE  FlowInv(next)
  BY <1>2, <1>4, <1>5, <1>6 DEF FlowInv
<1> QED  BY <1>1, <1>5, <1>6, FlowGoesOn

LEMMA FlowFails ==
    ASSUME FlowsInv, ConnectorInv, NEW c \in Preparation, PreparationFails(c)
    PROVE  FlowsInv'
<1>1. /\ preparations[c].at \notin {"ready", "failed"}
      /\ FlowStep(c, preparations[c].at, "failed", preparations[c])
  BY DEF PreparationFails
<1>2. \A next : next.at = "failed" => FlowInv(next)
  BY DEF FlowInv
<1> QED  BY <1>1, <1>2, ShapeOfFlow, FlowGoesOn

LEMMA PreparationKeeps ==
    ASSUME FlowsInv, ConnectorInv, PreparationNext
    PROVE  FlowsInv'
BY FlowStarts, PriceKeeps, DeriveKeeps, ReadRelayKeeps, ReadFinalityKeeps, FetchKeeps,
   VerifyProofKeeps, FlowFails DEF PreparationNext

LEMMA PreparedSuffices ==
    ASSUME ConnectorInv, FlowsInv
    PROVE  PreparedIsAttested
<1>1. SUFFICES ASSUME NEW c \in Preparation, preparations[c].at = "prepared"
               PROVE  LET flow == preparations[c]
                          response == flow.response
                      IN
                      /\ response.transaction = flow.request.transaction
                      /\ response.transaction \in validated
                      /\ response.payment = PaymentOf[response.transaction]
                      /\ response.payment.success
                      /\ flow.expectedOwner \in {Anyone, response.owner}
                      /\ flow.finality.root = roots[flow.finality.relay][flow.round]
                      /\ response \in flow.finality.root.leaves
                      /\ flow.finality.relay = flow.givenRelay
  BY DEF PreparedIsAttested
<1> DEFINE flow == preparations[c]
<1>2. /\ RootIsHeld(flow.finality) /\ flow.finality.relay = flow.givenRelay
      /\ flow.finality.round = flow.round
      /\ Binds(flow.response, flow.request, flow.round)
      /\ Presentable(flow.response, flow.finality, flow.expectedOwner)
      /\ flow.response \in flow.finality.root.leaves
  BY <1>1 DEF FlowsInv, FlowInv
<1> HIDE DEF flow
<1>3. /\ flow.response.transaction \in validated
      /\ flow.response.payment = PaymentOf[flow.response.transaction]
  BY <1>2, FinalizedIsAttested DEF RootIsHeld
<1> QED  BY <1>2, <1>3 DEF RootIsHeld, Binds, Presentable, Anyone, flow

-----------------------------------------------------------------------------
(* The live trigger run.                                                    *)

\* The steps of a run from the one named to its end.
FromConsume == {"consume", "readback"}
FromCheckpoint == {"checkpoint"} \cup FromConsume
FromPolicy == {"policy"} \cup FromCheckpoint
FromVerify == {"verify"} \cup FromPolicy
FromProof == {"proof"} \cup FromVerify
FromFinality == {"finality"} \cup FromProof
FromRelay == {"relay"} \cup FromFinality
FromRound == {"round"} \cup FromRelay
FromPrepare == {"prepare", "request"} \cup FromRound

RunFields == {"at", "relay", "requestedAt", "round", "finality", "response", "createdAt"}

\* The request that stands for the payment is the run's own.
RequestIsOurs ==
    /\ Ours \in consumed
    /\ DOMAIN router[requestId] = {"status", "transaction", "by"}
    /\ router[requestId].status # "None"
    /\ router[requestId].transaction = Ours /\ router[requestId].by = "run"

\* What the run has read and done where it is.
RunHasDone ==
    /\ run.at = "start" => DOMAIN run = {"at"}
    /\ run.at \notin {"start", "failed"} => DOMAIN run = RunFields
    /\ run.at \in FromPrepare => Ours \in validated /\ paidAt <= now
    /\ run.at \in FromRound =>
         [transaction |-> Ours, owner |-> Trigger, time |-> run.requestedAt] \in requested
    /\ run.at \in FromRelay => run.round = RoundOf(run.requestedAt)
    /\ run.at \in FromFinality =>
         run.finality.relay \in FdcRelay /\ run.finality.round = run.round /\ run.round \in Round
    /\ run.at \in FromProof => RootIsHeld(run.finality) /\ run.finality.relay = run.relay
    /\ run.at \in FromVerify =>
         run.response \in Response /\ Binds(run.response, OurRequest, run.round)
    /\ run.at \in FromPolicy =>
         run.response \in run.finality.root.leaves /\ BindsPayment(run.response)
    /\ run.at \in FromCheckpoint => registered = Machines + 1
    /\ run.at \in FromConsume => paidAt <= run.createdAt
    /\ run.at = "readback" => RequestIsOurs

\* What is published of a run that is done, and does nothing more.
PublishedHolds ==
    published.written =>
        /\ run.at = "done" /\ EvidenceIsTrue /\ RequestIsOurs
        /\ RootIsHeld([relay |-> published.relay, round |-> published.round,
                       root |-> published.root])

RunInv ==
    /\ DOMAIN router = RequestId /\ registered \in Nat /\ paidAt \in Nat
    /\ RunHasDone /\ PublishedHolds

-----------------------------------------------------------------------------

LEMMA RunStarts == FdcInit /\ RunInit => RunInv
BY DEF RunInit, RunInv, RunHasDone, PublishedHolds, FromConsume, FromCheckpoint, FromPolicy,
       FromVerify, FromProof, FromFinality, FromRelay, FromRound, FromPrepare, NoEvidence

LEMMA OursIsRequested == requestId \in RequestId
BY TriggerRunAssumption DEF requestId, RequestId

\* A step of the run names what it goes on with.
LEMMA RunMoves ==
    ASSUME NEW to, NEW step, DOMAIN step = RunFields, GoesOn(to, step)
    PROVE  /\ run'.at = to /\ DOMAIN run' = RunFields /\ run'.relay = step.relay
           /\ run'.requestedAt = step.requestedAt /\ run'.round = step.round
           /\ run'.finality = step.finality /\ run'.response = step.response
           /\ run'.createdAt = step.createdAt
BY DEF GoesOn, RunFields

\* The run's own stay as they are while the connector goes on.
LEMMA RunStays ==
    ASSUME RunInv, ConnectorInv, ConnectorGrows, ConnectorInv', UNCHANGED runVars
    PROVE  RunInv'
<1>1. now \in Nat /\ now' \in Nat /\ now <= now' /\ paidAt \in Nat
  BY FdcAssumption DEF ConnectorInv, RunInv, ConnectorGrows
<1>2. RunHasDone'
  BY <1>1 DEF RunInv, RunHasDone, runVars, ConnectorGrows, RootIsHeld, Binds, BindsPayment,
              RequestIsOurs
<1>3. PublishedHolds'
  BY DEF RunInv, PublishedHolds, EvidenceIsTrue, runVars, ConnectorGrows, RootIsHeld, RequestIsOurs
<1> QED  BY <1>2, <1>3 DEF RunInv, runVars

\* A step of a run that is not done concerns what the run has done only.
LEMMA RunGoesOn ==
    ASSUME RunInv, run.at # "done", RunHasDone', UNCHANGED published, DOMAIN router' = RequestId,
           registered' \in Nat, paidAt' \in Nat
    PROVE  RunInv'
BY DEF RunInv, PublishedHolds

\* A step that only reads, and keeps what it has read.
LEMMA RunReads ==
    ASSUME RunInv, ConnectorInv, NEW from, NEW to, NEW step, RunStep(from, to, step),
           from \notin {"start", "failed", "done"}, DOMAIN step = RunFields,
           (/\ run'.at = to /\ DOMAIN run' = RunFields /\ run'.relay = step.relay
            /\ run'.requestedAt = step.requestedAt /\ run'.round = step.round
            /\ run'.finality = step.finality /\ run'.response = step.response
            /\ run'.createdAt = step.createdAt /\ now' = now /\ validated' = validated
            /\ requested' = requested /\ roots' = roots /\ paidAt' = paidAt
            /\ registered' = registered /\ consumed' = consumed /\ router' = router
            => RunHasDone')
    PROVE  RunInv'
<1>1. run.at # "done" /\ GoesOn(to, step)
      /\ UNCHANGED <<now, validated, requested, roots, paidAt, registered, consumed, router, published>>
  BY DEF RunStep, fdcVars, connectorVars
<1>2. RunHasDone'
  BY <1>1, RunMoves
<1> QED  BY <1>1, <1>2, RunGoesOn DEF RunInv

LEMMA SnapshotKeeps ==
    ASSUME RunInv, ConnectorInv, readRuntimeSnapshot
    PROVE  RunInv'
<1>1. RunHasDone'
  BY DEF readRuntimeSnapshot, RunHasDone, RunFields, FromConsume, FromCheckpoint, FromPolicy,
         FromVerify, FromProof, FromFinality, FromRelay, FromRound, FromPrepare
<1>2. /\ run.at # "done" /\ UNCHANGED <<published, router, registered, paidAt>>
  BY DEF readRuntimeSnapshot
<1> QED  BY <1>1, <1>2, RunGoesOn DEF RunInv

LEMMA PaymentKeeps ==
    ASSUME RunInv, ConnectorInv, submitXrplPayment
    PROVE  RunInv'
<1>1. /\ run.at = "pay" /\ GoesOn("prepare", run) /\ now' = now /\ paidAt' = now
      /\ Ours \in validated' /\ UNCHANGED <<published, router, registered>>
  BY DEF submitXrplPayment, Validate
<1>2. now \in Nat /\ DOMAIN run = RunFields
  BY <1>1, FdcAssumption DEF ConnectorInv, RunInv, RunHasDone
<1>3. run'.at = "prepare" /\ DOMAIN run' = RunFields
  BY <1>1, <1>2, RunMoves
<1>4. RunHasDone'
  BY <1>1, <1>2, <1>3 DEF RunHasDone, FromConsume, FromCheckpoint, FromPolicy,
         FromVerify, FromProof, FromFinality, FromRelay, FromRound
<1> QED  BY <1>1, <1>2, <1>4, RunGoesOn DEF RunInv

LEMMA PreparedRequestKeeps ==
    ASSUME RunInv, ConnectorInv, waitForPreparedFdcRequest
    PROVE  RunInv'
<1>1. RunStep("prepare", "request", run) /\ run.at = "prepare"
  BY DEF waitForPreparedFdcRequest, RunStep
<1>2. DOMAIN run = RunFields /\ Ours \in validated /\ paidAt <= now
  BY <1>1 DEF RunInv, RunHasDone, FromPrepare
<1> QED
  BY <1>1, <1>2, RunReads DEF RunHasDone, FromConsume, FromCheckpoint, FromPolicy,
         FromVerify, FromProof, FromFinality, FromRelay, FromRound

LEMMA RequestKeeps ==
    ASSUME RunInv, ConnectorInv, submitFdcRequest
    PROVE  RunInv'
<1> DEFINE step == [run EXCEPT !.requestedAt = now]
<1>1. /\ run.at = "request" /\ GoesOn("round", step) /\ UNCHANGED <<now, validated, paidAt>>
      /\ [transaction |-> Ours, owner |-> Trigger, time |-> now] \in requested'
      /\ UNCHANGED <<published, router, registered>>
  BY DEF submitFdcRequest, RequestAttestation
<1>2. DOMAIN run = RunFields /\ Ours \in validated /\ paidAt <= now
  BY <1>1 DEF RunInv, RunHasDone, FromPrepare
<1>3. DOMAIN step = RunFields /\ step.requestedAt = now
  BY <1>2 DEF RunFields
<1> HIDE DEF step
<1>4. run'.at = "round" /\ DOMAIN run' = RunFields /\ run'.requestedAt = now
  BY <1>1, <1>3, RunMoves
<1>5. RunHasDone'
  BY <1>1, <1>2, <1>4 DEF RunHasDone, FromConsume, FromCheckpoint, FromPolicy,
         FromVerify, FromProof, FromFinality, FromRelay
<1> QED  BY <1>1, <1>5, RunGoesOn DEF RunInv

LEMMA DeriveRoundKeeps ==
    ASSUME RunInv, ConnectorInv, DeriveRound
    PROVE  RunInv'
<1> DEFINE step == [run EXCEPT !.round = RoundOf(run.requestedAt)]
<1>1. RunStep("round", "relay", step) /\ run.at = "round"
  BY DEF DeriveRound, RunStep
<1>2. DOMAIN run = RunFields /\ Ours \in validated /\ paidAt <= now
      /\ [transaction |-> Ours, owner |-> Trigger, time |-> run.requestedAt] \in requested
  BY <1>1 DEF RunInv, RunHasDone, FromPrepare, FromRound
<1>3. DOMAIN step = RunFields /\ step.requestedAt = run.requestedAt
      /\ step.round = RoundOf(run.requestedAt)
  BY <1>2 DEF RunFields
<1> HIDE DEF step
<1> QED
  BY <1>1, <1>2, <1>3, RunReads DEF RunHasDone, FromConsume, FromCheckpoint, FromPolicy,
         FromVerify, FromProof, FromFinality

\* What a run past its attestation request keeps.
LEMMA RequestedRound ==
    ASSUME RunInv, ConnectorInv, run.at \in FromRelay
    PROVE  /\ DOMAIN run = RunFields /\ Ours \in validated /\ paidAt <= now
           /\ [transaction |-> Ours, owner |-> Trigger, time |-> run.requestedAt] \in requested
           /\ run.round = RoundOf(run.requestedAt) /\ run.round \in Round
<1>1. /\ DOMAIN run = RunFields /\ Ours \in validated /\ paidAt <= now
      /\ [transaction |-> Ours, owner |-> Trigger, time |-> run.requestedAt] \in requested
      /\ run.round = RoundOf(run.requestedAt)
  BY DEF RunInv, RunHasDone, FromPrepare, FromRound, FromRelay, FromFinality, FromProof,
         FromVerify, FromPolicy, FromCheckpoint, FromConsume
<1>2. run.requestedAt \in 0..MaxTime
  BY <1>1, FdcAssumption DEF ConnectorInv
<1> QED  BY <1>1, <1>2, RoundsAreRounds

LEMMA PollRelayKeeps ==
    ASSUME RunInv, ConnectorInv, PollRelay
    PROVE  RunInv'
<1> DEFINE polled == [relay |-> used, round |-> run.round, root |-> NoRoot]
           step == [run EXCEPT !.finality = polled]
<1>1. RunStep("relay", "finality", step) /\ run.at = "relay" /\ run.at \in FromRelay
  BY DEF PollRelay, RunStep, FromRelay
<1>2. polled.relay \in FdcRelay /\ polled.round = run.round
  BY DEF ConnectorInv
<1> HIDE DEF polled
<1>3. DOMAIN step = RunFields /\ step.requestedAt = run.requestedAt /\ step.round = run.round
      /\ step.finality = polled
  BY <1>1, RequestedRound DEF RunFields
<1> HIDE DEF step
<1> QED
  BY <1>1, <1>2, <1>3, RequestedRound, RunReads
     DEF RunHasDone, FromConsume, FromCheckpoint, FromPolicy, FromVerify, FromProof

LEMMA PollFinalityKeeps ==
    ASSUME RunInv, ConnectorInv, PollFinality
    PROVE  RunInv'
<1> DEFINE finality == Finality(run.finality.relay, run.round)
           step == [run EXCEPT !.finality = finality]
<1>1. run.at = "finality" /\ run.at \in FromFinality /\ run.at \in FromRelay
  BY DEF PollFinality, FromFinality, FromRelay
<1>2. run.finality.relay \in FdcRelay /\ run.finality.round = run.round /\ run.round \in Round
  BY <1>1 DEF RunInv, RunHasDone
<1>3. CASE Finalized(finality) /\ RunStep("finality", "proof", step) /\ SameRelay(finality)
  <2>1. RootIsHeld(finality) /\ finality.relay = run.relay /\ finality.round = run.round
    BY <1>2, <1>3 DEF Finality, Finalized, RootIsHeld, SameRelay
  <2> HIDE DEF finality
  <2>2. DOMAIN step = RunFields /\ step.requestedAt = run.requestedAt /\ step.round = run.round
        /\ step.finality = finality /\ step.relay = run.relay
    BY <1>1, RequestedRound DEF RunFields
  <2> HIDE DEF step
  <2>3. RunStep("finality", "proof", step)  BY <1>3
  <2>4. (/\ run'.at = "proof" /\ DOMAIN run' = RunFields /\ run'.relay = step.relay
         /\ run'.requestedAt = step.requestedAt /\ run'.round = step.round
         /\ run'.finality = step.finality /\ run'.response = step.response
         /\ run'.createdAt = step.createdAt /\ now' = now /\ validated' = validated
         /\ requested' = requested /\ roots' = roots /\ paidAt' = paidAt
         /\ registered' = registered /\ consumed' = consumed /\ router' = router
         => RunHasDone')
    BY <1>1, <1>2, <2>1, <2>2, RequestedRound
       DEF RunHasDone, FromConsume, FromCheckpoint, FromPolicy, FromVerify, RootIsHeld
  <2> QED  BY <2>2, <2>3, <2>4, RunReads
<1>4. CASE RunStep("finality", "relay", run)
  <2>1. DOMAIN run = RunFields  BY <1>1, RequestedRound
  <2> QED
    BY <1>1, <1>4, <2>1, RequestedRound, RunReads
       DEF RunHasDone, FromConsume, FromCheckpoint, FromPolicy, FromVerify, FromProof, FromFinality
<1> QED  BY <1>3, <1>4 DEF PollFinality

\* What a run that has read a final root keeps.
LEMMA ReadRoot ==
    ASSUME RunInv, ConnectorInv, run.at \in FromProof
    PROVE  /\ run.at \in FromRelay
           /\ RootIsHeld(run.finality) /\ run.finality.relay = run.relay
           /\ run.finality.round = run.round
BY DEF RunInv, RunHasDone, FromRelay, FromFinality, FromProof

\* And one that has a response.
LEMMA HasResponse ==
    ASSUME RunInv, ConnectorInv, run.at \in FromVerify
    PROVE  /\ run.at \in FromProof /\ run.at \in FromRelay
           /\ run.response \in Response /\ Binds(run.response, OurRequest, run.round)
BY DEF RunInv, RunHasDone, FromRelay, FromFinality, FromProof, FromVerify

LEMMA ProofKeeps ==
    ASSUME RunInv, ConnectorInv, NEW response \in Response, waitForFdcProof(response)
    PROVE  RunInv'
<1> DEFINE step == [run EXCEPT !.response = response]
<1>1. /\ run.at = "proof" /\ run.at \in FromProof /\ run.at \in FromRelay
      /\ RunStep("proof", "verify", step)
      /\ Binds(response, OurRequest, run.round)
  BY DEF waitForFdcProof, FromProof, FromFinality, FromRelay
<1>2. DOMAIN step = RunFields /\ step.requestedAt = run.requestedAt /\ step.round = run.round
      /\ step.finality = run.finality /\ step.relay = run.relay /\ step.response = response
  BY <1>1, RequestedRound DEF RunFields
<1> HIDE DEF step
<1>3. (/\ run'.at = "verify" /\ DOMAIN run' = RunFields /\ run'.relay = step.relay
       /\ run'.requestedAt = step.requestedAt /\ run'.round = step.round
       /\ run'.finality = step.finality /\ run'.response = step.response
       /\ run'.createdAt = step.createdAt /\ now' = now /\ validated' = validated
       /\ requested' = requested /\ roots' = roots /\ paidAt' = paidAt
       /\ registered' = registered /\ consumed' = consumed /\ router' = router
       => RunHasDone')
  BY <1>1, <1>2, RequestedRound, ReadRoot
     DEF RunHasDone, FromConsume, FromCheckpoint, FromPolicy, RootIsHeld, Binds
<1> QED  BY <1>1, <1>2, <1>3, RunReads

\* The root under which the contract verifies is the one the run has read.
LEMMA VerifiedKeeps ==
    ASSUME RunInv, ConnectorInv, VerifyProof
    PROVE  RunInv'
<1>1. /\ run.at = "verify" /\ run.at \in FromVerify
      /\ RunStep("verify", "policy", run)
      /\ verifyXRPPayment(run.response) /\ BindsPayment(run.response)
  BY DEF VerifyProof, RunStep, FromVerify
<1>2. run.response \in run.finality.root.leaves
  BY <1>1, HasResponse, ReadRoot, RelaysAgree
     DEF verifyXRPPayment, ConnectorInv, RootIsHeld, Response, Binds
<1>3. DOMAIN run = RunFields
  BY <1>1, HasResponse, RequestedRound
<1>4. (/\ run'.at = "policy" /\ DOMAIN run' = RunFields /\ run'.relay = run.relay
       /\ run'.requestedAt = run.requestedAt /\ run'.round = run.round
       /\ run'.finality = run.finality /\ run'.response = run.response
       /\ run'.createdAt = run.createdAt /\ now' = now /\ validated' = validated
       /\ requested' = requested /\ roots' = roots /\ paidAt' = paidAt
       /\ registered' = registered /\ consumed' = consumed /\ router' = router
       => RunHasDone')
  BY <1>1, <1>2, RequestedRound, ReadRoot, HasResponse
     DEF RunHasDone, FromConsume, FromCheckpoint, RootIsHeld, Binds, BindsPayment
<1> QED  BY <1>1, <1>3, <1>4, RunReads

\* And one that has verified it.
LEMMA HasVerified ==
    ASSUME RunInv, ConnectorInv, run.at \in FromPolicy
    PROVE  /\ run.at \in FromVerify /\ run.at \in FromProof /\ run.at \in FromRelay
           /\ run.response \in run.finality.root.leaves /\ BindsPayment(run.response)
BY DEF RunInv, RunHasDone, FromRelay, FromFinality, FromProof, FromVerify, FromPolicy

LEMMA RegistrationKeeps ==
    ASSUME RunInv, ConnectorInv, registerSimulatedPolicy
    PROVE  RunInv'
<1> DEFINE to == IF registered = Machines THEN "checkpoint" ELSE "policy"
<1>1. /\ run.at = "policy" /\ run.at \in FromPolicy /\ GoesOn(to, run)
      /\ registered' = registered + 1 /\ registered \in Nat
      /\ UNCHANGED <<now, validated, requested, roots, paidAt, consumed, router, published>>
  BY DEF registerSimulatedPolicy, fdcVars, connectorVars, FromPolicy, RunInv
<1>2. DOMAIN run = RunFields
  BY <1>1, HasVerified, RequestedRound
<1>3. /\ run'.at = to /\ DOMAIN run' = RunFields /\ run'.relay = run.relay
      /\ run'.requestedAt = run.requestedAt /\ run'.round = run.round
      /\ run'.finality = run.finality /\ run'.response = run.response
      /\ run'.createdAt = run.createdAt
  BY <1>1, <1>2, RunMoves
<1>4. RunHasDone'
  BY <1>1, <1>3, RequestedRound, ReadRoot, HasResponse, HasVerified
     DEF RunHasDone, FromConsume, FromCheckpoint, RootIsHeld, Binds, BindsPayment
<1> QED  BY <1>1, <1>4, RunGoesOn DEF RunInv

LEMMA CheckpointKeeps ==
    ASSUME RunInv, ConnectorInv, ReadCheckpoint
    PROVE  RunInv'
<1> DEFINE step == [run EXCEPT !.createdAt = now]
<1>1. /\ run.at = "checkpoint" /\ run.at \in FromPolicy /\ now >= paidAt
      /\ RunStep("checkpoint", "consume", step)
  BY DEF ReadCheckpoint, RunStep, FromCheckpoint, FromPolicy
<1>2. DOMAIN step = RunFields /\ step.requestedAt = run.requestedAt /\ step.round = run.round
      /\ step.finality = run.finality /\ step.relay = run.relay
      /\ step.response = run.response /\ step.createdAt = now
  BY <1>1, HasVerified, RequestedRound DEF RunFields
<1> HIDE DEF step
<1>3. registered = Machines + 1 /\ paidAt \in Nat /\ now \in Nat /\ paidAt <= now
  BY <1>1, FdcAssumption DEF RunInv, RunHasDone, FromCheckpoint, ConnectorInv
<1>4. (/\ run'.at = "consume" /\ DOMAIN run' = RunFields /\ run'.relay = step.relay
       /\ run'.requestedAt = step.requestedAt /\ run'.round = step.round
       /\ run'.finality = step.finality /\ run'.response = step.response
       /\ run'.createdAt = step.createdAt /\ now' = now /\ validated' = validated
       /\ requested' = requested /\ roots' = roots /\ paidAt' = paidAt
       /\ registered' = registered /\ consumed' = consumed /\ router' = router
       => RunHasDone')
  BY <1>1, <1>2, <1>3, RequestedRound, ReadRoot, HasResponse, HasVerified
     DEF RunHasDone, RootIsHeld, Binds, BindsPayment
<1> QED  BY <1>1, <1>2, <1>4, RunReads

LEMMA ConsumptionKeeps ==
    ASSUME RunInv, ConnectorInv, consumeProof
    PROVE  RunInv'
<1>1. /\ run.at = "consume" /\ run.at \in FromPolicy /\ GoesOn("readback", run)
      /\ UNCHANGED <<now, validated, requested, roots, paidAt, registered, published>>
      /\ consumed' = consumed \cup {Ours}
      /\ router' = [router EXCEPT ![requestId] = Standing(Ours, "run")]
  BY DEF consumeProof, fdcVars, connectorVars, FromConsume, FromCheckpoint, FromPolicy
<1>2. DOMAIN run = RunFields /\ DOMAIN router = RequestId
  BY <1>1, HasVerified, RequestedRound DEF RunInv
<1>3. /\ run'.at = "readback" /\ DOMAIN run' = RunFields /\ run'.relay = run.relay
      /\ run'.requestedAt = run.requestedAt /\ run'.round = run.round
      /\ run'.finality = run.finality /\ run'.response = run.response
      /\ run'.createdAt = run.createdAt
  BY <1>1, <1>2, RunMoves
<1>4. RequestIsOurs' /\ DOMAIN router' = RequestId
  BY <1>1, <1>2, OursIsRequested DEF RequestIsOurs, Standing, requestId
<1>5. registered = Machines + 1 /\ paidAt <= run.createdAt
  BY <1>1 DEF RunInv, RunHasDone, FromCheckpoint, FromConsume
<1>6. RunHasDone'
  BY <1>1, <1>3, <1>4, <1>5, RequestedRound, ReadRoot, HasResponse, HasVerified
     DEF RunHasDone, RootIsHeld, Binds, BindsPayment
<1> QED  BY <1>1, <1>4, <1>6, RunGoesOn DEF RunInv

LEMMA PublicationKeeps ==
    ASSUME RunInv, ConnectorInv, saveEvidence
    PROVE  RunInv'
<1>1. /\ run.at = "readback" /\ run.at \in FromPolicy /\ GoesOn("done", run)
      /\ UNCHANGED <<now, validated, requested, roots, paidAt, registered, consumed, router>>
      /\ published' = [written |-> TRUE, relay |-> run.relay, round |-> run.round,
                       requestedAt |-> run.requestedAt, root |-> run.finality.root,
                       response |-> run.response, createdAt |-> run.createdAt]
  BY DEF saveEvidence, fdcVars, connectorVars, FromConsume, FromCheckpoint, FromPolicy
<1>2. DOMAIN run = RunFields
  BY <1>1, HasVerified, RequestedRound
<1>3. run'.at = "done" /\ DOMAIN run' = RunFields
  BY <1>1, <1>2, RunMoves
<1>4. RequestIsOurs /\ registered = Machines + 1 /\ paidAt <= run.createdAt
  BY <1>1 DEF RunInv, RunHasDone, FromCheckpoint, FromConsume
<1>5. RootIsHeld([relay |-> run.relay, round |-> run.round, root |-> run.finality.root])
  BY <1>1, HasVerified, ReadRoot DEF RootIsHeld
<1>6. EvidenceIsTrue'
  <2>1. /\ Ours \in validated /\ paidAt <= run.createdAt
        /\ [transaction |-> Ours, owner |-> Trigger, time |-> run.requestedAt] \in requested
        /\ RoundOf(run.requestedAt) = run.round
        /\ run.finality.root = roots[run.relay][run.round]
        /\ run.response \in run.finality.root.leaves
        /\ run.response.transaction = Ours /\ run.response.payment = PaymentOf[Ours]
    BY <1>1, <1>4, <1>5, HasVerified, RequestedRound, ReadRoot DEF BindsPayment, RootIsHeld
  <2> QED  BY <1>1, <1>4, <2>1 DEF EvidenceIsTrue, RequestIsOurs, requestId
<1>7. RunHasDone'
  BY <1>3 DEF RunHasDone, FromConsume, FromCheckpoint, FromPolicy, FromVerify, FromProof,
              FromFinality, FromRelay, FromRound, FromPrepare
<1>8. PublishedHolds'
  BY <1>1, <1>3, <1>4, <1>5, <1>6 DEF PublishedHolds, RequestIsOurs, RootIsHeld, requestId
<1> QED  BY <1>1, <1>7, <1>8 DEF RunInv

LEMMA FailureKeeps ==
    ASSUME RunInv, ConnectorInv, RunFails
    PROVE  RunInv'
<1>1. /\ run.at \notin {"done", "failed"} /\ run' = [run EXCEPT !.at = "failed"]
      /\ UNCHANGED <<published, router, registered, paidAt>>
  BY DEF RunFails, RunStep, GoesOn
<1>2. "at" \in DOMAIN run
  BY <1>1 DEF RunInv, RunHasDone, RunFields
<1>3. run'.at = "failed"  BY <1>1, <1>2
<1>4. RunHasDone'
  BY <1>3 DEF RunHasDone, FromConsume, FromCheckpoint, FromPolicy, FromVerify, FromProof,
              FromFinality, FromRelay, FromRound, FromPrepare
<1> QED  BY <1>1, <1>4, RunGoesOn DEF RunInv

LEMMA RunKeeps ==
    ASSUME RunInv, ConnectorInv, RunNext
    PROVE  RunInv'
BY SnapshotKeeps, PaymentKeeps, PreparedRequestKeeps, RequestKeeps, DeriveRoundKeeps,
   PollRelayKeeps, PollFinalityKeeps, ProofKeeps, VerifiedKeeps, RegistrationKeeps,
   CheckpointKeeps, ConsumptionKeeps, PublicationKeeps, FailureKeeps DEF RunNext

-----------------------------------------------------------------------------
(* The others.                                                              *)

\* Whoever consumes or places another request leaves the run's alone.
LEMMA OthersLeaveTheRun ==
    ASSUME RunInv, ConnectorInv, UNCHANGED <<fdcVars, run, registered, paidAt, published>>,
           DOMAIN router' = RequestId, RequestIsOurs => RequestIsOurs'
    PROVE  RunInv'
<1>1. UNCHANGED <<now, validated, requested, roots>>
  BY DEF fdcVars, connectorVars
<1>2. RunHasDone'
  BY <1>1 DEF RunInv, RunHasDone, RootIsHeld, Binds, BindsPayment
<1>3. PublishedHolds'
  BY <1>1 DEF RunInv, PublishedHolds, EvidenceIsTrue, RootIsHeld, RequestIsOurs
<1> QED  BY <1>2, <1>3 DEF RunInv

LEMMA ConsumptionElsewhereKeeps ==
    ASSUME RunInv, ConnectorInv, NEW response, ConsumeElsewhere(response)
    PROVE  RunInv'
<1> DEFINE t == response.transaction
           q == response.payment.memo
<1>1. /\ router[q] = NoRequest /\ consumed \subseteq consumed'
      /\ router' = [router EXCEPT ![q] = Standing(t, "other")]
      /\ UNCHANGED <<fdcVars, run, registered, paidAt, published>>
  BY DEF ConsumeElsewhere
<1>2. DOMAIN router = RequestId  BY DEF RunInv
<1>3. RequestIsOurs => RequestIsOurs'
  <2>1. SUFFICES ASSUME RequestIsOurs PROVE RequestIsOurs'  OBVIOUS
  <2>2. requestId # q  BY <1>1, <2>1 DEF RequestIsOurs, NoRequest
  <2>3. router'[requestId] = router[requestId]
    BY <1>1, <1>2, <2>2, OursIsRequested
  <2>4. requestId' = requestId  BY DEF requestId
  <2> QED  BY <1>1, <2>1, <2>3, <2>4 DEF RequestIsOurs
<1> QED  BY <1>1, <1>2, <1>3, OthersLeaveTheRun

LEMMA RouterElsewhereKeeps ==
    ASSUME RunInv, ConnectorInv, RouterElsewhere
    PROVE  RunInv'
<1>1. PICK q \in RequestId :
         \/ router[q] = NoRequest /\ router' = [router EXCEPT ![q] = Standing(NoRoot, "other")]
         \/ router[q].status = "Pending" /\ router' = [router EXCEPT ![q].status = "Ended"]
  BY DEF RouterElsewhere
<1>2. consumed' = consumed /\ UNCHANGED <<fdcVars, run, registered, paidAt, published>>
  BY DEF RouterElsewhere
<1>3. DOMAIN router = RequestId  BY DEF RunInv
<1>4. requestId' = requestId  BY DEF requestId
<1>5. ASSUME RequestIsOurs PROVE RequestIsOurs'
  <2>1. CASE q # requestId
    <3>1. router'[requestId] = router[requestId]
      BY <1>1, <1>3, <2>1, OursIsRequested
    <3> QED  BY <1>2, <1>4, <1>5, <3>1 DEF RequestIsOurs
  <2>2. CASE q = requestId
    <3> DEFINE before == router[requestId]
    <3>1. /\ DOMAIN before = {"status", "transaction", "by"} /\ before.status # "None"
          /\ before.transaction = Ours /\ before.by = "run"
      BY <1>5 DEF RequestIsOurs
    <3>2. router' = [router EXCEPT ![requestId] = [before EXCEPT !.status = "Ended"]]
      BY <1>1, <2>2, <3>1 DEF NoRequest
    <3>3. router'[requestId] = [before EXCEPT !.status = "Ended"]
      BY <1>3, <3>2, OursIsRequested
    <3> HIDE DEF before
    <3>4. /\ DOMAIN router'[requestId] = {"status", "transaction", "by"}
          /\ router'[requestId].status = "Ended" /\ router'[requestId].transaction = Ours
          /\ router'[requestId].by = "run"
      BY <3>1, <3>3
    <3> QED  BY <1>2, <1>4, <1>5, <3>4 DEF RequestIsOurs
  <2> QED  BY <2>1, <2>2
<1> QED  BY <1>1, <1>2, <1>3, <1>5, OthersLeaveTheRun

-----------------------------------------------------------------------------
(* Everything together: the run and calls of the adapters, over one         *)
(* connector.                                                               *)

AttestedInv == ConnectorInv /\ FlowsInv /\ RunInv

LEMMA FlowsStay ==
    ASSUME ConnectorInv, ConnectorGrows, FlowsInv, UNCHANGED preparations
    PROVE  FlowsInv'
<1>1. \A f : FlowInv(f) => FlowInv(f)'
  BY FlowStays
<1>2. ASSUME NEW d \in Preparation PROVE FlowInv(preparations[d])'
  <2>1. PICK f : f = preparations[d]  OBVIOUS
  <2>2. FlowInv(f)'  BY <1>1, <2>1 DEF FlowsInv
  <2>3. preparations'[d] = f  BY <2>1
  <2> QED  BY <2>2, <2>3 DEF FlowInv, RootIsHeld, Binds, Presentable, Finalized
<1> QED  BY <1>2 DEF FlowsInv

\* A step of the run is one of the connector, or leaves it alone.
LEMMA RunUsesConnector ==
    ASSUME RunNext
    PROVE  ConnectorSteps /\ UNCHANGED preparations
<1>1. submitXrplPayment => ConnectorSteps /\ UNCHANGED preparations
  BY TriggerRunAssumption DEF submitXrplPayment, ConnectorSteps
<1>2. submitFdcRequest => ConnectorSteps /\ UNCHANGED preparations
  BY TriggerRunAssumption DEF submitFdcRequest, ConnectorSteps
<1>3. UNCHANGED fdcVars => ConnectorSteps /\ UNCHANGED preparations
  BY DEF fdcVars, ConnectorSteps
<1>4. RunNext => submitXrplPayment \/ submitFdcRequest \/ UNCHANGED fdcVars
  BY DEF RunNext, readRuntimeSnapshot, waitForPreparedFdcRequest, DeriveRound, PollRelay,
         PollFinality, waitForFdcProof, VerifyProof, registerSimulatedPolicy, ReadCheckpoint,
         consumeProof, saveEvidence, RunFails, RunStep
<1> QED  BY <1>1, <1>2, <1>3, <1>4

LEMMA AttestedKeeps ==
    ASSUME AttestedInv, [TriggerRunNext \/ (FdcNext /\ UNCHANGED runVars)]_triggerRunVars
    PROVE  AttestedInv'
<1> USE DEF AttestedInv
<1>1. CASE RunNext
  BY <1>1, RunUsesConnector, ConnectorKeeps, FlowsStay, RunKeeps
<1>2. CASE UNCHANGED <<fdcVars, run, registered, paidAt, published>> /\ RunInv'
  BY <1>2, ConnectorKeeps, FlowsStay DEF ConnectorSteps, fdcVars
<1>3. CASE ConnectorNext /\ UNCHANGED <<preparations, runVars>>
  BY <1>3, ConnectorKeeps, FlowsStay, RunStays DEF ConnectorSteps, ConnectorNext
<1>4. CASE PreparationNext /\ UNCHANGED runVars
  <2>1. UNCHANGED connectorVars
    BY <1>4 DEF PreparationNext, prepareCoston2FdcFundingFlow, prepareCoston2FdcSubmission,
         deriveCoston2FdcVotingRound, ReadRelay, readCoston2FdcRoundFinality,
         fetchCoston2XrplPaymentProof, verifyCoston2XrplPaymentProof, PreparationFails, FlowStep
  <2> QED  BY <1>4, <2>1, ConnectorKeeps, PreparationKeeps, RunStays DEF ConnectorSteps
<1>5. CASE UNCHANGED triggerRunVars
  BY <1>5, ConnectorKeeps, FlowsStay, RunStays DEF ConnectorSteps, triggerRunVars, fdcVars
<1> QED
  BY <1>1, <1>2, <1>3, <1>4, <1>5, ConsumptionElsewhereKeeps, RouterElsewhereKeeps
     DEF TriggerRunNext, ElsewhereNext, FdcNext, ConsumeElsewhere, RouterElsewhere

LEMMA AttestedStarts == FdcInit /\ RunInit => AttestedInv
<1> SUFFICES ASSUME FdcInit, RunInit PROVE AttestedInv  OBVIOUS
<1>1. FlowsInv  BY DEF FdcInit, FlowsInv, FlowInv
<1> QED  BY <1>1, ConnectorStarts, RunStarts DEF AttestedInv

\* What the adapters hand on to the minting call happened, is attested, and is
\* what was asked for; and what the live run publishes of its attestation and
\* its request is so: for any payments, relays, owners and round length, any
\* answers of the availability layer, whoever else asks, consumes or places
\* requests meanwhile, and wherever the run dies.
THEOREM AttestationsAreTrue ==
    FdcInit /\ RunInit /\ [][TriggerRunNext \/ (FdcNext /\ UNCHANGED runVars)]_triggerRunVars
        => []AttestationsHold
<1>1. FdcInit /\ RunInit => AttestedInv
  BY AttestedStarts
<1>2. AttestedInv /\ [TriggerRunNext \/ (FdcNext /\ UNCHANGED runVars)]_triggerRunVars
        => AttestedInv'
  BY AttestedKeeps
<1>3. AttestedInv => AttestationsHold
  BY PreparedSuffices DEF AttestedInv, AttestationsHold, RunInv, PublishedHolds, EvidenceIsTrue
<1> QED  BY <1>1, <1>2, <1>3, PTL

-----------------------------------------------------------------------------
(* The rate windows of the fronts.                                          *)

\* A pass counts in the spans it falls into; p is what a map let pass.
FrontKey == Client \cup (Client \X Requester)
PassRecord == [key: FrontKey, time: Nat]
WindowRecord == [key: FrontKey, startedAt: Nat, count: Nat]

Passes(p, k, from, to) == {i \in DOMAIN p : p[i].key = k /\ from <= p[i].time /\ p[i].time <= to}
Counted(p, k, from, to) == Cardinality(Passes(p, k, from, to))

LEMMA CountIsNumber ==
    ASSUME NEW p \in Seq(PassRecord), NEW k, NEW a \in Int, NEW b \in Int
    PROVE  IsFiniteSet(Passes(p, k, a, b)) /\ Counted(p, k, a, b) \in Nat
<1>1. IsFiniteSet(1..Len(p))
  BY FS_Interval
<1>2. Passes(p, k, a, b) \in SUBSET (1..Len(p))
  BY DEF Passes
<1> QED BY <1>1, <1>2, FS_Subset, FS_CardinalityType DEF Counted

LEMMA PassFields ==
    ASSUME NEW p \in Seq(PassRecord), NEW i \in DOMAIN p
    PROVE  p[i].time \in Nat /\ p[i].key \in FrontKey
<1>1. p[i] \in PassRecord
  OBVIOUS
<1> QED BY <1>1 DEF PassRecord

\* One more pass is counted in the spans it falls into.
LEMMA CountedAppend ==
    ASSUME NEW p \in Seq(PassRecord), NEW e \in PassRecord, NEW k, NEW a \in Int, NEW b \in Int
    PROVE  Counted(Append(p, e), k, a, b) =
             IF e.key = k /\ a <= e.time /\ e.time <= b THEN Counted(p, k, a, b) + 1 ELSE Counted(p, k, a, b)
<1> DEFINE n == Len(p) + 1
<1>1. n \in Nat /\ DOMAIN Append(p, e) = 1..n /\ Append(p, e)[n] = e
      /\ \A i \in 1..Len(p) : Append(p, e)[i] = p[i]
  OBVIOUS
<1>2. n \notin Passes(p, k, a, b)
  BY DEF Passes
<1>3. CASE e.key = k /\ a <= e.time /\ e.time <= b
  <2>1. Passes(Append(p, e), k, a, b) = Passes(p, k, a, b) \cup {n}
    BY <1>1, <1>3 DEF Passes
  <2> QED BY <1>2, <1>3, <2>1, CountIsNumber, FS_AddElement DEF Counted
<1>4. CASE ~(e.key = k /\ a <= e.time /\ e.time <= b)
  <2>1. Passes(Append(p, e), k, a, b) = Passes(p, k, a, b)
    BY <1>1, <1>4 DEF Passes
  <2> QED BY <1>4, <2>1 DEF Counted
<1> QED BY <1>3, <1>4

\* A span within another counts no more.
LEMMA CountedWithin ==
    ASSUME NEW p \in Seq(PassRecord), NEW k, NEW a \in Int, NEW b \in Int, NEW c \in Int, NEW d \in Int,
           \A i \in DOMAIN p : p[i].key = k /\ a <= p[i].time /\ p[i].time <= b
                                 => c <= p[i].time /\ p[i].time <= d
    PROVE  Counted(p, k, a, b) <= Counted(p, k, c, d)
<1>1. Passes(p, k, a, b) \in SUBSET Passes(p, k, c, d)
  BY DEF Passes
<1> QED BY <1>1, CountIsNumber, FS_Subset DEF Counted

\* A span in two parts counts no more than both.
LEMMA CountedSplit ==
    ASSUME NEW p \in Seq(PassRecord), NEW k, NEW a \in Int, NEW b \in Int, NEW c \in Int, NEW d \in Int,
           \A i \in DOMAIN p : p[i].key = k /\ c <= p[i].time => p[i].time <= d
    PROVE  Counted(p, k, a, b) <= Counted(p, k, a, c - 1) + Counted(p, k, c, d)
<1> DEFINE L == Passes(p, k, a, c - 1)
           R == Passes(p, k, c, d)
<1>1. IsFiniteSet(L) /\ IsFiniteSet(R) /\ Cardinality(L) \in Nat /\ Cardinality(R) \in Nat
  BY CountIsNumber DEF Counted
<1>2. Passes(p, k, a, b) \in SUBSET (L \cup R)
  <2> SUFFICES ASSUME NEW i \in Passes(p, k, a, b) PROVE i \in L \cup R
    OBVIOUS
  <2>1. p[i].time \in Nat /\ i \in DOMAIN p
    BY PassFields DEF Passes
  <2> QED BY <2>1 DEF Passes
<1> HIDE DEF L, R
<1>3. IsFiniteSet(L \cup R) /\ Cardinality(L \cup R) = Cardinality(L) + Cardinality(R) - Cardinality(L \cap R)
  BY <1>1, FS_Union
<1>4. IsFiniteSet(L \cap R)
  BY <1>1, FS_Subset
<1>5. Cardinality(L \cap R) \in Nat
  BY <1>4, FS_CardinalityType
<1>6. Cardinality(Passes(p, k, a, b)) <= Cardinality(L \cup R) /\ Cardinality(Passes(p, k, a, b)) \in Nat
  BY <1>2, <1>3, FS_Subset, FS_CardinalityType
<1> QED BY <1>1, <1>3, <1>5, <1>6 DEF Counted, L, R

-----------------------------------------------------------------------------
(* What is true of one key.                                                 *)

\* In the window w of its key everything counts that came since, and what came
\* in the span before was the window before it.
SpansHold(p, k, max) == \A t \in Int : Counted(p, k, t, t + RateWindow - 1) <= 2 * max

WindowIsTrue(w, p, time, max) ==
    /\ w.count = Counted(p, w.key, w.startedAt, time) /\ w.count <= max
    /\ \A i \in DOMAIN p : p[i].key = w.key => p[i].time < w.startedAt + RateWindow
    /\ \A t \in Int : t > w.startedAt - RateWindow => Counted(p, w.key, t, w.startedAt - 1) <= max

LEMMA ContinuedWindow ==
    ASSUME NEW p \in Seq(PassRecord), NEW w \in WindowRecord, NEW time \in Nat, NEW max \in Nat \ {0},
           \A i \in DOMAIN p : p[i].time <= time,
           w.startedAt <= time, time - w.startedAt < RateWindow, w.count < max,
           WindowIsTrue(w, p, time, max), SpansHold(p, w.key, max)
    PROVE  LET q == Append(p, [key |-> w.key, time |-> time]) IN
           WindowIsTrue([w EXCEPT !.count = @ + 1], q, time, max) /\ SpansHold(q, w.key, max)
<1> DEFINE e == [key |-> w.key, time |-> time]
           q == Append(p, e)
           s == w.startedAt
           v == [w EXCEPT !.count = @ + 1]
<1>1. e \in PassRecord /\ e.key = w.key /\ e.time = time /\ s \in Nat /\ w.count \in Nat
  BY DEF PassRecord, WindowRecord
<1>2. RateWindow \in Nat \ {0}
  BY FrontAssumption
<1>3. v.key = w.key /\ v.startedAt = s /\ v.count = w.count + 1
  BY DEF WindowRecord
<1>4. q \in Seq(PassRecord) /\ DOMAIN q = 1..(Len(p) + 1) /\ q[Len(p) + 1] = e
      /\ \A i \in 1..Len(p) : q[i] = p[i] /\ DOMAIN p = 1..Len(p)
  BY <1>1
<1>5. Counted(q, w.key, s, time) = w.count + 1
  BY <1>1, CountedAppend DEF WindowIsTrue
<1>6. \A i \in DOMAIN q : q[i].key = w.key => q[i].time < s + RateWindow
  <2>1. SUFFICES ASSUME NEW i \in DOMAIN q, q[i].key = w.key PROVE q[i].time < s + RateWindow
    OBVIOUS
  <2>2. CASE i \in 1..Len(p)
    BY <1>4, <2>1, <2>2 DEF WindowIsTrue
  <2>3. CASE i = Len(p) + 1
    BY <1>1, <1>2, <1>4, <2>3
  <2> QED BY <1>4, <2>2, <2>3
<1>7. ASSUME NEW t \in Int, t > s - RateWindow
      PROVE  Counted(q, w.key, t, s - 1) <= max
  <2>1. Counted(q, w.key, t, s - 1) = Counted(p, w.key, t, s - 1)
    BY <1>1, CountedAppend
  <2> QED BY <1>7, <2>1 DEF WindowIsTrue
<1>8. ASSUME NEW t \in Int
      PROVE  Counted(q, w.key, t, t + RateWindow - 1) <= 2 * max
  <2> DEFINE b == t + RateWindow - 1
  <2>1. b \in Int /\ Counted(p, w.key, t, b) <= 2 * max /\ Counted(p, w.key, t, b) \in Nat
    <3>1. b \in Int
      BY <1>2
    <3>2. Counted(p, w.key, t, b) <= 2 * max
      BY DEF SpansHold
    <3> QED BY <3>1, <3>2, CountIsNumber
  <2>2. CASE ~(t <= time /\ time <= b)
    <3>1. Counted(q, w.key, t, b) = Counted(p, w.key, t, b)
      BY <1>1, <2>1, <2>2, CountedAppend
    <3> QED BY <2>1, <3>1
  <2>3. CASE t <= time /\ time <= b
    <3>1. Counted(q, w.key, t, b) = Counted(p, w.key, t, b) + 1
      BY <1>1, <2>1, <2>3, CountedAppend
    <3>2. Counted(p, w.key, t, b) <= Counted(p, w.key, t, s - 1) + Counted(p, w.key, s, time)
      BY <1>1, <2>1, CountedSplit
    <3>3. t > s - RateWindow
      BY <1>1, <1>2, <2>3
    <3>4. Counted(p, w.key, t, s - 1) <= max /\ Counted(p, w.key, s, time) = w.count
      BY <3>3 DEF WindowIsTrue
    <3>5. Counted(p, w.key, t, s - 1) \in Nat
      BY <1>1, CountIsNumber
    <3> QED BY <1>1, <2>1, <3>1, <3>2, <3>4, <3>5
  <2> QED BY <2>2, <2>3
<1> HIDE DEF q, v
<1>9. WindowIsTrue(v, q, time, max)
  BY <1>1, <1>3, <1>5, <1>6, <1>7 DEF WindowIsTrue
<1> QED BY <1>8, <1>9 DEF SpansHold, q, v

LEMMA RenewedWindow ==
    ASSUME NEW p \in Seq(PassRecord), NEW w \in WindowRecord, NEW time \in Nat, NEW max \in Nat \ {0},
           \A i \in DOMAIN p : p[i].time <= time,
           w.startedAt <= time, time - w.startedAt >= RateWindow,
           WindowIsTrue(w, p, time, max), SpansHold(p, w.key, max)
    PROVE  LET q == Append(p, [key |-> w.key, time |-> time])
               v == [key |-> w.key, startedAt |-> time, count |-> 1] IN
           WindowIsTrue(v, q, time, max) /\ SpansHold(q, w.key, max)
<1> DEFINE e == [key |-> w.key, time |-> time]
           q == Append(p, e)
           s == w.startedAt
           v == [key |-> w.key, startedAt |-> time, count |-> 1]
<1>1. e \in PassRecord /\ e.key = w.key /\ e.time = time /\ s \in Nat /\ w.count \in Nat
  BY DEF PassRecord, WindowRecord
<1>2. RateWindow \in Nat \ {0}
  BY FrontAssumption
<1>3. v.key = w.key /\ v.startedAt = time /\ v.count = 1
  OBVIOUS
<1>4. q \in Seq(PassRecord) /\ DOMAIN q = 1..(Len(p) + 1) /\ q[Len(p) + 1] = e
      /\ \A i \in 1..Len(p) : q[i] = p[i] /\ DOMAIN p = 1..Len(p)
  BY <1>1
<1>5. Counted(q, w.key, time, time) = 1
  <2>1. Passes(p, w.key, time, time) = {}
    <3> SUFFICES ASSUME NEW i \in DOMAIN p, p[i].key = w.key, time <= p[i].time PROVE FALSE
      BY DEF Passes
    <3>1. p[i].time < s + RateWindow /\ p[i].time \in Nat
      BY PassFields DEF WindowIsTrue
    <3> QED BY <1>1, <1>2, <3>1
  <2>2. Counted(p, w.key, time, time) = 0
    BY <2>1, FS_EmptySet DEF Counted
  <2> QED BY <1>1, <2>2, CountedAppend
<1>6. \A i \in DOMAIN q : q[i].key = w.key => q[i].time < time + RateWindow
  <2>1. SUFFICES ASSUME NEW i \in DOMAIN q, q[i].key = w.key PROVE q[i].time < time + RateWindow
    OBVIOUS
  <2>2. CASE i \in 1..Len(p)
    <3>1. q[i] = p[i] /\ p[i] \in PassRecord /\ p[i].time <= time
      BY <1>4, <2>2
    <3> QED BY <1>2, <3>1 DEF PassRecord
  <2>3. CASE i = Len(p) + 1
    BY <1>1, <1>2, <1>4, <2>3
  <2> QED BY <1>4, <2>2, <2>3
<1>a. ASSUME NEW t \in Int, NEW b \in Int, t > time - RateWindow
      PROVE  Counted(p, w.key, t, b) <= max /\ Counted(p, w.key, t, b) \in Nat
  <2>1. \A i \in DOMAIN p : p[i].key = w.key /\ t <= p[i].time /\ p[i].time <= b => s <= p[i].time /\ p[i].time <= time
    BY <1>1, <1>2, <1>a, PassFields
  <2>2. Counted(p, w.key, t, b) <= Counted(p, w.key, s, time)
    BY <1>1, <2>1, CountedWithin
  <2>3. Counted(p, w.key, s, time) = w.count /\ w.count <= max
    BY DEF WindowIsTrue
  <2>4. Counted(p, w.key, t, b) \in Nat
    BY CountIsNumber
  <2> QED BY <1>1, <2>2, <2>3, <2>4
<1>7. ASSUME NEW t \in Int, t > time - RateWindow
      PROVE  Counted(q, w.key, t, time - 1) <= max
  <2>1. Counted(q, w.key, t, time - 1) = Counted(p, w.key, t, time - 1)
    BY <1>1, CountedAppend
  <2> QED BY <1>7, <1>a, <2>1
<1>8. ASSUME NEW t \in Int
      PROVE  Counted(q, w.key, t, t + RateWindow - 1) <= 2 * max
  <2> DEFINE b == t + RateWindow - 1
  <2>1. b \in Int /\ Counted(p, w.key, t, b) <= 2 * max /\ Counted(p, w.key, t, b) \in Nat
    <3>1. b \in Int
      BY <1>2
    <3>2. Counted(p, w.key, t, b) <= 2 * max
      BY DEF SpansHold
    <3> QED BY <3>1, <3>2, CountIsNumber
  <2>2. CASE ~(t <= time /\ time <= b)
    <3>1. Counted(q, w.key, t, b) = Counted(p, w.key, t, b)
      BY <1>1, <2>1, <2>2, CountedAppend
    <3> QED BY <2>1, <3>1
  <2>3. CASE t <= time /\ time <= b
    <3>1. Counted(q, w.key, t, b) = Counted(p, w.key, t, b) + 1
      BY <1>1, <2>1, <2>3, CountedAppend
    <3>2. t > time - RateWindow
      BY <1>2, <2>3
    <3> QED BY <1>a, <2>1, <3>1, <3>2
  <2> QED BY <2>2, <2>3
<1> HIDE DEF q, v
<1>9. WindowIsTrue(v, q, time, max)
  BY <1>2, <1>3, <1>5, <1>6, <1>7 DEF WindowIsTrue
<1> QED BY <1>8, <1>9 DEF SpansHold, q, v

LEMMA FirstWindow ==
    ASSUME NEW p \in Seq(PassRecord), NEW k \in FrontKey, NEW time \in Nat, NEW max \in Nat \ {0},
           \A i \in DOMAIN p : p[i].key # k
    PROVE  LET q == Append(p, [key |-> k, time |-> time])
               v == [key |-> k, startedAt |-> time, count |-> 1] IN
           WindowIsTrue(v, q, time, max) /\ SpansHold(q, k, max)
<1> DEFINE e == [key |-> k, time |-> time]
           q == Append(p, e)
           v == [key |-> k, startedAt |-> time, count |-> 1]
<1>1. e \in PassRecord /\ e.key = k /\ e.time = time
  BY DEF PassRecord
<1>2. RateWindow \in Nat \ {0}
  BY FrontAssumption
<1>3. v.key = k /\ v.startedAt = time /\ v.count = 1
  OBVIOUS
<1>4. \A a, b \in Int : Counted(p, k, a, b) = 0
  <2> SUFFICES ASSUME NEW a \in Int, NEW b \in Int PROVE Counted(p, k, a, b) = 0
    OBVIOUS
  <2>1. Passes(p, k, a, b) = {}
    BY DEF Passes
  <2> QED BY <2>1, FS_EmptySet DEF Counted
<1>5. \A a, b \in Int : Counted(q, k, a, b) = IF a <= time /\ time <= b THEN 1 ELSE 0
  BY <1>1, <1>4, CountedAppend
<1>6. \A i \in DOMAIN q : q[i].key = k => q[i].time < time + RateWindow
  <2>1. DOMAIN q = 1..(Len(p) + 1) /\ q[Len(p) + 1] = e /\ \A i \in 1..Len(p) : q[i] = p[i] /\ i \in DOMAIN p
    BY <1>1
  <2> QED BY <1>1, <1>2, <2>1
<1> HIDE DEF q, v
<1>7. WindowIsTrue(v, q, time, max)
  BY <1>2, <1>3, <1>5, <1>6 DEF WindowIsTrue
<1>8. SpansHold(q, k, max)
  BY <1>2, <1>5 DEF SpansHold
<1> QED BY <1>7, <1>8 DEF q, v

-----------------------------------------------------------------------------
(* What is true of a map.                                                   *)

\* A map ws after the passes p, dr being the keys it has dropped: whoever passed
\* and was not dropped has its window still.
TableInv(ws, p, dr, time, max) ==
    /\ ws \in Seq(WindowRecord) /\ p \in Seq(PassRecord)
    /\ Len(ws) <= MaxTracked
    /\ \A i, j \in DOMAIN ws : i # j => ws[i].key # ws[j].key
    /\ \A i \in DOMAIN ws : ws[i].startedAt <= time
    /\ \A i \in DOMAIN p : p[i].time <= time
    /\ \A i \in DOMAIN ws : ws[i].key \notin dr => WindowIsTrue(ws[i], p, time, max)
    /\ \A i \in DOMAIN p : p[i].key \notin dr => \E j \in DOMAIN ws : ws[j].key = p[i].key
    /\ \A k \in FrontKey \ dr : SpansHold(p, k, max)

\* A pass says nothing of other keys.
LEMMA OtherKeys ==
    ASSUME NEW p \in Seq(PassRecord), NEW e \in PassRecord, NEW time \in Nat, NEW max
    PROVE  /\ \A w \in WindowRecord : w.key # e.key /\ WindowIsTrue(w, p, time, max)
                 => WindowIsTrue(w, Append(p, e), time, max)
           /\ \A k \in FrontKey : k # e.key /\ SpansHold(p, k, max) => SpansHold(Append(p, e), k, max)
<1> DEFINE q == Append(p, e)
<1>1. DOMAIN q = 1..(Len(p) + 1) /\ q[Len(p) + 1] = e /\ \A i \in 1..Len(p) : q[i] = p[i] /\ i \in DOMAIN p
  OBVIOUS
<1>2. RateWindow \in Nat
  BY FrontAssumption
<1>3. ASSUME NEW k, k # e.key, NEW a \in Int, NEW b \in Int PROVE Counted(q, k, a, b) = Counted(p, k, a, b)
  BY <1>3, CountedAppend
<1>4. ASSUME NEW w \in WindowRecord, w.key # e.key, WindowIsTrue(w, p, time, max) PROVE WindowIsTrue(w, q, time, max)
  <2>1. w.startedAt \in Nat
    BY DEF WindowRecord
  <2>2. w.count = Counted(q, w.key, w.startedAt, time) /\ w.count <= max
    BY <1>3, <1>4, <2>1 DEF WindowIsTrue
  <2>3. ASSUME NEW i \in DOMAIN q, q[i].key = w.key PROVE q[i].time < w.startedAt + RateWindow
    BY <1>1, <1>4, <2>3 DEF WindowIsTrue
  <2>4. ASSUME NEW t \in Int, t > w.startedAt - RateWindow PROVE Counted(q, w.key, t, w.startedAt - 1) <= max
    <3>1. Counted(q, w.key, t, w.startedAt - 1) = Counted(p, w.key, t, w.startedAt - 1)
      BY <1>3, <1>4, <2>1
    <3> QED BY <1>4, <2>4, <3>1 DEF WindowIsTrue
  <2> HIDE DEF q
  <2> QED BY <2>2, <2>3, <2>4 DEF WindowIsTrue
<1>5. ASSUME NEW k \in FrontKey, k # e.key, SpansHold(p, k, max) PROVE SpansHold(q, k, max)
  <2>1. SUFFICES ASSUME NEW t \in Int PROVE Counted(q, k, t, t + RateWindow - 1) <= 2 * max
    BY DEF SpansHold
  <2>2. t + RateWindow - 1 \in Int
    BY <1>2
  <2>3. Counted(q, k, t, t + RateWindow - 1) = Counted(p, k, t, t + RateWindow - 1)
    BY <1>3, <1>5, <2>2
  <2> QED BY <1>5, <2>3 DEF SpansHold
<1> QED BY <1>4, <1>5

\* A key that has a window passes.
LEMMA KnownKey ==
    ASSUME NEW ws, NEW p, NEW dr, NEW time \in Nat, NEW max \in Nat \ {0}, NEW key \in FrontKey, NEW i \in DOMAIN ws,
           TableInv(ws, p, dr, time, max), ws[i].key = key,
           time - ws[i].startedAt >= RateWindow \/ ws[i].count < max
    PROVE  TableInv([ws EXCEPT ![i] = IF time - ws[i].startedAt >= RateWindow
                                        THEN [key |-> key, startedAt |-> time, count |-> 1]
                                        ELSE [ws[i] EXCEPT !.count = @ + 1]],
                    Append(p, [key |-> key, time |-> time]), dr, time, max)
<1> DEFINE e == [key |-> key, time |-> time]
           q == Append(p, e)
           v == IF time - ws[i].startedAt >= RateWindow
                  THEN [key |-> key, startedAt |-> time, count |-> 1] ELSE [ws[i] EXCEPT !.count = @ + 1]
           us == [ws EXCEPT ![i] = v]
<1>1. ws \in Seq(WindowRecord) /\ p \in Seq(PassRecord) /\ ws[i] \in WindowRecord
  BY DEF TableInv
<1>2. e \in PassRecord /\ e.key = key /\ e.time = time /\ RateWindow \in Nat \ {0}
  BY FrontAssumption DEF PassRecord
<1>3. ws[i].startedAt <= time /\ ws[i].startedAt \in Nat /\ ws[i].count \in Nat
  BY <1>1 DEF TableInv, WindowRecord
<1>4. v \in WindowRecord /\ v.key = key /\ v.startedAt <= time
  <2>1. CASE time - ws[i].startedAt >= RateWindow
    <3>1. v = [key |-> key, startedAt |-> time, count |-> 1]
      BY <2>1
    <3> HIDE DEF v
    <3> QED BY <3>1 DEF WindowRecord
  <2>2. CASE ~(time - ws[i].startedAt >= RateWindow)
    <3>1. PICK w \in WindowRecord : w = ws[i]
      BY <1>1
    <3>2. v = [w EXCEPT !.count = w.count + 1] /\ w.key = key /\ w.startedAt <= time /\ w.count \in Nat
      BY <1>3, <2>2, <3>1
    <3> HIDE DEF v
    <3> QED BY <3>2 DEF WindowRecord
  <2> QED BY <2>1, <2>2
<1>5. q \in Seq(PassRecord) /\ DOMAIN q = 1..(Len(p) + 1) /\ q[Len(p) + 1] = e
      /\ \A j \in 1..Len(p) : q[j] = p[j] /\ j \in DOMAIN p
  BY <1>1, <1>2
<1> HIDE DEF q, e, v
<1>6. us \in Seq(WindowRecord) /\ Len(us) = Len(ws) /\ DOMAIN us = DOMAIN ws /\ us[i] = v
      /\ \A j \in DOMAIN ws : j # i => us[j] = ws[j]
  BY <1>1, <1>4
<1> HIDE DEF us
<1>7. \A j \in DOMAIN us : us[j].key = ws[j].key
  BY <1>4, <1>6
<1>8. key \notin dr => WindowIsTrue(v, q, time, max) /\ SpansHold(q, key, max)
  <2> SUFFICES ASSUME key \notin dr PROVE WindowIsTrue(v, q, time, max) /\ SpansHold(q, key, max)
    OBVIOUS
  <2>1. WindowIsTrue(ws[i], p, time, max) /\ SpansHold(p, ws[i].key, max) /\ \A j \in DOMAIN p : p[j].time <= time
    BY DEF TableInv
  <2>2. CASE time - ws[i].startedAt >= RateWindow
    <3>1. v = [key |-> ws[i].key, startedAt |-> time, count |-> 1] /\ q = Append(p, [key |-> ws[i].key, time |-> time])
      BY <2>2 DEF v, q, e
    <3> QED BY <1>1, <1>3, <2>1, <2>2, <3>1, RenewedWindow
  <2>3. CASE ~(time - ws[i].startedAt >= RateWindow)
    <3>1. v = [ws[i] EXCEPT !.count = @ + 1] /\ q = Append(p, [key |-> ws[i].key, time |-> time])
      BY <2>3 DEF v, q, e
    <3>2. time - ws[i].startedAt < RateWindow /\ ws[i].count < max
      BY <1>2, <1>3, <2>3
    <3> QED BY <1>1, <1>3, <2>1, <3>1, <3>2, ContinuedWindow
  <2> QED BY <2>2, <2>3
<1>9. \A j, k \in DOMAIN us : j # k => us[j].key # us[k].key
  BY <1>6, <1>7 DEF TableInv
<1>10. \A j \in DOMAIN us : us[j].startedAt <= time
  BY <1>4, <1>6 DEF TableInv
<1>11. \A j \in DOMAIN q : q[j].time <= time
  <2>1. \A j \in DOMAIN p : p[j].time <= time
    BY DEF TableInv
  <2> QED BY <1>2, <1>5, <2>1
<1>12. ASSUME NEW j \in DOMAIN us, us[j].key \notin dr PROVE WindowIsTrue(us[j], q, time, max)
  <2>1. CASE j = i
    BY <1>4, <1>6, <1>8, <1>12, <2>1
  <2>2. CASE j # i
    <3>1. us[j] = ws[j] /\ ws[j] \in WindowRecord /\ ws[j].key # e.key /\ ws[j].key \notin dr
      BY <1>1, <1>2, <1>6, <1>12, <2>2 DEF TableInv
    <3>2. WindowIsTrue(ws[j], p, time, max)
      BY <1>6, <3>1 DEF TableInv
    <3> QED BY <1>1, <1>2, <3>1, <3>2, OtherKeys DEF q
  <2> QED BY <2>1, <2>2
<1>13. ASSUME NEW j \in DOMAIN q, q[j].key \notin dr PROVE \E k \in DOMAIN us : us[k].key = q[j].key
  <2>1. CASE j \in 1..Len(p)
    <3>1. PICK k \in DOMAIN ws : ws[k].key = p[j].key
      BY <1>5, <1>13, <2>1 DEF TableInv
    <3> QED BY <1>5, <1>6, <1>7, <2>1, <3>1
  <2>2. CASE j = Len(p) + 1
    BY <1>2, <1>4, <1>5, <1>6, <2>2
  <2> QED BY <1>1, <1>5, <2>1, <2>2
<1>14. ASSUME NEW k \in FrontKey \ dr PROVE SpansHold(q, k, max)
  <2>1. CASE k = key
    BY <1>8, <1>14, <2>1
  <2>2. CASE k # key
    <3>1. SpansHold(p, k, max)
      BY <1>14 DEF TableInv
    <3> QED BY <1>1, <1>2, <2>2, <3>1, OtherKeys DEF q
  <2> QED BY <2>1, <2>2
<1>15. Len(us) <= MaxTracked
  BY <1>6 DEF TableInv
<1>16. TableInv(us, q, dr, time, max)
  BY <1>5, <1>6, <1>9, <1>10, <1>11, <1>12, <1>13, <1>14, <1>15 DEF TableInv
<1> QED BY <1>16 DEF us, q, v, e

\* A key without a window passes; the oldest window makes room for its own.
LEMMA NewKey ==
    ASSUME NEW ws, NEW p, NEW dr, NEW time \in Nat, NEW max \in Nat \ {0}, NEW key \in FrontKey, NEW full \in BOOLEAN,
           TableInv(ws, p, dr, time, max), \A i \in DOMAIN ws : ws[i].key # key,
           full <=> Len(ws) >= MaxTracked
    PROVE  TableInv(Append(IF full THEN Tail(ws) ELSE ws, [key |-> key, startedAt |-> time, count |-> 1]),
                    Append(p, [key |-> key, time |-> time]),
                    IF full THEN dr \cup {Head(ws).key} ELSE dr, time, max)
<1> DEFINE e == [key |-> key, time |-> time]
           q == Append(p, e)
           v == [key |-> key, startedAt |-> time, count |-> 1]
           rest == IF full THEN Tail(ws) ELSE ws
           shift == IF full THEN 1 ELSE 0
           us == Append(rest, v)
           dn == IF full THEN dr \cup {Head(ws).key} ELSE dr
<1>1. ws \in Seq(WindowRecord) /\ p \in Seq(PassRecord) /\ Len(ws) \in Nat /\ DOMAIN ws = 1..Len(ws)
  BY DEF TableInv
<1>2. e \in PassRecord /\ e.key = key /\ e.time = time /\ RateWindow \in Nat \ {0} /\ MaxTracked \in Nat \ {0}
  BY FrontAssumption DEF PassRecord
<1>4. v \in WindowRecord /\ v.key = key /\ v.startedAt = time
  BY DEF WindowRecord
<1>5. q \in Seq(PassRecord) /\ DOMAIN q = 1..(Len(p) + 1) /\ q[Len(p) + 1] = e
      /\ \A j \in 1..Len(p) : q[j] = p[j] /\ j \in DOMAIN p
  BY <1>1, <1>2
<1> HIDE DEF q, e, v
<1>a. Len(ws) <= MaxTracked /\ (full => Len(ws) = MaxTracked /\ ws # <<>> /\ Head(ws) = ws[1] /\ 1 \in DOMAIN ws)
  <2>1. Len(ws) <= MaxTracked
    BY DEF TableInv
  <2>2. ASSUME full PROVE Len(ws) = MaxTracked /\ ws # <<>> /\ 1 \in DOMAIN ws
    <3>1. Len(ws) >= MaxTracked
      BY <2>2
    <3>2. PICK n \in Nat : n = Len(ws) /\ DOMAIN ws = 1..n
      BY <1>1
    <3>3. n = MaxTracked /\ n >= 1
      BY <1>2, <2>1, <3>1, <3>2
    <3>4. 1 \in DOMAIN ws
      BY <3>2, <3>3
    <3> QED BY <3>2, <3>3, <3>4
  <2>3. ASSUME full PROVE Head(ws) = ws[1]
    BY <1>1, <2>2, <2>3
  <2> QED BY <2>1, <2>2, <2>3
<1>b. rest \in Seq(WindowRecord) /\ Len(rest) = Len(ws) - shift /\ Len(rest) + 1 <= MaxTracked
      /\ \A j \in 1..Len(rest) : rest[j] = ws[j + shift] /\ j + shift \in DOMAIN ws
  <2>1. CASE full
    BY <1>1, <1>2, <1>a, <2>1
  <2>2. CASE ~full
    <3>1. rest = ws /\ shift = 0
      BY <2>2
    <3>3. Len(ws) < MaxTracked
      BY <1>1, <1>2, <2>2
    <3> HIDE DEF rest, shift
    <3>2. \A j \in 1..Len(ws) : j + shift = j
      BY <3>1
    <3> QED BY <1>1, <1>2, <3>1, <3>2, <3>3
  <2> QED BY <2>1, <2>2
<1>c. shift \in {0, 1}
  OBVIOUS
<1> HIDE DEF rest
<1>6. us \in Seq(WindowRecord) /\ Len(us) = Len(rest) + 1 /\ DOMAIN us = 1..(Len(rest) + 1) /\ us[Len(rest) + 1] = v
      /\ \A j \in 1..Len(rest) : us[j] = rest[j]
  BY <1>4, <1>b
<1> HIDE DEF us, shift
<1>f. Len(rest) \in Nat
  BY <1>b
<1>7. \A j \in DOMAIN us : (j = Len(rest) + 1 /\ us[j] = v) \/ (j \in 1..Len(rest) /\ us[j] = ws[j + shift] /\ j + shift \in DOMAIN ws)
  <2> SUFFICES ASSUME NEW j \in 1..(Len(rest) + 1)
               PROVE  (j = Len(rest) + 1 /\ us[j] = v) \/ (j \in 1..Len(rest) /\ us[j] = ws[j + shift] /\ j + shift \in DOMAIN ws)
    BY <1>6
  <2>1. CASE j \in 1..Len(rest)
    BY <1>b, <1>6, <2>1
  <2>2. CASE j \notin 1..Len(rest)
    BY <1>6, <1>f, <2>2
  <2> QED BY <2>1, <2>2
<1>8. (WindowIsTrue(v, q, time, max) /\ SpansHold(q, key, max)) \/ key \in dr
  <2> SUFFICES ASSUME key \notin dr PROVE WindowIsTrue(v, q, time, max) /\ SpansHold(q, key, max)
    OBVIOUS
  <2>1. \A i \in DOMAIN p : p[i].key # key
    BY DEF TableInv
  <2> QED BY <1>1, <2>1, FirstWindow DEF v, q, e
<1>d. dr \subseteq dn
  OBVIOUS
<1>e. \A k : k \notin dn /\ (\E j \in DOMAIN ws : ws[j].key = k) => \E j \in 1..Len(rest) : us[j].key = k
  <2> SUFFICES ASSUME NEW k, k \notin dn, NEW j \in DOMAIN ws, ws[j].key = k PROVE \E l \in 1..Len(rest) : us[l].key = k
    OBVIOUS
  <2>1. j - shift \in 1..Len(rest)
    <3>1. CASE full
      <4>1. j # 1
        BY <1>a, <3>1
      <4> QED BY <1>1, <1>b, <3>1, <4>1 DEF shift
    <3>2. CASE ~full
      BY <1>1, <1>b, <3>2 DEF shift
    <3> QED BY <3>1, <3>2
  <2>2. us[j - shift] = ws[j]
    BY <1>1, <1>6, <1>b, <1>c, <2>1
  <2> QED BY <2>1, <2>2
<1> HIDE DEF dn
<1>9. \A j, k \in DOMAIN us : j # k => us[j].key # us[k].key
  <2> SUFFICES ASSUME NEW j \in DOMAIN us, NEW k \in DOMAIN us, j # k PROVE us[j].key # us[k].key
    OBVIOUS
  <2>1. CASE j \in 1..Len(rest) /\ k \in 1..Len(rest)
    <3>1. us[j] = ws[j + shift] /\ us[k] = ws[k + shift] /\ j + shift \in DOMAIN ws /\ k + shift \in DOMAIN ws
          /\ j + shift # k + shift
      BY <1>6, <1>7, <1>c, <1>f, <2>1
    <3>2. \A a, b \in DOMAIN ws : a # b => ws[a].key # ws[b].key
      BY DEF TableInv
    <3> QED BY <3>1, <3>2
  <2>2. CASE ~(j \in 1..Len(rest) /\ k \in 1..Len(rest))
    BY <1>4, <1>7, <2>2
  <2> QED BY <2>1, <2>2
<1>10. \A j \in DOMAIN us : us[j].startedAt <= time
  <2>1. \A j \in DOMAIN ws : ws[j].startedAt <= time
    BY DEF TableInv
  <2> QED BY <1>4, <1>7, <2>1
<1>11. \A j \in DOMAIN q : q[j].time <= time
  <2>1. \A j \in DOMAIN p : p[j].time <= time
    BY DEF TableInv
  <2> QED BY <1>2, <1>5, <2>1
<1>12. ASSUME NEW j \in DOMAIN us, us[j].key \notin dn PROVE WindowIsTrue(us[j], q, time, max)
  <2>1. CASE j = Len(rest) + 1 /\ us[j] = v
    BY <1>4, <1>8, <1>12, <1>d, <2>1
  <2>2. CASE j \in 1..Len(rest) /\ us[j] = ws[j + shift] /\ j + shift \in DOMAIN ws
    <3> DEFINE l == j + shift
    <3>1. l \in DOMAIN ws /\ us[j] = ws[l]
      BY <2>2
    <3> HIDE DEF l
    <3>2. ws[l] \in WindowRecord /\ ws[l].key # e.key /\ ws[l].key \notin dr
      BY <1>1, <1>2, <1>12, <1>d, <3>1
    <3>3. WindowIsTrue(ws[l], p, time, max)
      BY <3>1, <3>2 DEF TableInv
    <3> QED BY <1>1, <1>2, <3>1, <3>2, <3>3, OtherKeys DEF q
  <2> QED BY <1>7, <2>1, <2>2
<1>13. ASSUME NEW j \in DOMAIN q, q[j].key \notin dn PROVE \E k \in DOMAIN us : us[k].key = q[j].key
  <2>1. CASE j \in 1..Len(p)
    <3>1. \E k \in DOMAIN ws : ws[k].key = p[j].key
      BY <1>5, <1>13, <1>d, <2>1 DEF TableInv
    <3>2. q[j] = p[j]
      BY <1>5, <2>1
    <3>3. PICK l \in 1..Len(rest) : us[l].key = p[j].key
      BY <1>13, <1>e, <3>1, <3>2
    <3> QED BY <1>6, <1>f, <3>2, <3>3
  <2>2. CASE j = Len(p) + 1
    BY <1>2, <1>4, <1>5, <1>6, <1>b, <2>2
  <2> QED BY <1>1, <1>5, <2>1, <2>2
<1>14. ASSUME NEW k \in FrontKey \ dn PROVE SpansHold(q, k, max)
  <2>1. CASE k = key
    BY <1>8, <1>14, <1>d, <2>1
  <2>2. CASE k # key
    <3>1. SpansHold(p, k, max)
      BY <1>14, <1>d DEF TableInv
    <3> QED BY <1>1, <1>2, <2>2, <3>1, OtherKeys DEF q
  <2> QED BY <2>1, <2>2
<1>15. Len(us) <= MaxTracked
  BY <1>6, <1>b
<1>16. TableInv(us, q, dn, time, max)
  BY <1>5, <1>6, <1>9, <1>10, <1>11, <1>12, <1>13, <1>14, <1>15 DEF TableInv
<1> QED BY <1>16 DEF us, q, v, e, dn, rest

\* Time alone takes nothing away.
LEMMA LaterTable ==
    ASSUME NEW ws, NEW p, NEW dr, NEW time \in Nat, NEW max, TableInv(ws, p, dr, time, max)
    PROVE  TableInv(ws, p, dr, time + 1, max)
<1>1. ws \in Seq(WindowRecord) /\ p \in Seq(PassRecord) /\ \A i \in DOMAIN p : p[i].time <= time
  BY DEF TableInv
<1>2. ASSUME NEW i \in DOMAIN ws, ws[i].key \notin dr PROVE WindowIsTrue(ws[i], p, time + 1, max)
  <2>1. WindowIsTrue(ws[i], p, time, max)
    BY <1>2 DEF TableInv
  <2>2. ws[i] \in WindowRecord
    BY <1>1
  <2>3. ws[i].startedAt \in Int
    BY <2>2 DEF WindowRecord
  <2>4. Passes(p, ws[i].key, ws[i].startedAt, time + 1) = Passes(p, ws[i].key, ws[i].startedAt, time)
    <3>1. \A j \in DOMAIN p : p[j].time <= time /\ p[j].time <= time + 1
      BY <1>1, PassFields
    <3> QED BY <3>1 DEF Passes
  <2> QED BY <2>1, <2>4 DEF WindowIsTrue, Counted
<1>3. \A i \in DOMAIN ws : ws[i].startedAt <= time + 1
  <2> SUFFICES ASSUME NEW i \in DOMAIN ws PROVE ws[i].startedAt <= time + 1
    OBVIOUS
  <2>1. ws[i].startedAt <= time /\ ws[i] \in WindowRecord
    BY <1>1 DEF TableInv
  <2> QED BY <2>1 DEF WindowRecord
<1>4. \A i \in DOMAIN p : p[i].time <= time + 1
  BY <1>1, PassFields
<1> QED BY <1>2, <1>3, <1>4 DEF TableInv

-----------------------------------------------------------------------------
(* What is true of both fronts.                                             *)

TablesHold ==
    \A t \in Table : TableInv(windows[t], passed[t], dropped[t], frontTime, MaxOf(t))

FrontInv ==
    /\ front \in {"relay", "live"} /\ frontTime \in Nat
    /\ DOMAIN windows = Table /\ DOMAIN passed = Table /\ DOMAIN dropped = Table
    /\ \A request \in reading : request.client \in Client /\ request.requester \in Requester
    /\ TablesHold

MapsHold ==
    /\ DOMAIN windows = Table /\ DOMAIN passed = Table /\ DOMAIN dropped = Table
    /\ TablesHold

LEMMA MaxIsPositive == \A t \in Table : MaxOf(t) \in Nat \ {0}
BY FrontAssumption DEF MaxOf, Table

LEMMA FrontInvInit == FrontInit => FrontInv
<1> SUFFICES ASSUME FrontInit PROVE FrontInv
  OBVIOUS
<1>1. ASSUME NEW t \in Table PROVE TableInv(<<>>, <<>>, {}, 0, MaxOf(t))
  <2> DEFINE none == <<>>
  <2>1. none \in Seq(WindowRecord) /\ none \in Seq(PassRecord) /\ Len(none) = 0 /\ DOMAIN none = {}
    OBVIOUS
  <2>2. MaxTracked \in Nat /\ RateWindow \in Nat
    BY FrontAssumption
  <2>3. MaxOf(t) \in Nat
    BY MaxIsPositive
  <2>4. \A k \in FrontKey : SpansHold(none, k, MaxOf(t))
    <3> SUFFICES ASSUME NEW k \in FrontKey, NEW u \in Int
                 PROVE  Counted(none, k, u, u + RateWindow - 1) <= 2 * MaxOf(t)
      BY DEF SpansHold
    <3>1. Passes(none, k, u, u + RateWindow - 1) = {}
      BY <2>1 DEF Passes
    <3>2. Counted(none, k, u, u + RateWindow - 1) = 0
      BY <3>1, FS_EmptySet DEF Counted
    <3> QED BY <2>3, <3>2
  <2> HIDE DEF none
  <2>5. TableInv(none, none, {}, 0, MaxOf(t))
    BY <2>1, <2>2, <2>4 DEF TableInv
  <2> QED BY <2>5 DEF none
<1>2. TablesHold
  BY <1>1 DEF FrontInit, TablesHold
<1> QED BY <1>2 DEF FrontInit, FrontInv

LEMMA ConsumeKeeps ==
    ASSUME NEW table \in Table, NEW key \in FrontKey,
           MapsHold, frontTime \in Nat, consume(table, key), UNCHANGED frontTime
    PROVE  MapsHold'
<1> DEFINE ws == windows[table]
           p == passed[table]
           dr == dropped[table]
           e == [key |-> key, time |-> frontTime]
<1>1. TableInv(ws, p, dr, frontTime, MaxOf(table)) /\ MaxOf(table) \in Nat \ {0}
  BY MaxIsPositive DEF MapsHold, TablesHold
<1>2. CASE ~Admits(table, key)
  BY <1>2 DEF consume, MapsHold, TablesHold
<1>3. CASE Admits(table, key)
  <2>1. passed' = [passed EXCEPT ![table] = Append(p, e)]
    BY <1>3 DEF consume
  <2>a. DOMAIN passed' = Table /\ passed'[table] = Append(p, e) /\ \A t \in Table \ {table} : passed'[t] = passed[t]
    BY <2>1 DEF MapsHold
  <2>b. SUFFICES /\ DOMAIN windows' = Table /\ DOMAIN dropped' = Table
                 /\ \A t \in Table \ {table} : windows'[t] = windows[t] /\ dropped'[t] = dropped[t]
                 /\ TableInv(windows'[table], Append(p, e), dropped'[table], frontTime, MaxOf(table))
    <3>1. ASSUME NEW t \in Table
          PROVE  TableInv(windows'[t], passed'[t], dropped'[t], frontTime, MaxOf(t))
      <4>1. CASE t = table
        BY <2>a, <2>b, <4>1
      <4>2. CASE t # table
        BY <2>a, <2>b, <4>2 DEF MapsHold, TablesHold
      <4> QED BY <4>1, <4>2
    <3>2. \A t \in Table : MaxOf(t)' = MaxOf(t)
      BY DEF MaxOf
    <3> QED BY <2>a, <2>b, <3>1, <3>2 DEF MapsHold, TablesHold
  <2>2. ASSUME NEW i \in PlaceOf(table, key),
               windows' = [windows EXCEPT ![table][i] =
                   IF Ended(@) THEN Window(key) ELSE OneMore(@)],
               UNCHANGED dropped
        PROVE  /\ DOMAIN windows' = Table /\ DOMAIN dropped' = Table
               /\ \A t \in Table \ {table} : windows'[t] = windows[t] /\ dropped'[t] = dropped[t]
               /\ TableInv(windows'[table], Append(p, e), dropped'[table], frontTime, MaxOf(table))
    <3>1. i \in DOMAIN ws /\ ws[i].key = key
      BY DEF PlaceOf
    <3>2. Ended(ws[i]) \/ ~Full(table, ws[i])
      BY <1>3 DEF Admits
    <3>3. frontTime - ws[i].startedAt >= RateWindow \/ ws[i].count < MaxOf(table)
      <4>1. ws[i].count \in Nat
        <5>1. ws[i] \in WindowRecord
          BY <1>1, <3>1 DEF TableInv
        <5> QED BY <5>1 DEF WindowRecord
      <4> QED BY <1>1, <3>2, <4>1 DEF Ended, Full
    <3>4. windows'[table] = [ws EXCEPT ![i] = IF frontTime - ws[i].startedAt >= RateWindow
                                               THEN [key |-> key, startedAt |-> frontTime, count |-> 1]
                                               ELSE [ws[i] EXCEPT !.count = @ + 1]]
      <4> DEFINE v == IF Ended(ws[i]) THEN Window(key) ELSE OneMore(ws[i])
      <4>1. windows' = [windows EXCEPT ![table][i] = v]
        BY <2>2
      <4> HIDE DEF v
      <4>2. windows'[table] = [ws EXCEPT ![i] = v]
        BY <4>1 DEF MapsHold
      <4> QED BY <4>2 DEF v, Ended, Window, OneMore
    <3>5. TableInv(windows'[table], Append(p, e), dr, frontTime, MaxOf(table))
      BY <1>1, <3>1, <3>3, <3>4, KnownKey
    <3>6. DOMAIN windows' = Table /\ \A t \in Table \ {table} : windows'[t] = windows[t]
      BY <2>2 DEF MapsHold
    <3> QED BY <2>2, <3>5, <3>6 DEF MapsHold
  <2>3. ASSUME NEW full \in BOOLEAN, full <=> Len(ws) >= MaxTracked, PlaceOf(table, key) = {},
               windows' = [windows EXCEPT ![table] = Append(IF full THEN Tail(@) ELSE @, Window(key))],
               dropped' = [dropped EXCEPT ![table] = IF full THEN @ \union {Head(ws).key} ELSE @]
        PROVE  /\ DOMAIN windows' = Table /\ DOMAIN dropped' = Table
               /\ \A t \in Table \ {table} : windows'[t] = windows[t] /\ dropped'[t] = dropped[t]
               /\ TableInv(windows'[table], Append(p, e), dropped'[table], frontTime, MaxOf(table))
    <3>1. \A i \in DOMAIN ws : ws[i].key # key
      BY <2>3 DEF PlaceOf
    <3>2. windows'[table] = Append(IF full THEN Tail(ws) ELSE ws, [key |-> key, startedAt |-> frontTime, count |-> 1])
      BY <2>3 DEF MapsHold, Window
    <3>3. dropped'[table] = IF full THEN dr \cup {Head(ws).key} ELSE dr
      BY <2>3 DEF MapsHold
    <3>4. TableInv(windows'[table], Append(p, e), dropped'[table], frontTime, MaxOf(table))
      <4>1. full <=> Len(ws) >= MaxTracked
        BY <2>3
      <4> HIDE DEF ws, p, dr
      <4>2. TableInv(Append(IF full THEN Tail(ws) ELSE ws, [key |-> key, startedAt |-> frontTime, count |-> 1]),
                     Append(p, e), IF full THEN dr \cup {Head(ws).key} ELSE dr, frontTime, MaxOf(table))
        BY <1>1, <3>1, <4>1, NewKey
      <4> QED BY <3>2, <3>3, <4>2, Zenon
    <3> QED BY <2>3, <3>4 DEF MapsHold
  <2> QED
    <3>1. CASE \E i \in PlaceOf(table, key) :
                  /\ windows' = [windows EXCEPT ![table][i] =
                       IF Ended(@) THEN Window(key) ELSE OneMore(@)]
                  /\ UNCHANGED dropped
      BY <2>2, <3>1
    <3>2. CASE /\ PlaceOf(table, key) = {}
               /\ LET full == Len(windows[table]) >= MaxTracked IN
                  /\ windows' = [windows EXCEPT ![table] = Append(IF full THEN Tail(@) ELSE @, Window(key))]
                  /\ dropped' = [dropped EXCEPT ![table] =
                       IF full THEN @ \union {Head(windows[table]).key} ELSE @]
      <4>1. (Len(ws) >= MaxTracked) \in BOOLEAN
        OBVIOUS
      <4> QED BY <2>3, <3>2, <4>1
    <3> QED BY <1>3, <3>1, <3>2 DEF consume
<1> QED BY <1>2, <1>3

LEMMA FrontInvNext == FrontInv /\ [FrontNext]_frontVars => FrontInv'
<1> SUFFICES ASSUME FrontInv, [FrontNext]_frontVars PROVE FrontInv'
  OBVIOUS
<1>1. MapsHold /\ frontTime \in Nat /\ front \in {"relay", "live"}
  BY DEF FrontInv, MapsHold
<1>2. Client \subseteq FrontKey /\ (Client \X Requester) \subseteq FrontKey /\ {"relay", "live", "requester"} = Table
  BY DEF FrontKey, Table
<1>3. ASSUME UNCHANGED <<windows, passed, dropped, frontTime>> PROVE MapsHold'
  <2>1. \A t \in Table : MaxOf(t)' = MaxOf(t)
    BY DEF MaxOf
  <2> QED BY <1>1, <1>3, <2>1 DEF MapsHold, TablesHold
<1>4. SUFFICES ASSUME FrontNext PROVE FrontInv'
  <2>1. CASE UNCHANGED frontVars
    BY <1>1, <1>3, <2>1 DEF frontVars, FrontInv, MapsHold
  <2> QED BY <1>4, <2>1
<1>5. ASSUME NEW client \in Client, NEW requester \in Requester, NEW form \in {"content type", "malformed", "good"},
             Arrive([client |-> client, requester |-> requester, form |-> form]), UNCHANGED front
      PROVE  FrontInv'
  <2> DEFINE request == [client |-> client, requester |-> requester, form |-> form]
  <2>1. UNCHANGED frontTime /\ reading' \subseteq reading \cup {request}
    BY <1>5 DEF Arrive
  <2>2. \A r \in reading' : r.client \in Client /\ r.requester \in Requester
    <3> SUFFICES ASSUME NEW r \in reading' PROVE r.client \in Client /\ r.requester \in Requester
      OBVIOUS
    <3>1. CASE r = request
      BY <3>1
    <3>2. CASE r # request
      BY <2>1, <3>2 DEF FrontInv
    <3> QED BY <3>1, <3>2
  <2>3. consume(front, client) \/ UNCHANGED <<windows, passed, dropped>>
    BY <1>5 DEF Arrive
  <2>4. MapsHold'
    <3>1. CASE consume(front, client)
      BY <1>1, <1>2, <2>1, <3>1, ConsumeKeeps
    <3>2. CASE UNCHANGED <<windows, passed, dropped>>
      BY <1>3, <2>1, <3>2
    <3> QED BY <2>3, <3>1, <3>2
  <2> QED BY <1>1, <1>5, <2>1, <2>2, <2>4 DEF FrontInv, MapsHold
<1>6. ASSUME NEW request \in reading, BodyRead(request), UNCHANGED front PROVE FrontInv'
  <2>1. UNCHANGED frontTime /\ reading' \subseteq reading /\ request.client \in Client /\ request.requester \in Requester
    BY <1>6 DEF BodyRead, FrontInv
  <2>2. \A r \in reading' : r.client \in Client /\ r.requester \in Requester
    BY <2>1 DEF FrontInv
  <2>3. consume("requester", <<request.client, request.requester>>) \/ UNCHANGED <<windows, passed, dropped>>
    BY <1>6 DEF BodyRead, RelayGoesOn, LiveGoesOn
  <2>4. MapsHold'
    <3>1. CASE consume("requester", <<request.client, request.requester>>)
      <4>1. <<request.client, request.requester>> \in FrontKey /\ "requester" \in Table
        BY <1>2, <2>1
      <4> QED BY <1>1, <2>1, <3>1, <4>1, ConsumeKeeps
    <3>2. CASE UNCHANGED <<windows, passed, dropped>>
      BY <1>3, <2>1, <3>2
    <3> QED BY <2>3, <3>1, <3>2
  <2> QED BY <1>1, <1>6, <2>1, <2>2, <2>4 DEF FrontInv, MapsHold
<1>7. ASSUME FrontTick, UNCHANGED front PROVE FrontInv'
  <2>1. frontTime' = frontTime + 1 /\ UNCHANGED <<windows, passed, dropped, reading>>
    BY <1>7 DEF FrontTick
  <2>2. ASSUME NEW t \in Table PROVE TableInv(windows'[t], passed'[t], dropped'[t], frontTime', MaxOf(t))
    BY <1>1, <2>1, LaterTable DEF MapsHold, TablesHold
  <2>3. \A t \in Table : MaxOf(t)' = MaxOf(t)
    BY DEF MaxOf
  <2>4. TablesHold'
    BY <2>2, <2>3 DEF TablesHold
  <2> QED BY <1>1, <1>7, <2>1, <2>4 DEF FrontInv
<1> QED BY <1>4, <1>5, <1>6, <1>7 DEF FrontNext

LEMMA FrontInvImplies == FrontInv => WindowsHold
<1> SUFFICES ASSUME FrontInv, NEW table \in Table
    PROVE
        /\ Len(windows[table]) <= MaxTracked
        /\ \A i, j \in DOMAIN windows[table] : i # j => windows[table][i].key # windows[table][j].key
        /\ \A w \in ToSet(windows[table]) : w.key \notin dropped[table] =>
             /\ w.count <= MaxOf(table)
             /\ w.count = PassedSince(table, w.key, w.startedAt, frontTime)
        /\ \A k \in {passed[table][i].key : i \in DOMAIN passed[table]} \ dropped[table], t \in 0..frontTime :
             PassedSince(table, k, t, t + RateWindow - 1) <= 2 * MaxOf(table)
  BY DEF WindowsHold
<1>1. TableInv(windows[table], passed[table], dropped[table], frontTime, MaxOf(table))
  BY DEF FrontInv, TablesHold
<1>2. \A k, a, b : PassedSince(table, k, a, b) = Counted(passed[table], k, a, b)
  BY DEF PassedSince, Counted, Passes
<1>3. \A w \in ToSet(windows[table]) : \E i \in DOMAIN windows[table] : w = windows[table][i]
  BY DEF ToSet
<1>4. ASSUME NEW w \in ToSet(windows[table]), w.key \notin dropped[table]
      PROVE  w.count <= MaxOf(table) /\ w.count = PassedSince(table, w.key, w.startedAt, frontTime)
  <2>1. PICK i \in DOMAIN windows[table] : w = windows[table][i]
    BY <1>3
  <2>2. WindowIsTrue(w, passed[table], frontTime, MaxOf(table))
    BY <1>1, <1>4, <2>1 DEF TableInv
  <2> QED BY <1>2, <2>2 DEF WindowIsTrue
<1>5. ASSUME NEW k \in {passed[table][i].key : i \in DOMAIN passed[table]} \ dropped[table], NEW t \in 0..frontTime
      PROVE  PassedSince(table, k, t, t + RateWindow - 1) <= 2 * MaxOf(table)
  <2>1. PICK i \in DOMAIN passed[table] : k = passed[table][i].key
    OBVIOUS
  <2>2. passed[table] \in Seq(PassRecord)
    BY <1>1 DEF TableInv
  <2>3. k \in FrontKey \ dropped[table]
    BY <2>1, <2>2, PassFields
  <2>4. SpansHold(passed[table], k, MaxOf(table))
    BY <1>1, <2>3 DEF TableInv
  <2>5. t \in Int
    OBVIOUS
  <2> QED BY <1>2, <2>4, <2>5 DEF SpansHold
<1>6. Len(windows[table]) <= MaxTracked
      /\ \A i, j \in DOMAIN windows[table] : i # j => windows[table][i].key # windows[table][j].key
  BY <1>1 DEF TableInv
<1> QED BY <1>4, <1>5, <1>6

\* Whoever comes when: a key that was never dropped passes at most twice the
\* maximum in any span of a window's length, counts are those of what passed,
\* and the maps stay within their size (http.ts:222-243, live-http.ts:151-162).
THEOREM WindowsAlwaysHold == FrontSpec => []WindowsHold
BY FrontInvInit, FrontInvNext, FrontInvImplies, PTL DEF FrontSpec

-----------------------------------------------------------------------------
(* The monitor.                                                             *)

\* A set is put in order by a sequence that has each of its members once.
LEMMA SeqOfSet ==
    ASSUME NEW S, IsFiniteSet(S)
    PROVE  /\ SetToSeq(S) \in [1..Cardinality(S) -> S]
           /\ \A a, b \in 1..Cardinality(S) : SetToSeq(S)[a] = SetToSeq(S)[b] => a = b
           /\ \A k \in S : \E i \in 1..Cardinality(S) : SetToSeq(S)[i] = k
<1>1. Cardinality(S) \in Nat /\ ExistsBijection(1..Cardinality(S), S)
  BY FS_CardinalityType
<1>2. PICK g \in Bijection(1..Cardinality(S), S) : TRUE
  BY <1>1 DEF ExistsBijection
<1>3. g \in [1..Cardinality(S) -> S] /\ IsInjective(g)
  BY <1>2 DEF Bijection, Injection, IsInjective
<1>4. SetToSeq(S) \in [1..Cardinality(S) -> S] /\ IsInjective(SetToSeq(S))
  BY <1>3 DEF SetToSeq
<1>5. IsFiniteSet(1..Cardinality(S)) /\ Cardinality(1..Cardinality(S)) = Cardinality(S)
  BY <1>1, FS_Interval
<1>6. SetToSeq(S) \in Injection(1..Cardinality(S), S)
  BY <1>4 DEF Injection, IsInjective
<1>7. SetToSeq(S) \in Surjection(1..Cardinality(S), S)
  BY <1>5, <1>6, FS_Injection
<1> QED BY <1>4, <1>7 DEF IsInjective, Surjection

IncidentRecord == [kind : AlertKind, severity : {"critical", "warning"}, state : {"active", "resolved"}, at : Int]

Snapshot == [at : Int, relay : BOOLEAN, rpc : BOOLEAN, machineReady : Nat]

\* What the property says of the incidents, of any sequence and any alerts.
NextOf(s, i, j) ==
    i < j /\ s[i].kind = s[j].kind /\ \A l \in (i + 1)..(j - 1) : s[l].kind # s[i].kind

LastOf(s, i) == \A j \in DOMAIN s : j > i => s[j].kind # s[i].kind

InTurn(s) == \A i, j \in DOMAIN s : NextOf(s, i, j) => s[i].state # s[j].state

Tells(s, alerts) ==
    \A i \in DOMAIN s : LastOf(s, i) =>
        /\ s[i].state = "active" <=> s[i].kind \in DOMAIN alerts
        /\ s[i].kind \in DOMAIN alerts => s[i].at = alerts[s[i].kind]

\* One incident of a batch turns an alert on or off.
Turns(incident, alerts, later) ==
    \/ /\ incident.state = "active" /\ incident.kind \notin DOMAIN alerts
       /\ incident.kind \in DOMAIN later /\ incident.at = later[incident.kind]
    \/ /\ incident.state = "resolved" /\ incident.kind \in DOMAIN alerts
       /\ incident.kind \notin DOMAIN later

TurnsAll(batch, alerts, later) ==
    /\ \A a, b \in DOMAIN batch : batch[a].kind = batch[b].kind => a = b
    /\ \A b \in DOMAIN batch : Turns(batch[b], alerts, later)
    /\ \A k : (\A b \in DOMAIN batch : batch[b].kind # k) =>
          (k \in DOMAIN alerts <=> k \in DOMAIN later) /\ (k \in DOMAIN later => later[k] = alerts[k])

LEMMA BatchFollows ==
    ASSUME NEW s \in Seq(IncidentRecord), NEW batch \in Seq(IncidentRecord), NEW alerts, NEW later,
           InTurn(s), Tells(s, alerts), TurnsAll(batch, alerts, later)
    PROVE  InTurn(s \o batch) /\ Tells(s \o batch, later)
<1> DEFINE all == s \o batch
           n == Len(s)
<1>1. /\ n \in Nat /\ DOMAIN s = 1..n /\ Len(batch) \in Nat /\ DOMAIN batch = 1..Len(batch)
      /\ DOMAIN all = 1..(n + Len(batch))
      /\ \A i \in 1..n : all[i] = s[i]
      /\ \A b \in DOMAIN batch : all[n + b] = batch[b]
      /\ \A i \in DOMAIN all : i > n => i - n \in DOMAIN batch /\ all[i] = batch[i - n]
  OBVIOUS
<1> HIDE DEF all, n
<1>2. ASSUME NEW i \in DOMAIN all, NEW j \in DOMAIN all, NextOf(all, i, j)
      PROVE  all[i].state # all[j].state
  <2>1. i \in Int /\ j \in Int /\ i >= 1 /\ j >= 1 /\ i < j /\ all[i].kind = all[j].kind
        /\ \A l \in (i + 1)..(j - 1) : all[l].kind # all[i].kind
    BY <1>1, <1>2 DEF NextOf
  <2>2. CASE j <= n
    <3>1. i \in 1..n /\ j \in 1..n
      BY <1>1, <2>1, <2>2
    <3>2. \A l \in (i + 1)..(j - 1) : l \in 1..n
      BY <1>1, <2>1, <2>2
    <3>3. NextOf(s, i, j)
      BY <1>1, <2>1, <3>1, <3>2 DEF NextOf
    <3> QED BY <1>1, <3>1, <3>3 DEF InTurn
  <2>3. CASE i <= n /\ j > n
    <3>1. i \in 1..n
      BY <1>1, <2>1, <2>3
    <3>2. LastOf(s, i)
      <4> SUFFICES ASSUME NEW l \in DOMAIN s, l > i PROVE s[l].kind # s[i].kind
        BY DEF LastOf
      <4>1. l \in (i + 1)..(j - 1) /\ l \in 1..n
        BY <1>1, <2>1, <2>3
      <4> QED BY <1>1, <2>1, <3>1, <4>1
    <3>3. j - n \in DOMAIN batch /\ all[j] = batch[j - n]
      BY <1>1, <2>3
    <3>4. Turns(all[j], alerts, later)
      BY <3>3 DEF TurnsAll
    <3>5. s[i].state = "active" <=> s[i].kind \in DOMAIN alerts
      BY <1>1, <3>1, <3>2 DEF Tells
    <3>6. s[i].state = "active" <=> all[j].kind \in DOMAIN alerts
      BY <1>1, <2>1, <3>1, <3>5
    <3> QED BY <1>1, <3>1, <3>4, <3>6 DEF Turns
  <2>4. CASE i > n
    <3>1. /\ i - n \in DOMAIN batch /\ all[i] = batch[i - n]
          /\ j - n \in DOMAIN batch /\ all[j] = batch[j - n]
      BY <1>1, <2>1, <2>4
    <3>2. i - n = j - n
      BY <2>1, <3>1 DEF TurnsAll
    <3> QED BY <1>1, <2>1, <3>2
  <2> QED BY <1>1, <2>1, <2>2, <2>3, <2>4
<1>3. ASSUME NEW i \in DOMAIN all, LastOf(all, i)
      PROVE  /\ all[i].state = "active" <=> all[i].kind \in DOMAIN later
             /\ all[i].kind \in DOMAIN later => all[i].at = later[all[i].kind]
  <2>1. CASE i <= n
    <3>1. i \in 1..n /\ all[i] = s[i]
      BY <1>1, <2>1
    <3>2. LastOf(s, i)
      <4>1. ASSUME NEW j \in DOMAIN s, j > i PROVE s[j].kind # s[i].kind
        <5>1. j \in DOMAIN all /\ all[j] = s[j]
          BY <1>1
        <5> QED BY <1>3, <4>1, <5>1, <3>1 DEF LastOf
      <4> QED BY <4>1 DEF LastOf
    <3>3. \A b \in DOMAIN batch : batch[b].kind # all[i].kind
      <4>1. ASSUME NEW b \in DOMAIN batch PROVE batch[b].kind # all[i].kind
        <5>1. n + b \in DOMAIN all /\ n + b > i /\ all[n + b] = batch[b]
          BY <1>1, <3>1
        <5> QED BY <1>3, <5>1 DEF LastOf
      <4> QED BY <4>1
    <3>4. /\ all[i].kind \in DOMAIN alerts <=> all[i].kind \in DOMAIN later
          /\ all[i].kind \in DOMAIN later => later[all[i].kind] = alerts[all[i].kind]
      BY <3>3 DEF TurnsAll
    <3>5. /\ s[i].state = "active" <=> s[i].kind \in DOMAIN alerts
          /\ s[i].kind \in DOMAIN alerts => s[i].at = alerts[s[i].kind]
      BY <1>1, <3>1, <3>2 DEF Tells
    <3> QED BY <3>1, <3>4, <3>5
  <2>2. CASE i > n
    <3>1. Turns(all[i], alerts, later)
      BY <1>1, <2>2 DEF TurnsAll
    <3> QED BY <3>1 DEF Turns
  <2> QED BY <1>1, <2>1, <2>2
<1> QED BY <1>2, <1>3 DEF InTurn, Tells, all

\* A sequence cut to its latest is the end of it.
LEMMA TrimmedIsEnd ==
    ASSUME NEW X, NEW s \in Seq(X), NEW limit \in Nat \ {0}
    PROVE  /\ Trimmed(s, limit) \in Seq(X)
           /\ \E d \in 0..Len(s) :
                /\ DOMAIN Trimmed(s, limit) = 1..(Len(s) - d)
                /\ Len(Trimmed(s, limit)) = Len(s) - d
                /\ \A i \in 1..(Len(s) - d) : Trimmed(s, limit)[i] = s[i + d]
                /\ s # <<>> => d < Len(s)
<1>1. CASE Len(s) > limit
  <2>1. Trimmed(s, limit) = SubSeq(s, Len(s) - limit + 1, Len(s))
    BY <1>1 DEF Trimmed, Latest
  <2>2. Len(s) - limit \in 0..Len(s) /\ Len(s) - limit < Len(s) /\ Len(s) \in Nat
    BY <1>1
  <2> DEFINE d == Len(s) - limit
  <2>3. d \in Nat /\ d + 1 \in 1..Len(s) /\ d + limit = Len(s)
    BY <1>1
  <2>4. /\ SubSeq(s, d + 1, Len(s)) \in Seq(X)
        /\ Len(SubSeq(s, d + 1, Len(s))) = Len(s) - d
        /\ \A i \in 1..(Len(s) - d) : SubSeq(s, d + 1, Len(s))[i] = s[i + d]
    <3>1. \A i \in (d + 1)..Len(s) : s[i] \in X
      BY <2>3
    <3>2. d + 1 \in Int /\ Len(s) \in Int /\ d + 1 <= Len(s) /\ Len(s) - (d + 1) + 1 = Len(s) - d
      BY <2>2, <2>3
    <3>3. \A i \in 1..(Len(s) - d) : d + 1 + i - 1 = i + d
      BY <2>2, <2>3
    <3> HIDE DEF d
    <3>4. /\ SubSeq(s, d + 1, Len(s)) \in Seq(X)
          /\ Len(SubSeq(s, d + 1, Len(s))) = Len(s) - (d + 1) + 1
          /\ \A i \in 1..(Len(s) - (d + 1) + 1) : SubSeq(s, d + 1, Len(s))[i] = s[d + 1 + i - 1]
      BY <3>1, <3>2, SubSeqProperties
    <3> QED BY <3>2, <3>3, <3>4
  <2>5. DOMAIN SubSeq(s, d + 1, Len(s)) = 1..(Len(s) - d)
    BY <2>4
  <2> QED BY <2>1, <2>2, <2>4, <2>5
<1>2. CASE ~ (Len(s) > limit)
  <2>1. Trimmed(s, limit) = s
    BY <1>2 DEF Trimmed
  <2>2. 0 \in 0..Len(s) /\ Len(s) - 0 = Len(s) /\ DOMAIN s = 1..Len(s) /\ (s # <<>> => 0 < Len(s))
    OBVIOUS
  <2>3. \A i \in 1..(Len(s) - 0) : s[i] = s[i + 0]
    OBVIOUS
  <2>4. \E d \in 0..Len(s) :
          /\ DOMAIN s = 1..(Len(s) - d) /\ Len(s) = Len(s) - d
          /\ \A i \in 1..(Len(s) - d) : s[i] = s[i + d]
          /\ s # <<>> => d < Len(s)
    <3> WITNESS 0 \in 0..Len(s)
    <3> QED BY <2>2, <2>3
  <2> QED BY <2>1, <2>4
<1> QED BY <1>1, <1>2

LEMMA EndFollows ==
    ASSUME NEW s \in Seq(IncidentRecord), NEW limit \in Nat \ {0}, NEW alerts,
           InTurn(s), Tells(s, alerts)
    PROVE  InTurn(Trimmed(s, limit)) /\ Tells(Trimmed(s, limit), alerts)
<1> DEFINE e == Trimmed(s, limit)
<1>1. PICK d \in 0..Len(s) : /\ DOMAIN e = 1..(Len(s) - d)
                             /\ \A i \in 1..(Len(s) - d) : e[i] = s[i + d]
  BY TrimmedIsEnd
<1>2. \A i \in DOMAIN e : i + d \in DOMAIN s /\ e[i] = s[i + d]
  BY <1>1
<1>3. Len(s) \in Nat /\ DOMAIN s = 1..Len(s)
  OBVIOUS
<1> HIDE DEF e
<1>4. ASSUME NEW i \in DOMAIN e, NEW j \in DOMAIN e, NextOf(e, i, j) PROVE e[i].state # e[j].state
  <2>1. i \in Int /\ j \in Int /\ i >= 1 /\ i < j /\ j <= Len(s) - d
    BY <1>1, <1>4 DEF NextOf
  <2>2. NextOf(s, i + d, j + d)
    <3>1. ASSUME NEW l \in (i + d + 1)..(j + d - 1) PROVE s[l].kind # s[i + d].kind
      <4>1. l - d \in (i + 1)..(j - 1) /\ l - d \in DOMAIN e /\ l - d + d = l
        BY <1>1, <2>1
      <4> QED BY <1>2, <1>4, <4>1 DEF NextOf
    <3> QED BY <1>2, <1>4, <2>1, <3>1 DEF NextOf
  <2> QED BY <1>2, <2>2 DEF InTurn
<1>5. ASSUME NEW i \in DOMAIN e, LastOf(e, i) PROVE LastOf(s, i + d)
  <2> SUFFICES ASSUME NEW j \in DOMAIN s, j > i + d PROVE s[j].kind # s[i + d].kind
    BY DEF LastOf
  <2>1. j - d \in DOMAIN e /\ j - d > i /\ j - d + d = j
    BY <1>1, <1>3
  <2> QED BY <1>2, <1>5, <2>1 DEF LastOf
<1>6. ASSUME NEW i \in DOMAIN e, LastOf(e, i)
      PROVE  /\ e[i].state = "active" <=> e[i].kind \in DOMAIN alerts
             /\ e[i].kind \in DOMAIN alerts => e[i].at = alerts[e[i].kind]
  BY <1>2, <1>5, <1>6 DEF Tells
<1> QED BY <1>4, <1>6 DEF InTurn, Tells, e

-----------------------------------------------------------------------------

\* Samples are numbered; one that is in flight is not in the history yet.
SamplesAreNumbered ==
    /\ samples \in Nat
    /\ \A s \in probing :
          /\ s = [at |-> s.at, answers |-> s.answers] /\ s.at \in 1..samples
          /\ \A d \in DOMAIN s.answers : s.answers[d] \in BOOLEAN
    /\ \A s, u \in probing : s.at = u.at => s = u
    /\ history \in Seq(Snapshot)
    /\ \A i \in DOMAIN history : history[i].at <= samples /\ \A s \in probing : history[i].at # s.at
    /\ \A i, j \in DOMAIN history : history[i].at = history[j].at => i = j

\* The alerts are those that the last snapshot calls for.
AlertsAreDesired ==
    /\ history = <<>> => DOMAIN activeAlerts = {}
    /\ history # <<>> => DOMAIN activeAlerts = desired(Last(history))

AlertsStand ==
    \A kind \in DOMAIN activeAlerts : \A i, j \in DOMAIN history :
        history[i].at = activeAlerts[kind] /\ i <= j => kind \in desired(history[j])

IncidentsFollow ==
    incidents \in Seq(IncidentRecord) /\ InTurn(incidents) /\ Tells(incidents, activeAlerts)

MonitorInv == SamplesAreNumbered /\ AlertsAreDesired /\ AlertsStand /\ IncidentsFollow

LEMMA KindsAreFinite == ASSUME NEW S \in SUBSET AlertKind PROVE IsFiniteSet(S)
<1>1. IsFiniteSet({}) 
  BY FS_EmptySet
<1>2. IsFiniteSet({} \cup {"relay-unavailable"})
  BY <1>1, FS_AddElement
<1>3. IsFiniteSet(({} \cup {"relay-unavailable"}) \cup {"rpc-unavailable"})
  BY <1>2, FS_AddElement
<1>4. IsFiniteSet((({} \cup {"relay-unavailable"}) \cup {"rpc-unavailable"}) \cup {"fcc-quorum-unavailable"})
  BY <1>3, FS_AddElement
<1>5. IsFiniteSet(((({} \cup {"relay-unavailable"}) \cup {"rpc-unavailable"}) \cup {"fcc-quorum-unavailable"})
                     \cup {"fcc-custody-set-degraded"})
  BY <1>4, FS_AddElement
<1>6. AlertKind = ((({} \cup {"relay-unavailable"}) \cup {"rpc-unavailable"}) \cup {"fcc-quorum-unavailable"})
                     \cup {"fcc-custody-set-degraded"}
  BY DEF AlertKind
<1>7. IsFiniteSet(AlertKind)
  BY <1>5, <1>6, Zenon
<1> QED BY <1>7, FS_Subset

\* Health is read off the alerts that a snapshot calls for.
LEMMA HealthIsOfSnapshot ==
    ASSUME NEW snapshot \in Snapshot
    PROVE  healthOf(snapshot) =
             IF \E k \in desired(snapshot) : severityOf(k) = "critical" THEN "critical"
             ELSE IF desired(snapshot) # {} THEN "degraded" ELSE "ready"
<1> DEFINE urgent == ~ snapshot.relay \/ ~ snapshot.rpc \/ snapshot.machineReady < 2
<1>1. snapshot.machineReady \in Nat
  BY DEF Snapshot
<1>2. CASE urgent
  <2>1. \E k \in desired(snapshot) : severityOf(k) = "critical"
    <3>1. CASE ~ snapshot.relay
      <4>1. "relay-unavailable" \in desired(snapshot)
        BY <3>1 DEF desired, AlertKind
      <4> QED BY <4>1 DEF severityOf
    <3>2. CASE ~ snapshot.rpc
      <4>1. "rpc-unavailable" \in desired(snapshot)
        BY <3>2 DEF desired, AlertKind
      <4> QED BY <4>1 DEF severityOf
    <3>3. CASE snapshot.machineReady < 2
      <4>1. "fcc-quorum-unavailable" \in desired(snapshot)
        BY <3>3 DEF desired, AlertKind
      <4> QED BY <4>1 DEF severityOf
    <3> QED BY <1>2, <3>1, <3>2, <3>3
  <2> QED BY <1>2, <2>1 DEF healthOf
<1>3. CASE ~ urgent /\ snapshot.machineReady < 3
  <2>1. "fcc-custody-set-degraded" \in desired(snapshot)
    BY <1>1, <1>3 DEF desired, AlertKind
  <2>2. \A k \in desired(snapshot) : k = "fcc-custody-set-degraded"
    BY <1>3 DEF desired
  <2>3. ~ \E k \in desired(snapshot) : severityOf(k) = "critical"
    BY <2>2 DEF severityOf
  <2>4. healthOf(snapshot) = "degraded"
    BY <1>3 DEF healthOf
  <2> QED BY <2>1, <2>3, <2>4
<1>4. CASE ~ urgent /\ ~ (snapshot.machineReady < 3)
  <2>1. desired(snapshot) = {}
    BY <1>4 DEF desired
  <2>2. healthOf(snapshot) = "ready"
    BY <1>4 DEF healthOf
  <2> QED BY <2>1, <2>2
<1> QED BY <1>2, <1>3, <1>4

\* A batch of incidents of one state, in the order of a sequence of their set.
LEMMA BatchOfKinds ==
    ASSUME NEW S \in SUBSET AlertKind, NEW state \in {"active", "resolved"}, NEW at \in Int
    PROVE  LET batch == [i \in 1..Cardinality(S) |-> Incident(SetToSeq(S)[i], state, at)] IN
           /\ batch \in Seq(IncidentRecord)
           /\ \A i \in DOMAIN batch : batch[i].kind \in S /\ batch[i].state = state /\ batch[i].at = at
           /\ \A i, j \in DOMAIN batch : batch[i].kind = batch[j].kind => i = j
           /\ \A k \in S : \E i \in DOMAIN batch : batch[i].kind = k
<1> DEFINE q == SetToSeq(S)
           batch == [i \in 1..Cardinality(S) |-> Incident(q[i], state, at)]
<1>1. IsFiniteSet(S)
  BY KindsAreFinite
<1>2. Cardinality(S) \in Nat
  BY <1>1, FS_CardinalityType
<1>3. /\ q \in [1..Cardinality(S) -> S]
      /\ \A a, b \in 1..Cardinality(S) : q[a] = q[b] => a = b
      /\ \A k \in S : \E i \in 1..Cardinality(S) : q[i] = k
  BY <1>1, SeqOfSet
<1> HIDE DEF q
<1>4. ASSUME NEW k \in S
      PROVE  /\ Incident(k, state, at) \in IncidentRecord
             /\ Incident(k, state, at).kind = k
             /\ Incident(k, state, at).state = state
             /\ Incident(k, state, at).at = at
  <2>1. severityOf(k) \in {"critical", "warning"}
    BY DEF severityOf
  <2> QED BY <2>1 DEF Incident, IncidentRecord
<1>5. \A i \in 1..Cardinality(S) : q[i] \in S /\ batch[i] = Incident(q[i], state, at)
  BY <1>3
<1>6. DOMAIN batch = 1..Cardinality(S)
  OBVIOUS
<1>7. batch \in [1..Cardinality(S) -> IncidentRecord]
  BY <1>4, <1>5
<1>8. batch \in Seq(IncidentRecord)
  BY <1>2, <1>7
<1> HIDE DEF batch
<1>9. /\ \A i \in DOMAIN batch : batch[i].kind \in S /\ batch[i].state = state /\ batch[i].at = at
      /\ \A i \in DOMAIN batch : batch[i].kind = q[i]
  BY <1>4, <1>5, <1>6
<1>10. /\ \A i, j \in DOMAIN batch : batch[i].kind = batch[j].kind => i = j
       /\ \A k \in S : \E i \in DOMAIN batch : batch[i].kind = k
  BY <1>3, <1>6, <1>9
<1> QED BY <1>8, <1>9, <1>10 DEF batch, q

LEMMA Reconciled ==
    ASSUME MonitorInv, NEW snapshot \in Snapshot, reconcileAlerts(snapshot)
    PROVE  /\ IncidentsFollow'
           /\ DOMAIN activeAlerts' = desired(snapshot)
           /\ \A k \in desired(snapshot) :
                 activeAlerts'[k] = IF k \in DOMAIN activeAlerts THEN activeAlerts[k] ELSE snapshot.at
<1>1. /\ DOMAIN activeAlerts' = desired(snapshot)
      /\ \A k \in desired(snapshot) :
            activeAlerts'[k] = IF k \in DOMAIN activeAlerts THEN activeAlerts[k] ELSE snapshot.at
  BY DEF reconcileAlerts, Raised
<1>2. DOMAIN activeAlerts \in SUBSET AlertKind /\ desired(snapshot) \in SUBSET AlertKind
  BY DEF MonitorInv, AlertsAreDesired, desired
<1>3. Raised(snapshot) \in SUBSET AlertKind /\ Resolved(snapshot) \in SUBSET AlertKind
  BY <1>2 DEF Raised, Resolved
<1>4. snapshot.at \in Int
  BY DEF Snapshot
<1> DEFINE on == [i \in 1..Cardinality(Raised(snapshot)) |->
                    Incident(SetToSeq(Raised(snapshot))[i], "active", snapshot.at)]
           off == [i \in 1..Cardinality(Resolved(snapshot)) |->
                    Incident(SetToSeq(Resolved(snapshot))[i], "resolved", snapshot.at)]
<1>5. /\ on \in Seq(IncidentRecord)
      /\ \A i \in DOMAIN on : on[i].kind \in Raised(snapshot) /\ on[i].state = "active" /\ on[i].at = snapshot.at
      /\ \A i, j \in DOMAIN on : on[i].kind = on[j].kind => i = j
      /\ \A k \in Raised(snapshot) : \E i \in DOMAIN on : on[i].kind = k
  BY <1>3, <1>4, BatchOfKinds, Zenon
<1>6. /\ off \in Seq(IncidentRecord)
      /\ \A i \in DOMAIN off : off[i].kind \in Resolved(snapshot) /\ off[i].state = "resolved" /\ off[i].at = snapshot.at
      /\ \A i, j \in DOMAIN off : off[i].kind = off[j].kind => i = j
      /\ \A k \in Resolved(snapshot) : \E i \in DOMAIN off : off[i].kind = k
  BY <1>3, <1>4, BatchOfKinds, ZenonT(30)
<1>7. incidents' = Trimmed(incidents \o on \o off, MaxIncidents)
  BY DEF reconcileAlerts
<1>8. incidents \in Seq(IncidentRecord) /\ InTurn(incidents) /\ Tells(incidents, activeAlerts)
  BY DEF MonitorInv, IncidentsFollow
<1> HIDE DEF on, off
<1>9. incidents \o on \o off = incidents \o (on \o off)
  BY <1>5, <1>6, <1>8, ConcatAssociative
<1>10. /\ on \o off \in Seq(IncidentRecord)
       /\ Len(on) \in Nat /\ DOMAIN on = 1..Len(on) /\ DOMAIN off = 1..Len(off) /\ Len(off) \in Nat
       /\ DOMAIN (on \o off) = 1..(Len(on) + Len(off))
       /\ \A i \in DOMAIN on : (on \o off)[i] = on[i]
       /\ \A i \in DOMAIN off : (on \o off)[Len(on) + i] = off[i]
       /\ \A i \in DOMAIN (on \o off) : i > Len(on) => i - Len(on) \in DOMAIN off /\ (on \o off)[i] = off[i - Len(on)]
  BY <1>5, <1>6
<1> DEFINE batch == on \o off
<1> HIDE DEF batch
<1>11. TurnsAll(batch, activeAlerts, activeAlerts')
  <2>1. ASSUME NEW a \in DOMAIN batch
        PROVE  /\ a <= Len(on) => a \in DOMAIN on /\ batch[a] = on[a]
               /\ a > Len(on) => a - Len(on) \in DOMAIN off /\ batch[a] = off[a - Len(on)]
               /\ a \in Nat
    BY <1>10, <2>1 DEF batch
  <2>2. ASSUME NEW a \in DOMAIN batch, NEW b \in DOMAIN batch, batch[a].kind = batch[b].kind PROVE a = b
    <3>1. Raised(snapshot) \cap Resolved(snapshot) = {}
      BY DEF Raised, Resolved
    <3>2. CASE a <= Len(on) /\ b <= Len(on)
      BY <2>1, <2>2, <3>2, <1>5
    <3>3. CASE a > Len(on) /\ b > Len(on)
      <4>1. a - Len(on) = b - Len(on)
        BY <2>1, <2>2, <3>3, <1>6
      <4> QED BY <2>1, <4>1, <1>10
    <3>4. CASE a <= Len(on) /\ b > Len(on)
      BY <2>1, <2>2, <3>4, <3>1, <1>5, <1>6
    <3>5. CASE a > Len(on) /\ b <= Len(on)
      BY <2>1, <2>2, <3>5, <3>1, <1>5, <1>6
    <3> QED BY <2>1, <1>10, <3>2, <3>3, <3>4, <3>5
  <2>3. ASSUME NEW b \in DOMAIN batch PROVE Turns(batch[b], activeAlerts, activeAlerts')
    <3>1. CASE b <= Len(on)
      <4>1. batch[b].kind \in Raised(snapshot) /\ batch[b].state = "active" /\ batch[b].at = snapshot.at
        BY <2>1, <3>1, <1>5
      <4> QED BY <4>1, <1>1 DEF Turns, Raised
    <3>2. CASE b > Len(on)
      <4>1. batch[b].kind \in Resolved(snapshot) /\ batch[b].state = "resolved"
        BY <2>1, <3>2, <1>6
      <4> QED BY <4>1, <1>1 DEF Turns, Resolved
    <3> QED BY <2>1, <1>10, <3>1, <3>2
  <2>4. ASSUME NEW k, \A b \in DOMAIN batch : batch[b].kind # k
        PROVE  /\ k \in DOMAIN activeAlerts <=> k \in DOMAIN activeAlerts'
               /\ k \in DOMAIN activeAlerts' => activeAlerts'[k] = activeAlerts[k]
    <3>1. k \notin Raised(snapshot)
      <4> SUFFICES ASSUME k \in Raised(snapshot) PROVE FALSE
        OBVIOUS
      <4>1. PICK i \in DOMAIN on : on[i].kind = k
        BY <1>5
      <4>2. i \in DOMAIN batch /\ batch[i] = on[i]
        BY <1>10 DEF batch
      <4> QED BY <4>1, <4>2, <2>4
    <3>2. k \notin Resolved(snapshot)
      <4> SUFFICES ASSUME k \in Resolved(snapshot) PROVE FALSE
        OBVIOUS
      <4>1. PICK i \in DOMAIN off : off[i].kind = k
        BY <1>6
      <4>2. Len(on) + i \in DOMAIN batch /\ batch[Len(on) + i] = off[i]
        BY <1>10 DEF batch
      <4> QED BY <4>1, <4>2, <2>4
    <3> QED BY <3>1, <3>2, <1>1 DEF Raised, Resolved
  <2> QED BY <2>2, <2>3, <2>4 DEF TurnsAll
<1>12. InTurn(incidents \o batch) /\ Tells(incidents \o batch, activeAlerts')
  <2>1. batch \in Seq(IncidentRecord)
    BY <1>10 DEF batch
  <2> QED BY <1>8, <1>11, <2>1, BatchFollows
<1>13. incidents \o batch \in Seq(IncidentRecord)
  BY <1>8, <1>10 DEF batch
<1>14. incidents' = Trimmed(incidents \o batch, MaxIncidents)
  BY <1>7, <1>9 DEF batch
<1>15. MaxIncidents \in Nat \ {0}
  BY MonitorAssumption
<1>16. /\ Trimmed(incidents \o batch, MaxIncidents) \in Seq(IncidentRecord)
       /\ InTurn(Trimmed(incidents \o batch, MaxIncidents))
       /\ Tells(Trimmed(incidents \o batch, MaxIncidents), activeAlerts')
  BY <1>12, <1>13, <1>15, EndFollows, TrimmedIsEnd
<1>17. IncidentsFollow'
  BY <1>14, <1>16 DEF IncidentsFollow
<1> QED BY <1>1, <1>17

LEMMA AnswersAreBoolean ==
    ASSUME SamplesAreNumbered, NEW s \in probing, NEW d
    PROVE  Answer(s, d) \in BOOLEAN
<1>1. CASE d \in DOMAIN s.answers
  <2>1. s.answers[d] \in BOOLEAN
    BY <1>1 DEF SamplesAreNumbered
  <2> QED BY <1>1, <2>1 DEF Answer
<1>2. CASE d \notin DOMAIN s.answers
  <2>1. (d \in up) \in BOOLEAN
    OBVIOUS
  <2> QED BY <1>2, <2>1, Zenon DEF Answer
<1> QED BY <1>1, <1>2

LEMMA MachinesAreFinite ==
    ASSUME NEW s
    PROVE  Cardinality({m \in Machine : Answer(s, m)}) \in Nat
<1>1. {m \in Machine : Answer(s, m)} \in SUBSET Dependency
  BY DEF Machine
<1>2. IsFiniteSet({m \in Machine : Answer(s, m)})
  BY <1>1, FS_Subset, MonitorAssumption
<1> QED BY <1>2, FS_CardinalityType

LEMMA LaterHistory ==
    ASSUME NEW h \in Seq(Snapshot), NEW snapshot \in Snapshot
    PROVE  LET later == Trimmed(Append(h, snapshot), RetentionSamples) IN
           /\ later \in Seq(Snapshot) /\ later # <<>> /\ Last(later) = snapshot
           /\ \E d \in 0..Len(h) :
                /\ DOMAIN later = 1..(Len(h) + 1 - d)
                /\ later[Len(h) + 1 - d] = snapshot
                /\ \A i \in 1..(Len(h) - d) : later[i] = h[i + d]
<1> DEFINE all == Append(h, snapshot)
           later == Trimmed(all, RetentionSamples)
<1>1. /\ all \in Seq(Snapshot) /\ Len(all) = Len(h) + 1 /\ all # <<>> /\ Len(h) \in Nat
      /\ all[Len(h) + 1] = snapshot /\ \A i \in 1..Len(h) : all[i] = h[i]
  OBVIOUS
<1>2. RetentionSamples \in Nat \ {0}
  BY MonitorAssumption
<1> HIDE DEF all
<1>3. /\ later \in Seq(Snapshot)
      /\ \E d \in 0..Len(all) :
           /\ DOMAIN later = 1..(Len(all) - d) /\ Len(later) = Len(all) - d
           /\ \A i \in 1..(Len(all) - d) : later[i] = all[i + d]
           /\ all # <<>> => d < Len(all)
  BY <1>1, <1>2, TrimmedIsEnd
<1> HIDE DEF later
<1>4. PICK d \in 0..Len(all) :
           /\ DOMAIN later = 1..(Len(all) - d) /\ Len(later) = Len(all) - d
           /\ \A i \in 1..(Len(all) - d) : later[i] = all[i + d]
           /\ all # <<>> => d < Len(all)
  BY <1>3
<1>5. d \in 0..Len(h) /\ Len(later) = Len(h) + 1 - d /\ Len(later) >= 1
  BY <1>1, <1>4
<1>6. later[Len(h) + 1 - d] = snapshot
  <2>1. Len(h) + 1 - d \in 1..(Len(all) - d) /\ Len(h) + 1 - d + d = Len(h) + 1
    BY <1>1, <1>5
  <2> QED BY <1>1, <1>4, <2>1
<1>7. \A i \in 1..(Len(h) - d) : later[i] = h[i + d]
  <2> SUFFICES ASSUME NEW i \in 1..(Len(h) - d) PROVE later[i] = h[i + d]
    OBVIOUS
  <2>1. i \in 1..(Len(all) - d) /\ i + d \in 1..Len(h)
    BY <1>1, <1>5
  <2> QED BY <1>1, <1>4, <2>1
<1>8. Last(later) = snapshot
  BY <1>5, <1>6 DEF Last
<1>9. later # <<>>
  BY <1>3, <1>5
<1>10. DOMAIN later = 1..(Len(h) + 1 - d)
  BY <1>1, <1>4
<1>11. \E e \in 0..Len(h) :
         /\ DOMAIN later = 1..(Len(h) + 1 - e)
         /\ later[Len(h) + 1 - e] = snapshot
         /\ \A i \in 1..(Len(h) - e) : later[i] = h[i + e]
  BY <1>5, <1>6, <1>7, <1>10
<1> QED BY <1>3, <1>8, <1>9, <1>11 DEF later, all

LEMMA EndSampleKeeps ==
    ASSUME MonitorInv, NEW s \in probing, EndSample(s)
    PROVE  MonitorInv'
<1> DEFINE snapshot == [at |-> s.at, relay |-> Answer(s, RelayTarget), rpc |-> Answer(s, RpcTarget),
                        machineReady |-> Cardinality({m \in Machine : Answer(s, m)})]
<1>1. /\ s.at \in 1..samples /\ samples \in Nat /\ history \in Seq(Snapshot)
  BY DEF MonitorInv, SamplesAreNumbered
<1>2. snapshot \in Snapshot
  <2>1. Answer(s, RelayTarget) \in BOOLEAN /\ Answer(s, RpcTarget) \in BOOLEAN
    BY AnswersAreBoolean DEF MonitorInv
  <2>2. Cardinality({m \in Machine : Answer(s, m)}) \in Nat
    BY MachinesAreFinite
  <2>3. s.at \in Int
    BY <1>1
  <2> QED BY <2>1, <2>2, <2>3, Zenon DEF Snapshot
<1>3. snapshot.at = s.at
  OBVIOUS
<1>4. /\ probing' = probing \ {s} /\ UNCHANGED samples
      /\ history' = Trimmed(Append(history, snapshot), RetentionSamples)
      /\ reconcileAlerts(snapshot)
  BY DEF EndSample
<1> HIDE DEF snapshot
<1>5. /\ IncidentsFollow'
      /\ DOMAIN activeAlerts' = desired(snapshot)
      /\ \A k \in desired(snapshot) :
            activeAlerts'[k] = IF k \in DOMAIN activeAlerts THEN activeAlerts[k] ELSE snapshot.at
  BY <1>2, <1>4, Reconciled
<1>6. history' \in Seq(Snapshot) /\ history' # <<>> /\ Last(history') = snapshot
  BY <1>1, <1>2, <1>4, LaterHistory
<1>7. PICK d \in 0..Len(history) :
                /\ DOMAIN history' = 1..(Len(history) + 1 - d)
                /\ history'[Len(history) + 1 - d] = snapshot
                /\ \A i \in 1..(Len(history) - d) : history'[i] = history[i + d]
  BY <1>1, <1>2, <1>4, LaterHistory
<1>8. ASSUME NEW i \in DOMAIN history'
      PROVE  \/ i = Len(history) + 1 - d /\ history'[i] = snapshot
             \/ /\ i < Len(history) + 1 - d /\ i + d \in DOMAIN history /\ history'[i] = history[i + d]
  <2>1. Len(history) \in Nat /\ DOMAIN history = 1..Len(history)
    BY <1>1, LenProperties
  <2>2. d \in Nat /\ d <= Len(history) /\ i \in Nat /\ 1 <= i /\ i <= Len(history) + 1 - d
    BY <1>7, <2>1
  <2>3. CASE i = Len(history) + 1 - d
    BY <1>7, <2>3
  <2>4. CASE i # Len(history) + 1 - d
    <3>1. i < Len(history) + 1 - d /\ i \in 1..(Len(history) - d) /\ i + d \in 1..Len(history)
      BY <2>1, <2>2, <2>4
    <3> QED BY <1>7, <2>1, <3>1
  <2> QED BY <2>3, <2>4
<1>9. AlertsAreDesired'
  BY <1>5, <1>6 DEF AlertsAreDesired
<1>10. SamplesAreNumbered'
  <2>1. \A i \in DOMAIN history : history[i].at <= samples /\ history[i].at # s.at
    BY DEF MonitorInv, SamplesAreNumbered
  <2>2. \A i \in DOMAIN history' : history'[i].at <= samples' /\ \A u \in probing' : history'[i].at # u.at
    BY <1>1, <1>3, <1>4, <1>8 DEF MonitorInv, SamplesAreNumbered
  <2>3. ASSUME NEW i \in DOMAIN history', NEW j \in DOMAIN history', history'[i].at = history'[j].at PROVE i = j
    <3>1. CASE history'[i] = history[i + d] /\ history'[j] = history[j + d]
               /\ i + d \in DOMAIN history /\ j + d \in DOMAIN history
      <4>1. i + d = j + d
        BY <2>3, <3>1 DEF MonitorInv, SamplesAreNumbered
      <4> QED BY <4>1, <1>7
    <3> QED BY <2>1, <2>3, <3>1, <1>3, <1>8
  <2>4. \A u, v \in probing' : u.at = v.at => u = v
    BY <1>4 DEF MonitorInv, SamplesAreNumbered
  <2>5. \A u \in probing' : /\ u = [at |-> u.at, answers |-> u.answers] /\ u.at \in 1..samples'
                            /\ \A e \in DOMAIN u.answers : u.answers[e] \in BOOLEAN
    BY <1>4 DEF MonitorInv, SamplesAreNumbered
  <2> QED BY <1>1, <1>4, <1>6, <2>2, <2>3, <2>4, <2>5 DEF SamplesAreNumbered
<1>11. AlertsStand'
  <2> SUFFICES ASSUME NEW kind \in DOMAIN activeAlerts', NEW i \in DOMAIN history', NEW j \in DOMAIN history',
                      history'[i].at = activeAlerts'[kind], i <= j
               PROVE  kind \in desired(history'[j])
    BY DEF AlertsStand, desired
  <2>1. kind \in desired(snapshot)
    BY <1>5
  <2>2. CASE history'[j] = snapshot
    BY <2>1, <2>2
  <2>3. CASE j < Len(history) + 1 - d /\ j + d \in DOMAIN history /\ history'[j] = history[j + d]
    <3>1. i < Len(history) + 1 - d /\ i + d \in DOMAIN history /\ history'[i] = history[i + d]
      BY <1>1, <1>7, <1>8, <2>3
    <3>2. kind \in DOMAIN activeAlerts
      <4> SUFFICES ASSUME kind \notin DOMAIN activeAlerts PROVE FALSE
        OBVIOUS
      <4>1. activeAlerts'[kind] = s.at
        BY <1>3, <1>5, <2>1
      <4> QED BY <3>1, <4>1 DEF MonitorInv, SamplesAreNumbered
    <3>3. history[i + d].at = activeAlerts[kind] /\ i + d <= j + d
      BY <1>5, <1>7, <2>1, <3>1, <3>2
    <3>4. kind \in desired(history[j + d])
      BY <2>3, <3>1, <3>2, <3>3 DEF MonitorInv, AlertsStand
    <3> QED BY <2>3, <3>4
  <2> QED BY <1>8, <2>2, <2>3
<1> QED BY <1>5, <1>9, <1>10, <1>11 DEF MonitorInv

LEMMA MonitorInvInit == MonitorInit => MonitorInv
<1> SUFFICES ASSUME MonitorInit PROVE MonitorInv
  OBVIOUS
<1>1. history = <<>> /\ incidents = <<>> /\ DOMAIN activeAlerts = {} /\ probing = {} /\ samples = 0
  BY DEF MonitorInit
<1> QED BY <1>1 DEF MonitorInv, SamplesAreNumbered, AlertsAreDesired, AlertsStand, IncidentsFollow, InTurn, Tells

\* While only probes go on, what is recorded stays as it is.
LEMMA RecordsRest ==
    ASSUME MonitorInv, UNCHANGED <<history, activeAlerts, incidents>>, SamplesAreNumbered'
    PROVE  MonitorInv'
<1>1. AlertsAreDesired' /\ AlertsStand' /\ IncidentsFollow'
  BY DEF MonitorInv, AlertsAreDesired, AlertsStand, IncidentsFollow, desired
<1> QED BY <1>1 DEF MonitorInv

LEMMA BeginSampleKeeps == ASSUME MonitorInv, BeginSample PROVE MonitorInv'
<1> DEFINE new == [at |-> samples + 1, answers |-> [d \in {} |-> TRUE]]
<1>1. /\ samples' = samples + 1 /\ probing' = probing \cup {new}
      /\ UNCHANGED <<history, activeAlerts, incidents>>
  BY DEF BeginSample
<1>2. new = [at |-> new.at, answers |-> new.answers] /\ new.at = samples + 1 /\ DOMAIN new.answers = {}
  OBVIOUS
<1> HIDE DEF new
<1>3. samples \in Nat
  BY DEF MonitorInv, SamplesAreNumbered
<1>4. ASSUME NEW s \in probing'
      PROVE  /\ s = [at |-> s.at, answers |-> s.answers] /\ s.at \in 1..samples'
             /\ \A d \in DOMAIN s.answers : s.answers[d] \in BOOLEAN
  BY <1>1, <1>2, <1>3 DEF MonitorInv, SamplesAreNumbered
<1>5. \A s \in probing : s.at <= samples /\ s.at \in Nat
  BY <1>3 DEF MonitorInv, SamplesAreNumbered
<1>6. \A s, u \in probing' : s.at = u.at => s = u
  BY <1>1, <1>2, <1>3, <1>5 DEF MonitorInv, SamplesAreNumbered
<1>7. ASSUME NEW i \in DOMAIN history'
      PROVE  history'[i].at <= samples' /\ \A s \in probing' : history'[i].at # s.at
  <2>1. history[i] \in Snapshot /\ history[i].at <= samples /\ \A s \in probing : history[i].at # s.at
    BY <1>1 DEF MonitorInv, SamplesAreNumbered
  <2>2. history[i].at \in Int
    BY <2>1 DEF Snapshot
  <2> QED BY <1>1, <1>2, <1>3, <2>1, <2>2
<1>8. SamplesAreNumbered'
  BY <1>1, <1>3, <1>4, <1>6, <1>7 DEF MonitorInv, SamplesAreNumbered
<1> QED BY <1>1, <1>8, RecordsRest

LEMMA ChangeKeeps == ASSUME MonitorInv, NEW d \in Dependency, Change(d) PROVE MonitorInv'
<1>1. UNCHANGED <<samples, history, activeAlerts, incidents>>
  BY DEF Change
<1>2. PICK early \in SUBSET probing : probing' = (probing \ early) \cup {Probed(s, d) : s \in early}
  BY DEF Change
<1>3. ASSUME NEW s \in probing
      PROVE  /\ Probed(s, d).at = s.at
             /\ Probed(s, d) = [at |-> Probed(s, d).at, answers |-> Probed(s, d).answers]
             /\ \A e \in DOMAIN Probed(s, d).answers : Probed(s, d).answers[e] \in BOOLEAN
  <2>1. PICK at, answers : s = [at |-> at, answers |-> answers]
    BY DEF MonitorInv, SamplesAreNumbered
  <2> DEFINE more == [e \in DOMAIN s.answers \cup {d} |-> Answer(s, e)]
  <2>2. Probed(s, d) = [at |-> at, answers |-> more]
    BY <2>1 DEF Probed
  <2>3. \A e \in DOMAIN more : more[e] \in BOOLEAN
    BY AnswersAreBoolean DEF MonitorInv
  <2> HIDE DEF more
  <2> QED BY <2>1, <2>2, <2>3
<1>4. ASSUME NEW u \in probing'
      PROVE  \E s \in probing : /\ u.at = s.at /\ ((u = s /\ s \notin early) \/ (u = Probed(s, d) /\ s \in early))
  BY <1>2, <1>3
<1>5. \A s, u \in probing' : s.at = u.at => s = u
  BY <1>4 DEF MonitorInv, SamplesAreNumbered
<1>6. ASSUME NEW u \in probing'
      PROVE  /\ u = [at |-> u.at, answers |-> u.answers] /\ u.at \in 1..samples'
             /\ \A e \in DOMAIN u.answers : u.answers[e] \in BOOLEAN
  BY <1>1, <1>3, <1>4 DEF MonitorInv, SamplesAreNumbered
<1>7. \A i \in DOMAIN history' : history'[i].at <= samples' /\ \A u \in probing' : history'[i].at # u.at
  BY <1>1, <1>4 DEF MonitorInv, SamplesAreNumbered
<1>8. SamplesAreNumbered'
  BY <1>1, <1>5, <1>6, <1>7 DEF MonitorInv, SamplesAreNumbered
<1> QED BY <1>1, <1>8, RecordsRest

LEMMA MonitorInvNext == MonitorInv /\ [MonitorNext]_monitorVars => MonitorInv'
<1> SUFFICES ASSUME MonitorInv, [MonitorNext]_monitorVars PROVE MonitorInv'
  OBVIOUS
<1>1. CASE BeginSample
  BY <1>1, BeginSampleKeeps
<1>2. CASE \E s \in probing : EndSample(s)
  BY <1>2, EndSampleKeeps
<1>3. CASE \E d \in Dependency : Change(d)
  BY <1>3, ChangeKeeps
<1>4. CASE UNCHANGED monitorVars
  <2>1. SamplesAreNumbered'
    BY <1>4 DEF monitorVars, MonitorInv, SamplesAreNumbered
  <2> QED BY <1>4, <2>1, RecordsRest DEF monitorVars
<1> QED BY <1>1, <1>2, <1>3, <1>4 DEF MonitorNext

LEMMA MonitorInvImplies == MonitorInv => AlertsFollowSamples
<1> SUFFICES ASSUME MonitorInv PROVE AlertsFollowSamples
  OBVIOUS
<1>1. \A i, j \in DOMAIN incidents : Follows(i, j) => incidents[i].state # incidents[j].state
  BY DEF MonitorInv, IncidentsFollow, InTurn, NextOf, Follows
<1>2. ASSUME NEW i \in DOMAIN incidents, IsLatest(i)
      PROVE  /\ (incidents[i].state = "active") = (incidents[i].kind \in DOMAIN activeAlerts)
             /\ incidents[i].kind \in DOMAIN activeAlerts => incidents[i].at = activeAlerts[incidents[i].kind]
  <2>1. LastOf(incidents, i)
    BY <1>2 DEF LastOf, IsLatest
  <2> QED BY <2>1 DEF MonitorInv, IncidentsFollow, Tells
<1>3. ASSUME history # <<>> PROVE publicHealth = healthOf(Last(history))
  <2>1. history \in Seq(Snapshot)
    BY DEF MonitorInv, SamplesAreNumbered
  <2>2. Last(history) \in Snapshot
    BY <1>3, <2>1 DEF Last
  <2>3. DOMAIN activeAlerts = desired(Last(history))
    BY <1>3 DEF MonitorInv, AlertsAreDesired
  <2> QED BY <1>3, <2>2, <2>3, HealthIsOfSnapshot DEF publicHealth
<1> QED BY <1>1, <1>2, <1>3 DEF AlertsFollowSamples, MonitorInv, AlertsStand

\* Whatever fails and however samples overlap, the alerts, the incidents and
\* the health shown are those the kept snapshots call for
\* (monitor.mjs:27-62, 165-187).
THEOREM AlertsAlwaysFollow == MonitorSpec => []AlertsFollowSamples
BY MonitorInvInit, MonitorInvNext, MonitorInvImplies, PTL DEF MonitorSpec

-----------------------------------------------------------------------------
(* Direct minting.                                                          *)

IsSequence(s) == s \in Seq({s[i] : i \in DOMAIN s})

\* Each thing read of the asset manager was its setting between the two.
ReadBetween(since, until, manager, got) ==
    /\ since \in Nat \ {0} /\ until \in Nat /\ since <= until /\ until <= Len(settings)
    /\ \A item \in DOMAIN got \ {"nonce", "deposited"} :
          \E i \in since..until : settings[i].of[manager][item] = got[item]

\* The mint that a reference names deposited its amount for its payment.
BornOut(reference) ==
    /\ reference.mint \in DOMAIN mints /\ reference.payment \in DOMAIN payments
    /\ mints[reference.mint].outcome = "executed"
    /\ mints[reference.mint].deposit = reference.deposited
    /\ mints[reference.mint].call.payment = reference.payment
    /\ mints[reference.mint].call.operation = payments[reference.payment].memo.operation

PaymentsAreWhole ==
    \A p \in DOMAIN payments :
        payments[p] = [destination |-> payments[p].destination, amount |-> payments[p].amount,
                       status |-> payments[p].status, memo |-> payments[p].memo]

OnlyExecutionsDeposit ==
    \A t \in DOMAIN mints : mints[t].deposit # 0 => mints[t].outcome = "executed"

OneMintPerPayment ==
    \A t, u \in DOMAIN mints :
        /\ mints[t].outcome = "executed" /\ mints[u].outcome = "executed"
        /\ mints[t].call.payment = mints[u].call.payment
        => t = u

AskedWasSaid ==
    asked # NothingAsked =>
        /\ asked = [by |-> asked.by, net |-> asked.net, since |-> asked.since,
                    manager |-> asked.manager, got |-> asked.got]
        /\ ReadBetween(asked.since, Len(settings), asked.manager, asked.got)

AuditedWasSaid ==
    audit # NoAudit =>
        /\ audit = [reference |-> audit.reference, since |-> audit.since, got |-> audit.got]
        /\ BornOut(audit.reference)
        /\ ReadBetween(audit.since, Len(settings), mints[audit.reference.mint].call.manager, audit.got)

EvidenceStands ==
    /\ \A o \in observations : ReadBetween(o.since, o.until, o.manager, o.published)
    /\ \A e \in audits :
          /\ BornOut(e.reference)
          /\ ReadBetween(e.since, e.until, mints[e.reference.mint].call.manager, e.published)

HistoriesGrow == IsSequence(settings) /\ IsSequence(payments) /\ IsSequence(mints) /\ settings # <<>>

MintInv ==
    /\ HistoriesGrow /\ PaymentsAreWhole /\ OnlyExecutionsDeposit /\ OneMintPerPayment
    /\ AskedWasSaid /\ AuditedWasSaid /\ EvidenceStands

\* What a sequence says, it says after another element has come to its end.
LEMMA AppendKeeps ==
    ASSUME NEW s, IsSequence(s), NEW x
    PROVE  /\ IsSequence(Append(s, x)) /\ Append(s, x) # <<>>
           /\ Len(s) \in Nat /\ DOMAIN s = 1..Len(s) /\ Len(Append(s, x)) = Len(s) + 1
           /\ DOMAIN Append(s, x) = 1..Len(s) + 1
           /\ \A i \in 1..Len(s) : Append(s, x)[i] = s[i]
           /\ Append(s, x)[Len(s) + 1] = x
<1> DEFINE S == {s[i] : i \in DOMAIN s} \union {x}
           t == Append(s, x)
<1>1. s \in Seq(S) /\ x \in S
  BY DEF IsSequence
<1>2. /\ t \in Seq(S) /\ Len(t) = Len(s) + 1 /\ Len(s) \in Nat /\ DOMAIN s = 1..Len(s)
      /\ DOMAIN t = 1..Len(s) + 1
      /\ \A i \in 1..Len(s) : t[i] = s[i]
      /\ t[Len(s) + 1] = x
  <2> HIDE DEF S
  <2> QED BY <1>1
<1>3. t \in Seq({t[i] : i \in DOMAIN t})
  <2> HIDE DEF t, S
  <2>1. t \in [1..Len(s) + 1 -> S]
    BY <1>2
  <2>2. t \in [1..Len(s) + 1 -> {t[i] : i \in DOMAIN t}]
    BY <1>2, <2>1
  <2> QED BY <1>2, <2>2, SeqDef, SMTT(30)
<1>4. t # <<>>
  BY <1>2
<1> QED BY <1>2, <1>3, <1>4 DEF IsSequence

\* What was read stays read: of longer histories, and until later.
LEMMA ReadStays ==
    ASSUME NEW since, NEW until, NEW manager, NEW got, NEW later \in Nat,
           ReadBetween(since, until, manager, got),
           IsSequence(settings),
           settings' = settings \/ \E x : settings' = Append(settings, x),
           until <= later, later <= Len(settings')
    PROVE  /\ since \in Nat \ {0} /\ since <= later /\ later <= Len(settings')
           /\ \A item \in DOMAIN got \ {"nonce", "deposited"} :
                 \E i \in since..later : settings'[i].of[manager][item] = got[item]
<1>1. Len(settings) \in Nat /\ DOMAIN settings = 1..Len(settings)
  BY AppendKeeps
<1>2. \A i \in 1..Len(settings) : settings'[i] = settings[i]
  BY AppendKeeps
<1>3. ASSUME NEW item \in DOMAIN got \ {"nonce", "deposited"}
      PROVE  \E i \in since..later : settings'[i].of[manager][item] = got[item]
  <2>1. PICK i \in since..until : settings[i].of[manager][item] = got[item]
    BY <1>3 DEF ReadBetween
  <2>2. i \in 1..Len(settings) /\ i \in since..later
    BY <1>1 DEF ReadBetween
  <2> QED BY <1>2, <2>1, <2>2
<1> QED BY <1>3 DEF ReadBetween

\* A reference stays borne out while transactions are added and payments
\* change their status.
LEMMA BornOutStays ==
    ASSUME NEW reference, BornOut(reference), IsSequence(mints),
           mints' = mints \/ \E x : mints' = Append(mints, x),
           DOMAIN payments \subseteq DOMAIN payments',
           \A p \in DOMAIN payments : payments'[p].memo = payments[p].memo
    PROVE  /\ reference.mint \in DOMAIN mints' /\ reference.payment \in DOMAIN payments'
           /\ mints'[reference.mint] = mints[reference.mint]
           /\ payments'[reference.payment].memo = payments[reference.payment].memo
BY AppendKeeps DEF BornOut

\* Steps that begin and end nothing: what was asked and audited stays so,
\* and so does the evidence.
LEMMA EvidenceRests ==
    ASSUME MintInv,
           settings' = settings \/ \E x : settings' = Append(settings, x),
           mints' = mints \/ \E x : mints' = Append(mints, x),
           DOMAIN payments \subseteq DOMAIN payments',
           \A p \in DOMAIN payments : payments'[p].memo = payments[p].memo
    PROVE  /\ Len(settings) \in Nat /\ Len(settings') \in Nat /\ Len(settings) <= Len(settings')
           /\ IsSequence(settings)' /\ IsSequence(mints)' /\ settings' # <<>>
           /\ asked' \in {asked, NothingAsked} => AskedWasSaid'
           /\ audit' \in {audit, NoAudit} => AuditedWasSaid'
           /\ observations' = observations /\ audits' = audits => EvidenceStands'
<1> USE DEF MintInv, HistoriesGrow
<1>1. /\ Len(settings) \in Nat /\ Len(settings') \in Nat /\ Len(settings) <= Len(settings')
      /\ IsSequence(settings)' /\ IsSequence(mints)' /\ settings' # <<>>
  BY AppendKeeps DEF IsSequence
<1>2. ASSUME asked' \in {asked, NothingAsked}, asked' # NothingAsked
      PROVE  AskedWasSaid'
  <2>1. asked' = asked /\ ReadBetween(asked.since, Len(settings), asked.manager, asked.got)
    BY <1>2 DEF AskedWasSaid
  <2>2. ReadBetween(asked.since, Len(settings), asked.manager, asked.got)'
    BY <1>1, <2>1, ReadStays DEF ReadBetween
  <2> QED BY <2>1, <2>2 DEF AskedWasSaid
<1>3. ASSUME audit' \in {audit, NoAudit}, audit' # NoAudit
      PROVE  AuditedWasSaid'
  <2> DEFINE manager == mints[audit.reference.mint].call.manager
  <2>1. audit' = audit /\ BornOut(audit.reference) /\ ReadBetween(audit.since, Len(settings), manager, audit.got)
    BY <1>3 DEF AuditedWasSaid
  <2>2. BornOut(audit.reference)' /\ manager' = manager
    BY <2>1, BornOutStays DEF BornOut
  <2>3. ReadBetween(audit.since, Len(settings), manager, audit.got)'
    <3> HIDE DEF manager
    <3> QED BY <1>1, <2>1, <2>2, ReadStays DEF ReadBetween
  <2> QED BY <1>3, <2>1, <2>2, <2>3 DEF AuditedWasSaid
<1>4. ASSUME observations' = observations, audits' = audits
      PROVE  EvidenceStands'
  <2>1. ASSUME NEW o \in observations
        PROVE  ReadBetween(o.since, o.until, o.manager, o.published)'
    <3>1. ReadBetween(o.since, o.until, o.manager, o.published)
      BY <2>1 DEF EvidenceStands
    <3> QED BY <1>1, <3>1, ReadStays DEF ReadBetween
  <2>2. ASSUME NEW e \in audits
        PROVE  BornOut(e.reference)' /\ ReadBetween(e.since, e.until, mints[e.reference.mint].call.manager, e.published)'
    <3> DEFINE manager == mints[e.reference.mint].call.manager
    <3>1. BornOut(e.reference) /\ ReadBetween(e.since, e.until, manager, e.published)
      BY <2>2 DEF EvidenceStands
    <3>2. BornOut(e.reference)' /\ manager' = manager
      BY <3>1, BornOutStays DEF BornOut
    <3>3. ReadBetween(e.since, e.until, manager, e.published)'
      <4> HIDE DEF manager
      <4> QED BY <1>1, <3>1, <3>2, ReadStays, SMTT(30) DEF ReadBetween
    <3> QED BY <3>2, <3>3
  <2> QED BY <1>4, <2>1, <2>2 DEF EvidenceStands
<1> QED BY <1>1, <1>2, <1>3, <1>4 DEF AskedWasSaid, AuditedWasSaid

LEMMA MintInvInit == DirectMintInit => MintInv
<1> SUFFICES ASSUME DirectMintInit PROVE MintInv
  OBVIOUS
<1>1. PICK x : settings = <<x>>
  BY DEF DirectMintInit
<1>2. IsSequence(settings) /\ settings # <<>>
  BY <1>1 DEF IsSequence
<1>3. payments = <<>> /\ mints = <<>> /\ DOMAIN payments = {} /\ DOMAIN mints = {}
  BY DEF DirectMintInit
<1>4. IsSequence(payments) /\ IsSequence(mints)
  BY <1>3 DEF IsSequence
<1> QED BY <1>2, <1>3, <1>4
        DEF DirectMintInit, MintInv, HistoriesGrow, PaymentsAreWhole, OnlyExecutionsDeposit, OneMintPerPayment,
            AskedWasSaid, AuditedWasSaid, EvidenceStands

LEMMA MintInvNext == MintInv /\ [DirectMintNext]_mintVars => MintInv'
<1> SUFFICES ASSUME MintInv, [DirectMintNext]_mintVars PROVE MintInv'
  OBVIOUS
<1>0. /\ Len(settings) \in Nat /\ Len(settings) >= 1
      /\ DOMAIN settings = 1..Len(settings)
      /\ Len(mints) \in Nat /\ DOMAIN mints = 1..Len(mints)
      /\ Len(payments) \in Nat /\ DOMAIN payments = 1..Len(payments)
  BY AppendKeeps DEF MintInv, HistoriesGrow, IsSequence
<1>1. ASSUME ChangeSettings
      PROVE  MintInv'
  <2>1. \E x : settings' = Append(settings, x)
    BY <1>1 DEF ChangeSettings
  <2>2. UNCHANGED <<personalAccount, asked, payments, mints, audit, observations, audits>>
    BY <1>1 DEF ChangeSettings
  <2> QED BY <2>1, <2>2, EvidenceRests
          DEF MintInv, HistoriesGrow, PaymentsAreWhole, OnlyExecutionsDeposit, OneMintPerPayment, IsSequence
<1>2. ASSUME NEW by, NEW net, StartAsking(by, net)
      PROVE  MintInv'
  <2>1. /\ asked' = [by |-> by, net |-> net, since |-> Len(settings), manager |-> Current.registered, got |-> <<>>]
        /\ UNCHANGED <<settings, personalAccount, payments, mints, audit, observations, audits>>
    BY <1>2 DEF StartAsking
  <2>2. DOMAIN asked'.got = {}
    BY <2>1
  <2>3. AskedWasSaid'
    BY <1>0, <2>1, <2>2 DEF AskedWasSaid, ReadBetween
  <2> QED BY <2>1, <2>3, EvidenceRests
          DEF MintInv, HistoriesGrow, PaymentsAreWhole, OnlyExecutionsDeposit, OneMintPerPayment, IsSequence
<1>3. ASSUME NEW item, ReadNext(item)
      PROVE  MintInv'
  <2> DEFINE value == IF item = "nonce" THEN personalAccount.nonce ELSE SettingsOf(asked.manager)[item]
             got == Noted(asked.got, item, value)
  <2>1. /\ asked # NothingAsked /\ asked' = [asked EXCEPT !.got = got]
        /\ UNCHANGED <<settings, personalAccount, payments, mints, audit, observations, audits>>
    BY <1>3 DEF ReadNext
  <2>2. /\ asked = [by |-> asked.by, net |-> asked.net, since |-> asked.since,
                    manager |-> asked.manager, got |-> asked.got]
        /\ ReadBetween(asked.since, Len(settings), asked.manager, asked.got)
    BY <2>1 DEF MintInv, AskedWasSaid
  <2>3. asked' = [by |-> asked.by, net |-> asked.net, since |-> asked.since,
                  manager |-> asked.manager, got |-> got]
    <3> HIDE DEF got
    <3> QED BY <2>1, <2>2
  <2>4. ReadBetween(asked.since, Len(settings), asked.manager, got)
    <3>1. ASSUME NEW other \in DOMAIN got \ {"nonce", "deposited"}
          PROVE  \E i \in asked.since..Len(settings) : settings[i].of[asked.manager][other] = got[other]
      <4>1. CASE other = item
        <5>1. got[other] = settings[Len(settings)].of[asked.manager][other]
          BY <3>1, <4>1 DEF Noted, SettingsOf, Current, Last
        <5>2. Len(settings) \in asked.since..Len(settings)
          BY <1>0, <2>2, <2>1 DEF ReadBetween, MintInv, AskedWasSaid
        <5> QED BY <5>1, <5>2
      <4>2. CASE other # item
        <5>1. other \in DOMAIN asked.got /\ got[other] = asked.got[other]
          BY <3>1, <4>2 DEF Noted
        <5> QED BY <2>2, <3>1, <5>1 DEF ReadBetween
      <4> QED BY <4>1, <4>2
    <3> QED BY <2>2, <3>1 DEF ReadBetween
  <2>5. AskedWasSaid'
    <3> HIDE DEF got
    <3> QED BY <2>1, <2>3, <2>4 DEF AskedWasSaid, ReadBetween
  <2> QED BY <2>1, <2>5, EvidenceRests
          DEF MintInv, HistoriesGrow, PaymentsAreWhole, OnlyExecutionsDeposit, OneMintPerPayment, IsSequence
<1>4. ASSUME NEW calls, Pay(calls)
      PROVE  MintInv'
  <2>1. PICK payment : /\ payments' = Append(payments, payment)
                       /\ payment = [destination |-> payment.destination, amount |-> payment.amount,
                                     status |-> payment.status, memo |-> payment.memo]
    BY <1>4 DEF Pay
  <2>2. asked' = NothingAsked /\ UNCHANGED <<settings, personalAccount, mints, audit, observations, audits>>
    BY <1>4 DEF Pay
  <2>3. /\ DOMAIN payments' = 1..Len(payments) + 1 /\ IsSequence(payments)'
        /\ \A p \in DOMAIN payments : payments'[p] = payments[p]
        /\ payments'[Len(payments) + 1] = payment
    <3>1. IsSequence(payments)
      BY DEF MintInv, HistoriesGrow
    <3> QED BY <1>0, <2>1, <3>1, AppendKeeps DEF IsSequence
  <2>4. PaymentsAreWhole' /\ DOMAIN payments \subseteq DOMAIN payments'
    BY <1>0, <2>1, <2>3 DEF MintInv, PaymentsAreWhole
  <2> QED BY <2>2, <2>3, <2>4, EvidenceRests
          DEF MintInv, HistoriesGrow, OnlyExecutionsDeposit, OneMintPerPayment
<1>5. ASSUME ObservationEnds
      PROVE  MintInv'
  <2>1. asked' = NothingAsked /\ UNCHANGED <<settings, personalAccount, payments, mints, audit, audits>>
    BY <1>5 DEF ObservationEnds
  <2>2. asked # NothingAsked
    BY <1>5 DEF ObservationEnds, AllRead, NothingAsked
  <2>3. ASSUME NEW o \in observations'
        PROVE  ReadBetween(o.since, o.until, o.manager, o.published)'
    <3>1. \/ o \in observations
          \/ \E quote : o = [manager |-> asked.manager, since |-> asked.since, until |-> Len(settings),
                             published |-> asked.got, quote |-> quote]
      BY <1>5, <2>3 DEF ObservationEnds
    <3> QED BY <2>1, <2>2, <3>1, <1>0 DEF MintInv, EvidenceStands, AskedWasSaid, ReadBetween
  <2>4. EvidenceStands'
    BY <2>1, <2>3 DEF MintInv, EvidenceStands, BornOut, ReadBetween
  <2> QED BY <2>1, <2>4, EvidenceRests
          DEF MintInv, HistoriesGrow, PaymentsAreWhole, OnlyExecutionsDeposit, OneMintPerPayment, IsSequence
<1>6. ASSUME NEW p \in DOMAIN payments, LedgerValidates(p) \/ Attest(p)
      PROVE  MintInv'
  <2>1. PICK status : payments' = [payments EXCEPT ![p].status = status]
    BY <1>6 DEF LedgerValidates, Attest
  <2>2. UNCHANGED <<settings, personalAccount, asked, mints, audit, observations, audits>>
    BY <1>6 DEF LedgerValidates, Attest
  <2>3. DOMAIN payments' = DOMAIN payments
    BY <2>1
  <2>4. \A q \in DOMAIN payments :
           payments'[q] = [destination |-> payments[q].destination, amount |-> payments[q].amount,
                           status |-> IF q = p THEN status ELSE payments[q].status, memo |-> payments[q].memo]
    BY <2>1 DEF MintInv, PaymentsAreWhole
  <2>5. PaymentsAreWhole' /\ \A q \in DOMAIN payments : payments'[q].memo = payments[q].memo
    BY <2>3, <2>4 DEF PaymentsAreWhole
  <2>6. IsSequence(payments)'
    <3>1. payments' \in [1..Len(payments) -> {payments'[i] : i \in DOMAIN payments'}]
      BY <1>0, <2>1, <2>3
    <3> QED BY <1>0, <3>1, SeqDef DEF IsSequence
  <2> QED BY <2>2, <2>3, <2>5, <2>6, EvidenceRests
          DEF MintInv, HistoriesGrow, OnlyExecutionsDeposit, OneMintPerPayment
<1>7. ASSUME NEW p \in DOMAIN payments, NEW operation, NEW value, Mint(p, operation, value)
      PROVE  MintInv'
  <2> DEFINE call == buildCoston2DirectMintCall(p, operation, value)
  <2> DEFINE HasMined(outcome, deposit) ==
                 /\ mints' = Append(mints, [call |-> call, outcome |-> outcome, deposit |-> deposit])
                 /\ deposit # 0 => outcome = "executed"
                 /\ outcome = "executed" => Accepts(call)
  <2>1. PICK outcome, deposit : HasMined(outcome, deposit)
    <3> DEFINE sum == IF operation = NoOperation THEN 0 ELSE AmountTo(operation, "vault")
    <3>1. HasMined("reverted", 0) \/ HasMined("delayed", 0) \/ HasMined("executed", sum)
      BY <1>7 DEF Mint
    <3> HIDE DEF HasMined
    <3> QED BY <3>1
  <2>2. UNCHANGED <<settings, asked, payments, audit, observations, audits>>
    BY <1>7 DEF Mint
  <2>3. call.payment = p
    BY DEF buildCoston2DirectMintCall
  <2> DEFINE mint == [call |-> call, outcome |-> outcome, deposit |-> deposit]
  <2>4. /\ DOMAIN mints' = 1..Len(mints) + 1
        /\ \A t \in DOMAIN mints : mints'[t] = mints[t]
        /\ mints'[Len(mints) + 1] = mint
    <3> HIDE DEF mint
    <3> QED BY <1>0, <2>1, AppendKeeps DEF MintInv, HistoriesGrow, mint
  <2>5. OnlyExecutionsDeposit'
    BY <1>0, <2>1, <2>4 DEF MintInv, OnlyExecutionsDeposit
  <2>6. outcome = "executed" => \A t \in DOMAIN mints : mints[t].outcome = "executed" => mints[t].call.payment # p
    BY <2>1, <2>3 DEF Accepts, IsMinted
  <2>7. OneMintPerPayment'
    <3> HIDE DEF call
    <3> QED BY <1>0, <2>3, <2>4, <2>6 DEF MintInv, OneMintPerPayment
  <2> HIDE DEF call
  <2> QED BY <2>1, <2>2, <2>5, <2>7, EvidenceRests
          DEF MintInv, HistoriesGrow, PaymentsAreWhole, IsSequence
<1>8. ASSUME NEW reference \in Reference, StartAudit(reference)
      PROVE  MintInv'
  <2>1. /\ audit' = [reference |-> reference, since |-> Len(settings), got |-> <<>>]
        /\ UNCHANGED <<settings, personalAccount, asked, payments, mints, observations, audits>>
    BY <1>8 DEF StartAudit
  <2>2. reference.mint \in DOMAIN mints /\ reference.payment \in DOMAIN payments
    BY <1>8 DEF Reference
  <2>3. BornOut(reference)
    BY <1>8, <2>2 DEF StartAudit, decodeHistoricalFundingArtifacts, decodeOperation, findDepositEvent, BornOut,
                      MintInv, OnlyExecutionsDeposit
  <2>4. DOMAIN audit'.got = {}
    BY <2>1
  <2>5. AuditedWasSaid'
    BY <1>0, <2>1, <2>3, <2>4 DEF AuditedWasSaid, BornOut, ReadBetween
  <2> QED BY <2>1, <2>5, EvidenceRests
          DEF MintInv, HistoriesGrow, PaymentsAreWhole, OnlyExecutionsDeposit, OneMintPerPayment, IsSequence
<1>9. ASSUME NEW item, collectFundingResumeObservation(item)
      PROVE  MintInv'
  <2> DEFINE manager == mints[audit.reference.mint].call.manager
             value == IF item \in {"nonce", "deposited"} THEN personalAccount[item] ELSE SettingsOf(manager)[item]
             got == Noted(audit.got, item, value)
  <2>1. /\ audit # NoAudit /\ audit' = [audit EXCEPT !.got = got]
        /\ UNCHANGED <<settings, personalAccount, asked, payments, mints, observations, audits>>
    BY <1>9 DEF collectFundingResumeObservation
  <2>2. /\ audit = [reference |-> audit.reference, since |-> audit.since, got |-> audit.got]
        /\ BornOut(audit.reference) /\ ReadBetween(audit.since, Len(settings), manager, audit.got)
    BY <2>1 DEF MintInv, AuditedWasSaid
  <2>3. audit' = [reference |-> audit.reference, since |-> audit.since, got |-> got]
    <3> HIDE DEF got
    <3> QED BY <2>1, <2>2
  <2>4. ReadBetween(audit.since, Len(settings), manager, got)
    <3>1. ASSUME NEW other \in DOMAIN got \ {"nonce", "deposited"}
          PROVE  \E i \in audit.since..Len(settings) : settings[i].of[manager][other] = got[other]
      <4> HIDE DEF manager
      <4>1. CASE other = item
        <5>1. got[other] = settings[Len(settings)].of[manager][other]
          BY <3>1, <4>1 DEF Noted, SettingsOf, Current, Last
        <5>2. Len(settings) \in audit.since..Len(settings)
          BY <1>0, <2>2 DEF ReadBetween
        <5> QED BY <5>1, <5>2
      <4>2. CASE other # item
        <5>1. other \in DOMAIN audit.got /\ got[other] = audit.got[other]
          BY <3>1, <4>2 DEF Noted
        <5> QED BY <2>2, <3>1, <5>1 DEF ReadBetween
      <4> QED BY <4>1, <4>2
    <3> QED BY <2>2, <3>1 DEF ReadBetween
  <2>5. AuditedWasSaid'
    <3> HIDE DEF got
    <3>1. /\ audit'.reference = audit.reference /\ audit'.since = audit.since /\ audit'.got = got
          /\ audit' = [reference |-> audit'.reference, since |-> audit'.since, got |-> audit'.got]
      BY <2>3
    <3>2. BornOut(audit.reference)'
      BY <2>1, <2>2, <3>1, Zenon DEF BornOut
    <3>3. PICK m : m = manager
      OBVIOUS
    <3>4. (mints[audit.reference.mint].call.manager = m)'
      BY <2>1, <3>1, <3>3
    <3>5. ReadBetween(audit.since, Len(settings), m, audit.got)'
      <4>1. ReadBetween(audit'.since, Len(settings), m, audit'.got)
        BY <2>4, <3>1, <3>3
      <4> QED BY <2>1, <4>1 DEF ReadBetween
    <3> HIDE DEF manager
    <3> QED BY <3>1, <3>2, <3>4, <3>5 DEF AuditedWasSaid
  <2> QED BY <2>1, <2>5, EvidenceRests
          DEF MintInv, HistoriesGrow, PaymentsAreWhole, OnlyExecutionsDeposit, OneMintPerPayment, IsSequence
<1>10. ASSUME buildFundingResumeEvidence
       PROVE  MintInv'
  <2>1. /\ audit # NoAudit /\ audit' = NoAudit
        /\ UNCHANGED <<settings, personalAccount, asked, payments, mints, observations>>
    BY <1>10 DEF buildFundingResumeEvidence
  <2>2. ASSUME NEW e \in audits'
        PROVE  /\ BornOut(e.reference)
               /\ ReadBetween(e.since, e.until, mints[e.reference.mint].call.manager, e.published)
    <3>1. \/ e \in audits
          \/ \E quote : e = [reference |-> audit.reference, since |-> audit.since, until |-> Len(settings),
                             published |-> audit.got, quote |-> quote]
      BY <1>10, <2>2 DEF buildFundingResumeEvidence
    <3> QED BY <2>1, <3>1 DEF MintInv, EvidenceStands, AuditedWasSaid
  <2>3. EvidenceStands'
    <3>1. \A o \in observations' : ReadBetween(o.since, o.until, o.manager, o.published)'
      BY <2>1 DEF MintInv, EvidenceStands, ReadBetween
    <3>2. ASSUME NEW e \in audits'
          PROVE  /\ BornOut(e.reference)'
                 /\ ReadBetween(e.since, e.until, mints[e.reference.mint].call.manager, e.published)'
      <4>1. BornOut(e.reference)'
        BY <2>1, <2>2 DEF BornOut
      <4>2. PICK manager : manager = mints[e.reference.mint].call.manager
        OBVIOUS
      <4>3. ReadBetween(e.since, e.until, manager, e.published)
        BY <2>2, <4>2
      <4>4. ReadBetween(e.since, e.until, manager, e.published)'
        BY <2>1, <4>3 DEF ReadBetween
      <4> QED BY <2>1, <4>1, <4>2, <4>4
    <3> QED BY <3>1, <3>2 DEF EvidenceStands
  <2> QED BY <2>1, <2>3, EvidenceRests
          DEF MintInv, HistoriesGrow, PaymentsAreWhole, OnlyExecutionsDeposit, OneMintPerPayment, IsSequence
<1>11. CASE UNCHANGED mintVars
  BY <1>11, EvidenceRests
     DEF mintVars, MintInv, HistoriesGrow, PaymentsAreWhole, OnlyExecutionsDeposit, OneMintPerPayment, IsSequence
<1> QED BY <1>1, <1>2, <1>3, <1>4, <1>5, <1>6, <1>7, <1>8, <1>9, <1>10, <1>11 DEF DirectMintNext

LEMMA MintInvImplies == MintInv => FundingEvidenceIsTrue
<1> SUFFICES ASSUME MintInv PROVE FundingEvidenceIsTrue
  OBVIOUS
<1>1. \A o \in observations : WasSetting(o.manager, o)
  BY DEF MintInv, EvidenceStands, ReadBetween, WasSetting
<1>2. ASSUME NEW e \in audits PROVE AuditIsTrue(e)
  <2>1. BornOut(e.reference)
    BY DEF MintInv, EvidenceStands
  <2>2. WasSetting(mints[e.reference.mint].call.manager, e)
    BY DEF MintInv, EvidenceStands, ReadBetween, WasSetting
  <2>3. \A t \in DOMAIN mints :
           mints[t].call.payment = e.reference.payment /\ mints[t].outcome = "executed" => t = e.reference.mint
    BY <2>1 DEF MintInv, OneMintPerPayment, BornOut
  <2> QED BY <2>1, <2>2, <2>3 DEF AuditIsTrue, BornOut
<1> QED BY <1>1, <1>2 DEF FundingEvidenceIsTrue

\* What the two scripts publish of the funding of the vault is so: a setting
\* is one the asset manager had while the script ran, and an audit names the
\* one transaction that minted and deposited (coston2-direct-mint-
\* observation.mjs:142-155, coston2-funding-resume.mjs:321-402).
THEOREM FundingIsTrue == DirectMintSpec => []FundingEvidenceIsTrue
BY MintInvInit, MintInvNext, MintInvImplies, PTL DEF DirectMintSpec

-----------------------------------------------------------------------------
(* The feed: sorting.                                                       *)

Numbered(ns, n) == n \in Nat /\ DOMAIN ns = 1..n /\ Len(ns) = n

LEMMA LengthOf ==
    ASSUME NEW n \in Nat, NEW s, DOMAIN s = 1..n, s = [i \in 1..n |-> s[i]]
    PROVE  Len(s) = n /\ s \in Seq({s[i] : i \in 1..n})
<1> DEFINE S == {s[i] : i \in 1..n}
<1>1. s \in [1..n -> S]
  OBVIOUS
<1> HIDE DEF S
<1>2. s \in Seq(S)
  BY <1>1, SeqDef
<1>3. Len(s) \in Nat /\ DOMAIN s = 1..Len(s)
  BY <1>2, LenProperties
<1> QED BY <1>2, <1>3 DEF S

Keyed(n) == n.observedAt \in Int /\ n.blockNumber \in Int /\ n.reference \in Int

\* What the ranks count: an order of the places, by notification and then by place.
LEMMA PlacesAreOrdered ==
    ASSUME NEW ns, NEW n, Numbered(ns, n), \A i \in 1..n : Keyed(ns[i]),
           NEW i \in 1..n, NEW j \in 1..n, i \in UpTo(ns, j), i # j
    PROVE  /\ UpTo(ns, i) \subseteq UpTo(ns, j)
           /\ j \notin UpTo(ns, i)
<1>1. ASSUME NEW x \in UpTo(ns, i) PROVE x \in UpTo(ns, j)
  BY <1>1, SMTT(20) DEF UpTo, Precedes, Numbered, Keyed
<1>2. j \notin UpTo(ns, i)
  BY SMTT(20) DEF UpTo, Precedes, Numbered, Keyed
<1> QED BY <1>1, <1>2

LEMMA PlacesAreComparable ==
    ASSUME NEW ns, NEW n, Numbered(ns, n), \A i \in 1..n : Keyed(ns[i]),
           NEW i \in 1..n, NEW j \in 1..n
    PROVE  i \in UpTo(ns, j) \/ j \in UpTo(ns, i)
BY DEF UpTo, Precedes, Numbered, Keyed

LEMMA RanksRise ==
    ASSUME NEW ns, NEW n, Numbered(ns, n), \A i \in 1..n : Keyed(ns[i]),
           NEW i \in 1..n, NEW j \in 1..n, i \in UpTo(ns, j), i # j
    PROVE  Cardinality(UpTo(ns, i)) < Cardinality(UpTo(ns, j))
<1>1. UpTo(ns, i) \subseteq UpTo(ns, j) /\ j \notin UpTo(ns, i) /\ j \in UpTo(ns, j)
  BY PlacesAreOrdered, PlacesAreComparable
<1>2. IsFiniteSet(UpTo(ns, j))
  <2>1. UpTo(ns, j) \subseteq 1..n /\ 1 \in Int /\ n \in Int
    BY DEF UpTo, Numbered
  <2> QED BY <2>1, FS_Interval, FS_Subset
<1>3. /\ Cardinality(UpTo(ns, i)) <= Cardinality(UpTo(ns, j))
      /\ Cardinality(UpTo(ns, j)) # Cardinality(UpTo(ns, i))
  BY <1>1, <1>2, FS_Subset
<1>4. Cardinality(UpTo(ns, j)) \in Nat /\ Cardinality(UpTo(ns, i)) \in Nat
  BY <1>1, <1>2, FS_Subset, FS_CardinalityType
<1> QED BY <1>3, <1>4

\* Sorted, a list has the same notifications, none after one it precedes.
LEMMA SortSorts ==
    ASSUME NEW ns, NEW n, Numbered(ns, n), \A i \in 1..n : Keyed(ns[i])
    PROVE  /\ Numbered(sortPublicNotifications(ns), n)
           /\ \A k \in 1..n : \E i \in 1..n : sortPublicNotifications(ns)[k] = ns[i]
           /\ \A k, l \in 1..n : k < l =>
                ~ Precedes(sortPublicNotifications(ns)[l], sortPublicNotifications(ns)[k])
<1> DEFINE rank == [i \in 1..n |-> Cardinality(UpTo(ns, i))]
           place(k) == CHOOSE i \in DOMAIN ns : Cardinality(UpTo(ns, i)) = k
           sorted == sortPublicNotifications(ns)
<1>1. n \in Nat /\ DOMAIN ns = 1..n /\ Len(ns) = n /\ IsFiniteSet(1..n)
  BY FS_Interval DEF Numbered
<1>2. ASSUME NEW i \in 1..n PROVE Cardinality(UpTo(ns, i)) \in 1..n
  <2>1. UpTo(ns, i) \subseteq 1..n /\ i \in UpTo(ns, i)
    BY <1>1, PlacesAreComparable DEF UpTo
  <2>2. IsFiniteSet(UpTo(ns, i)) /\ Cardinality(UpTo(ns, i)) <= Cardinality(1..n)
    BY <2>1, <1>1, FS_Subset
  <2>3. Cardinality(1..n) = n
    BY <1>1, FS_Interval
  <2>4. Cardinality(UpTo(ns, i)) \in Nat /\ Cardinality(UpTo(ns, i)) # 0
    BY <2>1, <2>2, FS_CardinalityType, FS_EmptySet
  <2> QED BY <1>1, <2>2, <2>3, <2>4
<1>3. rank \in Injection(1..n, 1..n)
  <2>1. ASSUME NEW i \in 1..n, NEW j \in 1..n, i # j PROVE Cardinality(UpTo(ns, i)) # Cardinality(UpTo(ns, j))
    <3>1. /\ Cardinality(UpTo(ns, i)) \in 1..n /\ Cardinality(UpTo(ns, j)) \in 1..n
      BY <1>2
    <3>2. CASE i \in UpTo(ns, j)
      <4>1. Cardinality(UpTo(ns, i)) < Cardinality(UpTo(ns, j))
        BY <2>1, <3>2, RanksRise
      <4> QED BY <3>1, <4>1
    <3>3. CASE j \in UpTo(ns, i)
      <4>1. Cardinality(UpTo(ns, j)) < Cardinality(UpTo(ns, i))
        BY <2>1, <3>3, RanksRise
      <4> QED BY <3>1, <4>1
    <3> QED BY <3>2, <3>3, PlacesAreComparable
  <2>2. rank \in [1..n -> 1..n]
    BY <1>2
  <2> QED BY <2>1, <2>2 DEF Injection, IsInjective
<1>4. rank \in Surjection(1..n, 1..n)
  BY <1>1, <1>3, FS_Injection
<1>5. ASSUME NEW k \in 1..n
      PROVE  place(k) \in 1..n /\ Cardinality(UpTo(ns, place(k))) = k
  <2>1. \E i \in 1..n : rank[i] = k
    BY <1>4 DEF Surjection
  <2>2. \E i \in DOMAIN ns : Cardinality(UpTo(ns, i)) = k
    BY <1>1, <2>1
  <2> QED BY <1>1, <2>2
<1>6. sorted = [k \in 1..n |-> ns[place(k)]]
  BY <1>1 DEF sortPublicNotifications
<1> HIDE DEF place, rank
<1>7. ASSUME NEW k \in 1..n, NEW l \in 1..n, k < l PROVE ~ Precedes(ns[place(l)], ns[place(k)])
  <2>1. place(k) \in 1..n /\ place(l) \in 1..n
    BY <1>5
  <2> SUFFICES ASSUME Precedes(ns[place(l)], ns[place(k)]) PROVE FALSE
    OBVIOUS
  <2>2. place(l) \in UpTo(ns, place(k))
    BY <1>1, <2>1 DEF UpTo
  <2>3. place(l) # place(k)
    BY <1>5, <1>7
  <2>4. Cardinality(UpTo(ns, place(l))) < Cardinality(UpTo(ns, place(k)))
    BY <2>1, <2>2, <2>3, RanksRise
  <2> QED BY <1>5, <1>7, <2>4
<1>8. Numbered(sorted, n)
  <2> HIDE DEF sorted
  <2>1. DOMAIN sorted = 1..n /\ sorted = [k \in 1..n |-> sorted[k]]
    BY <1>6
  <2> QED BY <1>1, <2>1, LengthOf DEF Numbered
<1>9. \A k \in 1..n : sorted[k] = ns[place(k)]
  BY <1>6
<1> HIDE DEF sorted
<1>10. \A k \in 1..n : \E i \in 1..n : sorted[k] = ns[i]
  BY <1>5, <1>9
<1>11. \A k, l \in 1..n : k < l => ~ Precedes(sorted[l], sorted[k])
  BY <1>7, <1>9
<1> QED BY <1>8, <1>10, <1>11 DEF sorted

Ordered(ns) == \A i, j \in DOMAIN ns : i < j => Precedes(ns[i], ns[j])

\* Of as many places as there are, as many are up to m as m says.
LEMMA PlacesUpTo ==
    ASSUME NEW n \in Nat, NEW p \in Injection(1..n, 1..n), NEW m \in 1..n
    PROVE  Cardinality({j \in 1..n : p[j] <= m}) = m
<1> DEFINE S == {j \in 1..n : p[j] <= m}
           f == [j \in S |-> p[j]]
<1>1. IsFiniteSet(1..n) /\ IsFiniteSet(1..m) /\ Cardinality(1..m) = m
  BY FS_Interval
<1>2. p \in Surjection(1..n, 1..n)
  BY <1>1, FS_Injection
<1>3. \A i, j \in 1..n : p[i] = p[j] => i = j
  BY DEF Injection, IsInjective
<1>4. f \in [S -> 1..m] /\ p \in [1..n -> 1..n]
  BY DEF Injection
<1>5. ASSUME NEW i \in 1..m PROVE \E j \in S : f[j] = i
  <2>1. i \in 1..n /\ i <= m
    OBVIOUS
  <2>2. PICK j \in 1..n : p[j] = i
    BY <1>2, <2>1 DEF Surjection
  <2>3. j \in S
    BY <2>1, <2>2
  <2> QED BY <2>2, <2>3
<1>6. f \in Bijection(S, 1..m)
  BY <1>3, <1>4, <1>5 DEF Bijection, Injection, IsInjective, Surjection
<1>7. IsFiniteSet(S)
  BY <1>1, FS_Subset
<1> HIDE DEF f
<1>8. ExistsBijection(S, 1..m)
  BY <1>6 DEF ExistsBijection
<1> QED BY <1>1, <1>7, <1>8, FS_Bijection

\* However its notifications are exchanged, an ordered list is sorted to itself.
LEMMA SortIsCanonical ==
    ASSUME NEW ns, NEW n, Numbered(ns, n), \A i \in 1..n : Keyed(ns[i]), Ordered(ns),
           NEW p \in [1..n -> 1..n], \A i, j \in 1..n : p[i] = p[j] => i = j,
           NEW ps, DOMAIN ps = 1..n, Len(ps) = n, \A i \in 1..n : ps[i] = ns[p[i]]
    PROVE  sortPublicNotifications(ps) = [i \in 1..n |-> ns[i]]
<1>1. n \in Nat /\ DOMAIN ns = 1..n /\ p \in Injection(1..n, 1..n) /\ IsFiniteSet(1..n)
  <2>1. n \in Nat /\ DOMAIN ns = 1..n
    BY DEF Numbered
  <2>2. p \in Injection(1..n, 1..n)
    BY DEF Injection, IsInjective
  <2> QED BY <2>1, <2>2, FS_Interval
<1>2. \A i, j \in 1..n : Precedes(ns[i], ns[j]) <=> i < j
  <2> SUFFICES ASSUME NEW i \in 1..n, NEW j \in 1..n PROVE Precedes(ns[i], ns[j]) <=> i < j
    OBVIOUS
  <2>1. Keyed(ns[i]) /\ Keyed(ns[j]) /\ i \in Int /\ j \in Int
    OBVIOUS
  <2>2. (i < j => Precedes(ns[i], ns[j])) /\ (j < i => Precedes(ns[j], ns[i]))
    BY <1>1 DEF Ordered
  <2>3. ~ (Precedes(ns[i], ns[j]) /\ Precedes(ns[j], ns[i])) /\ (i = j => ~ Precedes(ns[i], ns[j]))
    BY <2>1 DEF Precedes, Keyed
  <2>4. i < j \/ j < i \/ i = j
    BY <2>1
  <2> QED BY <2>1, <2>2, <2>3, <2>4
<1>3. ASSUME NEW i \in 1..n PROVE Cardinality(UpTo(ps, i)) = p[i]
  <2>1. UpTo(ps, i) = {j \in 1..n : p[j] <= p[i]}
    <3>1. ASSUME NEW j \in 1..n PROVE j \in UpTo(ps, i) <=> p[j] <= p[i]
      <4>1. p[i] \in 1..n /\ p[j] \in 1..n /\ ps[i] = ns[p[i]] /\ ps[j] = ns[p[j]]
        BY <1>1
      <4>2. j \in UpTo(ps, i) <=> (p[j] < p[i] \/ (~ (p[i] < p[j]) /\ j <= i))
        BY <1>2, <4>1 DEF UpTo
      <4> QED BY <1>1, <4>1, <4>2
    <3>2. UpTo(ps, i) \subseteq 1..n
      BY DEF UpTo
    <3> QED BY <3>1, <3>2
  <2>2. p[i] \in 1..n
    BY <1>1
  <2>3. Cardinality({j \in 1..n : p[j] <= p[i]}) = p[i]
    BY <1>1, <2>2, PlacesUpTo
  <2> QED BY <2>1, <2>3
<1>4. p \in Surjection(1..n, 1..n)
  BY <1>1, FS_Injection
<1>5. ASSUME NEW k \in 1..n
      PROVE  ps[CHOOSE i \in 1..n : Cardinality(UpTo(ps, i)) = k] = ns[k]
  <2>1. \E i \in 1..n : Cardinality(UpTo(ps, i)) = k
    BY <1>3, <1>4 DEF Surjection
  <2>2. PICK i : i = CHOOSE m \in 1..n : Cardinality(UpTo(ps, m)) = k
    OBVIOUS
  <2>3. i \in 1..n /\ Cardinality(UpTo(ps, i)) = k
    BY <2>1, <2>2
  <2>4. p[i] = k
    BY <1>3, <2>3
  <2>5. ps[i] = ns[p[i]]
    BY <2>3
  <2> QED BY <2>2, <2>4, <2>5
<1>6. sortPublicNotifications(ps) = [k \in 1..n |-> ns[k]]
  BY <1>5 DEF sortPublicNotifications
<1> QED BY <1>6

-----------------------------------------------------------------------------
(* The feed: notifications.                                                 *)

KindAt(r, block) ==
    CASE progress[block][r] = "ALLOWED" -> "REQUEST_READY"
      [] progress[block][r] = "DENIED" -> "REQUEST_DENIED"
      [] progress[block][r] = "EXECUTED" -> "REQUEST_EXECUTED"
      [] progress[block][r] = "EXPIRED" -> "REQUEST_EXPIRED"
      [] OTHER -> "EVIDENCE_VERIFIED"

\* A notification is of a request at a block that has come.
NoteIs(n) ==
    /\ {"kind", "blockNumber"} \subseteq DOMAIN n
    /\ n.reference \in 1..Requests /\ n.blockNumber \in 1..LastBlock
    /\ n.observedAt = TimeOf(n.blockNumber)
    /\ n.kind = KindAt(n.reference, n.blockNumber)
    /\ n.eventId = <<n.reference, n.blockNumber, n.kind>>

LEMMA QuotientsRise ==
    ASSUME NEW a \in Nat, NEW b \in Nat, NEW d \in Nat \ {0}, a <= b
    PROVE  a \div d <= b \div d /\ a \div d \in Nat /\ b \div d \in Nat
<1>1. PICK q, r, s, t : q = a \div d /\ r = a % d /\ s = b \div d /\ t = b % d
  OBVIOUS
<1>2. /\ q \in Nat /\ r \in 0..(d - 1) /\ a = d * q + r
      /\ s \in Nat /\ t \in 0..(d - 1) /\ b = d * s + t
  BY <1>1
<1>3. CASE q > s
  <2>1. d * q >= d * (s + 1)
    BY <1>2, <1>3
  <2>2. d * (s + 1) = d * s + d
    BY <1>2
  <2>3. d * q \in Int /\ d * s \in Int
    BY <1>2
  <2> QED BY <1>2, <2>1, <2>2, <2>3
<1>4. CASE q <= s
  BY <1>1, <1>2, <1>4
<1> QED BY <1>2, <1>3, <1>4

LEMMA TimesRise ==
    ASSUME NEW a \in Nat, NEW b \in Nat
    PROVE  /\ TimeOf(a) \in Nat \ {0}
           /\ a <= b => TimeOf(a) <= TimeOf(b)
<1>1. a <= a
  OBVIOUS
<1>2. a \div BlocksPerSecond \in Nat /\ b \div BlocksPerSecond \in Nat
  BY <1>1, QuotientsRise, FeedAssumption
<1>3. a <= b => a \div BlocksPerSecond <= b \div BlocksPerSecond
  BY QuotientsRise, FeedAssumption
<1> QED BY <1>2, <1>3 DEF TimeOf

LEMMA NotesAreKeyed ==
    ASSUME NEW n, NoteIs(n), LastBlock \in Nat
    PROVE  Keyed(n) /\ n.blockNumber \in Nat
<1>1. n.reference \in Int /\ n.blockNumber \in Nat
  BY FeedAssumption DEF NoteIs
<1>2. TimeOf(n.blockNumber) \in Nat
  BY <1>1, TimesRise
<1> QED BY <1>1, <1>2 DEF Keyed, NoteIs

\* Of two notifications, one precedes the other.
LEMMA NotesAreTold ==
    ASSUME NEW m, NEW n, NoteIs(m), NoteIs(n), LastBlock \in Nat, m.eventId # n.eventId,
           ~ Precedes(n, m)
    PROVE  Precedes(m, n)
<1>1. Keyed(m) /\ Keyed(n)
  BY NotesAreKeyed
<1>2. m.reference # n.reference \/ m.blockNumber # n.blockNumber
  <2> SUFFICES ASSUME m.reference = n.reference, m.blockNumber = n.blockNumber PROVE FALSE
    OBVIOUS
  <2>1. m.kind = n.kind
    BY DEF NoteIs
  <2> QED BY <2>1 DEF NoteIs
<1> QED BY <1>1, <1>2 DEF Precedes, Keyed

LEMMA LaterComesFirst ==
    ASSUME NEW m, NEW n, NoteIs(m), NoteIs(n), LastBlock \in Nat, m.reference = n.reference, Precedes(m, n)
    PROVE  m.blockNumber > n.blockNumber
<1>1. Keyed(m) /\ Keyed(n) /\ m.blockNumber \in Nat /\ n.blockNumber \in Nat
  BY NotesAreKeyed
<1>2. m.blockNumber <= n.blockNumber => m.observedAt <= n.observedAt
  BY <1>1, TimesRise DEF NoteIs
<1> QED BY <1>1, <1>2 DEF Precedes, Keyed

-----------------------------------------------------------------------------
(* The feed: building one.                                                  *)

NotesAre(ns) ==
    /\ Len(ns) \in Nat /\ DOMAIN ns = 1..Len(ns) /\ ns = [i \in 1..Len(ns) |-> ns[i]]
    /\ Ordered(ns) /\ \A i \in 1..Len(ns) : NoteIs(ns[i])

FeedIs(f) ==
    /\ f = [chainId |-> f.chainId, generatedAt |-> f.generatedAt,
            notifications |-> f.notifications, feedHash |-> f.feedHash]
    /\ f.chainId \in Int /\ f.generatedAt \in Int
    /\ validateFeedInput(f) /\ f.feedHash = publicNotificationFeedHash(f)
    /\ NotesAre(f.notifications)

LEMMA SortedToItself ==
    ASSUME NEW ns, NotesAre(ns), LastBlock \in Nat
    PROVE  sortPublicNotifications(ns) = ns
<1>1. PICK n, p : n = Len(ns) /\ p = [i \in 1..n |-> i]
  OBVIOUS
<1>2. /\ DOMAIN ns = 1..n /\ Len(ns) = n /\ Ordered(ns)
      /\ Numbered(ns, n) /\ \A i \in 1..n : Keyed(ns[i])
  BY <1>1, NotesAreKeyed DEF NotesAre, Numbered
<1>3. p \in [1..n -> 1..n] /\ \A i, j \in 1..n : p[i] = p[j] => i = j
  BY <1>1
<1>4. \A i \in 1..n : ns[i] = ns[p[i]]
  BY <1>1
<1>5. sortPublicNotifications(ns) = [i \in 1..n |-> ns[i]]
  BY <1>2, <1>3, <1>4, SortIsCanonical
<1> QED BY <1>1, <1>5 DEF NotesAre

\* Distinct notifications, sorted, are in order.
LEMMA SortedNotes ==
    ASSUME NEW ns, NEW n, Numbered(ns, n), \A i \in 1..n : NoteIs(ns[i]), LastBlock \in Nat,
           assertUniqueNotifications(sortPublicNotifications(ns))
    PROVE  NotesAre(sortPublicNotifications(ns)) /\ Len(sortPublicNotifications(ns)) = n
<1> DEFINE s == sortPublicNotifications(ns)
<1>1. \A i \in 1..n : Keyed(ns[i])
  BY NotesAreKeyed
<1>2. /\ n \in Nat /\ DOMAIN s = 1..n /\ Len(s) = n
      /\ \A k \in 1..n : \E i \in 1..n : s[k] = ns[i]
      /\ \A k, l \in 1..n : k < l => ~ Precedes(s[l], s[k])
  <2> HIDE DEF s
  <2>1. Numbered(s, n)
    BY <1>1, SortSorts DEF s
  <2>2. \A k \in 1..n : \E i \in 1..n : s[k] = ns[i]
    BY <1>1, SortSorts, ZenonT(40) DEF s
  <2>3. \A k, l \in 1..n : k < l => ~ Precedes(s[l], s[k])
    BY <1>1, SortSorts, ZenonT(40) DEF s
  <2> QED BY <2>1, <2>2, <2>3 DEF Numbered
<1>3. s = [k \in 1..n |-> s[k]]
  <2>1. Len(ns) = n
    BY DEF Numbered
  <2> QED BY <2>1 DEF sortPublicNotifications
<1>4. \A i, j \in 1..n : i # j => s[i].eventId # s[j].eventId
  BY <1>2 DEF assertUniqueNotifications
<1> HIDE DEF s
<1>5. \A k \in 1..n : NoteIs(s[k])
  BY <1>2
<1>6. Ordered(s)
  <2> SUFFICES ASSUME NEW i \in 1..n, NEW j \in 1..n, i < j PROVE Precedes(s[i], s[j])
    BY <1>2 DEF Ordered
  <2>1. s[i].eventId # s[j].eventId /\ ~ Precedes(s[j], s[i])
    BY <1>2, <1>4
  <2> QED BY <1>5, <2>1, NotesAreTold
<1> QED BY <1>2, <1>3, <1>5, <1>6 DEF NotesAre, s

LEMMA WithField ==
    ASSUME NEW record, NEW field, NEW value
    PROVE  /\ DOMAIN With(record, field, value) = DOMAIN record \union {field}
           /\ With(record, field, value)[field] = value
           /\ \A f \in DOMAIN record : f # field => With(record, field, value)[f] = record[f]
           /\ With(record, field, value) = [f \in DOMAIN record \union {field} |-> With(record, field, value)[f]]
BY DEF With

LEMMA FeedSealed ==
    ASSUME NEW chain, NEW time, NEW ns, NEW hash
    PROVE  With([chainId |-> chain, generatedAt |-> time, notifications |-> ns], "feedHash", hash)
             = [chainId |-> chain, generatedAt |-> time, notifications |-> ns, feedHash |-> hash]
BY DEF With

LEMMA FeedsAreBuilt ==
    ASSUME NEW ns, NEW n, Numbered(ns, n), \A i \in 1..n : NoteIs(ns[i]), LastBlock \in Nat,
           NEW chain \in Int, NEW time \in Int
    PROVE  \/ buildPublicNotificationFeed(chain, time, ns) = Refused
           \/ /\ FeedIs(buildPublicNotificationFeed(chain, time, ns))
              /\ buildPublicNotificationFeed(chain, time, ns).notifications = sortPublicNotifications(ns)
<1> DEFINE s == sortPublicNotifications(ns)
           body == [chainId |-> chain, generatedAt |-> time, notifications |-> s]
           sealed == [chainId |-> chain, generatedAt |-> time, notifications |-> s,
                      feedHash |-> publicNotificationFeedHash(body)]
<1>1. buildPublicNotificationFeed(chain, time, ns) = decodePublicNotificationFeed(sealed)
  <2>1. With(body, "feedHash", publicNotificationFeedHash(body)) = sealed
    BY FeedSealed
  <2> QED BY <2>1 DEF buildPublicNotificationFeed
<1>2. CASE ~ validateFeedInput(sealed)
  BY <1>1, <1>2 DEF decodePublicNotificationFeed
<1>3. CASE validateFeedInput(sealed)
  <2>1. NotesAre(s)
    <3>1. assertUniqueNotifications(sealed.notifications)
      BY <1>3 DEF validateFeedInput
    <3>2. sealed.notifications = s
      OBVIOUS
    <3> HIDE DEF s, sealed
    <3> QED BY <3>1, <3>2, SortedNotes DEF s
  <2>2. sortPublicNotifications(s) = s
    <3> HIDE DEF s
    <3> QED BY <2>1, SortedToItself
  <2>3. publicNotificationFeedHash(sealed) = publicNotificationFeedHash(body)
    BY DEF publicNotificationFeedHash
  <2>4. decodePublicNotificationFeed(sealed) = [sealed EXCEPT !.notifications = sortPublicNotifications(@)]
           \/ decodePublicNotificationFeed(sealed) = Refused
    BY DEF decodePublicNotificationFeed
  <2>5. [sealed EXCEPT !.notifications = sortPublicNotifications(@)] = sealed
    <3> HIDE DEF s
    <3> QED BY <2>2
  <2>6. sealed.feedHash = publicNotificationFeedHash(sealed) /\ sealed.notifications = s
        /\ sealed.chainId = chain /\ sealed.generatedAt = time
    BY <2>3
  <2>7. FeedIs(sealed)
    <3> HIDE DEF s
    <3> QED BY <1>3, <2>1, <2>6 DEF FeedIs
  <2> QED BY <1>1, <2>4, <2>5, <2>6, <2>7
<1> QED BY <1>2, <1>3

-----------------------------------------------------------------------------
(* The feed: what a reader hears.                                           *)

BodyOf(r, block) ==
    [chainId |-> ChainId, eventId |-> <<r, block, KindAt(r, block)>>, kind |-> KindAt(r, block),
     severity |-> IF KindAt(r, block) \in {"REQUEST_DENIED", "REQUEST_EXPIRED"} THEN "WARNING" ELSE "INFO",
     reference |-> r,
     requestId |-> IF KindAt(r, block) = "EVIDENCE_VERIFIED" THEN NoRequestId ELSE r,
     blockNumber |-> block, observedAt |-> TimeOf(block)]

NoteOf(r, block) == With(BodyOf(r, block), "notificationHash", publicNotificationHash(BodyOf(r, block)))

LEMMA StateIsOfNote ==
    ASSUME NEW r, NEW block
    PROVE  notificationStateFromRequest(r, block)
             = buildPublicNotificationFeed(ChainId, TimeOf(block), <<NoteOf(r, block)>>)
BY Zenon DEF notificationStateFromRequest, NoteOf, BodyOf, KindAt

LEMMA NoteFields ==
    ASSUME NEW r, NEW block, NEW n, n = NoteOf(r, block), NEW k, k = KindAt(r, block)
    PROVE  /\ {"kind", "blockNumber"} \subseteq DOMAIN n
           /\ n.chainId = ChainId /\ n.eventId = <<r, block, k>> /\ n.kind = k
           /\ n.severity = IF k \in {"REQUEST_DENIED", "REQUEST_EXPIRED"} THEN "WARNING" ELSE "INFO"
           /\ n.reference = r
           /\ n.requestId = IF k = "EVIDENCE_VERIFIED" THEN NoRequestId ELSE r
           /\ n.blockNumber = block /\ n.observedAt = TimeOf(block)
           /\ n.notificationHash = publicNotificationHash(n)
<1> DEFINE b == BodyOf(r, block)
<1>1. /\ DOMAIN n = DOMAIN b \union {"notificationHash"}
      /\ n["notificationHash"] = publicNotificationHash(b)
      /\ \A f \in DOMAIN b : f # "notificationHash" => n[f] = b[f]
  <2>1. n = With(b, "notificationHash", publicNotificationHash(b))
    BY DEF NoteOf
  <2> HIDE DEF b
  <2> QED BY <2>1 DEF With
<1>2. DOMAIN b = {"chainId", "eventId", "kind", "severity", "reference", "requestId", "blockNumber", "observedAt"}
  BY DEF BodyOf
<1>3. n.chainId = b.chainId /\ n.eventId = b.eventId /\ n.kind = b.kind /\ n.severity = b.severity
      /\ n.reference = b.reference /\ n.requestId = b.requestId /\ n.blockNumber = b.blockNumber
      /\ n.observedAt = b.observedAt
  <2> HIDE DEF b
  <2> QED BY <1>1, <1>2
<1>4. publicNotificationHash(n) = publicNotificationHash(b)
  <2> HIDE DEF b
  <2> QED BY <1>1, <1>2 DEF publicNotificationHash
<1>5. {"kind", "blockNumber"} \subseteq DOMAIN n
  <2> HIDE DEF b
  <2> QED BY <1>1, <1>2
<1>6. n.notificationHash = publicNotificationHash(n)
  <2> HIDE DEF b
  <2> QED BY <1>1, <1>4
<1> QED BY <1>3, <1>5, <1>6 DEF BodyOf

LEMMA KindsAre ==
    ASSUME NEW r, NEW block
    PROVE  KindAt(r, block) \in RequestKind \union {"EVIDENCE_VERIFIED"}
BY DEF KindAt, RequestKind

LEMMA NotesDecode ==
    ASSUME NEW r \in 1..Requests, NEW block \in 1..LastBlock, LastBlock \in Nat
    PROVE  Decodes(NoteOf(r, block)) /\ NoteIs(NoteOf(r, block))
<1> DEFINE n == NoteOf(r, block)
           k == KindAt(r, block)
<1>1. k \in RequestKind \union {"EVIDENCE_VERIFIED"}
  BY KindsAre
<1>2. /\ {"kind", "blockNumber"} \subseteq DOMAIN n
      /\ n.chainId = ChainId /\ n.eventId = <<r, block, k>> /\ n.kind = k
      /\ n.severity = IF k \in {"REQUEST_DENIED", "REQUEST_EXPIRED"} THEN "WARNING" ELSE "INFO"
      /\ n.reference = r
      /\ n.requestId = IF k = "EVIDENCE_VERIFIED" THEN NoRequestId ELSE r
      /\ n.blockNumber = block /\ n.observedAt = TimeOf(block)
      /\ n.notificationHash = publicNotificationHash(n)
  <2> HIDE DEF n, k
  <2> QED BY NoteFields DEF n, k
<1>3. r \in Nat /\ r # 0 /\ block \in Nat /\ block # 0 /\ TimeOf(block) \in Nat \ {0}
  BY FeedAssumption, TimesRise
<1> HIDE DEF n, k
<1>4. n.severity = expectedSeverity(n.kind)
  BY <1>1, <1>2 DEF expectedSeverity, RequestKind
<1>5. n.kind \in RequestKind <=> n.requestId # NoRequestId
  BY <1>1, <1>2, <1>3 DEF NoRequestId, RequestKind
<1>6. n.chainId > 0 /\ n.blockNumber > 0 /\ n.observedAt > 0 /\ n.reference # NoRequestId
  BY <1>2, <1>3 DEF ChainId, NoRequestId
<1>7. Decodes(n)
  BY <1>1, <1>2, <1>4, <1>5, <1>6 DEF Decodes, validateNotificationBody, OtherKind
<1>8. NoteIs(n)
  BY <1>2, <1>3 DEF NoteIs, k
<1> QED BY <1>7, <1>8 DEF n

\* A reader of one request is given the one notification there is.
LEMMA HeardIsNote ==
    ASSUME NEW r \in 1..Requests, NEW block \in 1..LastBlock, LastBlock \in Nat
    PROVE  NoteIs(notificationStateFromRequest(r, block).notifications[1])
<1> DEFINE n == NoteOf(r, block)
           ns == <<n>>
           body == [chainId |-> ChainId, generatedAt |-> TimeOf(block), notifications |-> ns]
           sealed == [chainId |-> ChainId, generatedAt |-> TimeOf(block), notifications |-> ns,
                      feedHash |-> publicNotificationFeedHash(body)]
<1>1. Decodes(n) /\ NoteIs(n) /\ n.chainId = ChainId /\ n.observedAt = TimeOf(block) /\ TimeOf(block) \in Nat
  <2>1. n.chainId = ChainId /\ n.observedAt = TimeOf(block)
    BY NoteFields
  <2> QED BY <2>1, NotesDecode, TimesRise
<1> HIDE DEF n
<1>2. Len(ns) = 1 /\ DOMAIN ns = 1..1 /\ ns[1] = n /\ ns = [i \in 1..1 |-> ns[i]]
  OBVIOUS
<1>3. NotesAre(ns)
  <2> HIDE DEF ns
  <2> QED BY <1>1, <1>2 DEF NotesAre, Ordered
<1>4. sortPublicNotifications(ns) = ns
  <2> HIDE DEF ns
  <2> QED BY <1>3, SortedToItself
<1>5. validateFeedInput(sealed)
  <2>1. sealed.notifications = ns /\ sealed.chainId = ChainId /\ sealed.generatedAt = TimeOf(block)
    OBVIOUS
  <2>2. Len(ns) <= MaxNotifications
    BY <1>2, FeedAssumption
  <2>3. assertUniqueNotifications(ns)
    BY <1>2 DEF assertUniqueNotifications
  <2> HIDE DEF ns, sealed
  <2> QED BY <1>1, <1>2, <2>1, <2>2, <2>3 DEF validateFeedInput, ChainId
<1>6. buildPublicNotificationFeed(ChainId, TimeOf(block), ns) = decodePublicNotificationFeed(sealed)
  <2>1. With(body, "feedHash", publicNotificationFeedHash(body)) = sealed
    BY FeedSealed
  <2> QED BY <1>4, <2>1 DEF buildPublicNotificationFeed
<1>7. publicNotificationFeedHash(sealed) = publicNotificationFeedHash(body)
  BY DEF publicNotificationFeedHash
<1>8. decodePublicNotificationFeed(sealed) = [sealed EXCEPT !.notifications = sortPublicNotifications(@)]
  BY <1>5, <1>7 DEF decodePublicNotificationFeed
<1>9. decodePublicNotificationFeed(sealed).notifications = ns
  <2> HIDE DEF ns
  <2> QED BY <1>4, <1>8
<1> QED BY <1>1, <1>2, <1>6, <1>9, StateIsOfNote DEF n

-----------------------------------------------------------------------------
(* The feed: what is altered is refused.                                    *)

LEMMA RelabelledNote ==
    ASSUME NEW n, Decodes(n), NoteIs(n), LastBlock \in Nat
    PROVE  /\ \A kind : kind # n.kind => ~ Decodes([n EXCEPT !.kind = kind])
           /\ ~ Decodes([n EXCEPT !.blockNumber = @ + 1])
<1>1. n.blockNumber \in Nat /\ {"kind", "blockNumber"} \subseteq DOMAIN n
  BY NotesAreKeyed DEF NoteIs
<1>2. n.notificationHash = publicNotificationHash(n)
  BY DEF Decodes
<1>3. ASSUME NEW kind, kind # n.kind PROVE ~ Decodes([n EXCEPT !.kind = kind])
  <2> DEFINE m == [n EXCEPT !.kind = kind]
  <2>1. m.kind = kind /\ m.notificationHash = n.notificationHash
    BY <1>1
  <2> HIDE DEF m
  <2>2. publicNotificationHash(m)["kind"] = kind /\ publicNotificationHash(n)["kind"] = n.kind
    BY <2>1 DEF publicNotificationHash
  <2> QED BY <1>2, <1>3, <2>1, <2>2 DEF Decodes, m
<1>4. ~ Decodes([n EXCEPT !.blockNumber = @ + 1])
  <2> DEFINE m == [n EXCEPT !.blockNumber = @ + 1]
  <2>1. m.blockNumber = n.blockNumber + 1 /\ m.notificationHash = n.notificationHash
    BY <1>1
  <2> HIDE DEF m
  <2>2. publicNotificationHash(m)["blockNumber"] = m.blockNumber
        /\ publicNotificationHash(n)["blockNumber"] = n.blockNumber
    BY DEF publicNotificationHash
  <2>3. m.blockNumber # n.blockNumber
    BY <1>1, <2>1
  <2> QED BY <1>2, <2>1, <2>2, <2>3 DEF Decodes, m
<1> QED BY <1>3, <1>4

\* The rest of a relabelled record is as it was.
RestIs(x, w) == DOMAIN x = DOMAIN w /\ \A f \in DOMAIN w : f # "notifications" => x[f] = w[f]

LEMMA RelabelledIsWrong ==
    ASSUME NEW w, "notifications" \in DOMAIN w, NotesAre(w.notifications), LastBlock \in Nat,
           \A i \in DOMAIN w.notifications : Decodes(w.notifications[i]),
           NEW x \in Relabelled(w)
    PROVE  /\ RestIs(x, w)
           /\ \E k \in DOMAIN x.notifications : ~ Decodes(x.notifications[k])
<1> DEFINE ns == w.notifications
<1>1. \A k \in DOMAIN ns : Decodes(ns[k]) /\ NoteIs(ns[k])
  BY DEF NotesAre
<1>2. \/ \E k \in DOMAIN ns : \E kind \in RequestKind \ {ns[k].kind} :
            x = [w EXCEPT !.notifications[k].kind = kind]
      \/ \E k \in DOMAIN ns : x = [w EXCEPT !.notifications[k].blockNumber = @ + 1]
  <2> DEFINE kinds == [k \in DOMAIN ns |-> RequestKind \ {ns[k].kind}]
             some == {{[w EXCEPT !.notifications[k].kind = kind] : kind \in kinds[k]} : k \in DOMAIN ns}
             others == {[w EXCEPT !.notifications[k].blockNumber = @ + 1] : k \in DOMAIN ns}
  <2>1. Relabelled(w) = (UNION some) \union others
    BY DEF Relabelled
  <2>2. CASE x \in UNION some
    <3>1. PICK k \in DOMAIN ns : x \in {[w EXCEPT !.notifications[k].kind = kind] : kind \in kinds[k]}
      BY <2>2
    <3>2. PICK kind \in kinds[k] : x = [w EXCEPT !.notifications[k].kind = kind]
      BY <3>1
    <3>3. kind \in RequestKind \ {ns[k].kind}
      BY <3>2
    <3> QED BY <3>2, <3>3
  <2>3. CASE x \in others
    BY <2>3
  <2> HIDE DEF some, others
  <2> QED BY <2>1, <2>2, <2>3
<1>3. ASSUME NEW k \in DOMAIN ns, NEW kind \in RequestKind \ {ns[k].kind},
             x = [w EXCEPT !.notifications[k].kind = kind]
      PROVE  RestIs(x, w) /\ \E i \in DOMAIN x.notifications : ~ Decodes(x.notifications[i])
  <2>1. /\ DOMAIN x = DOMAIN w /\ \A f \in DOMAIN w : f # "notifications" => x[f] = w[f]
        /\ x.notifications = [ns EXCEPT ![k].kind = kind]
    BY <1>3
  <2>2. DOMAIN x.notifications = DOMAIN ns /\ x.notifications[k] = [ns[k] EXCEPT !.kind = kind]
    BY <2>1
  <2>3. ~ Decodes([ns[k] EXCEPT !.kind = kind])
    BY <1>1, <1>3, RelabelledNote
  <2> QED BY <2>1, <2>2, <2>3 DEF RestIs
<1>4. ASSUME NEW k \in DOMAIN ns, x = [w EXCEPT !.notifications[k].blockNumber = @ + 1]
      PROVE  RestIs(x, w) /\ \E i \in DOMAIN x.notifications : ~ Decodes(x.notifications[i])
  <2>1. /\ DOMAIN x = DOMAIN w /\ \A f \in DOMAIN w : f # "notifications" => x[f] = w[f]
        /\ x.notifications = [ns EXCEPT ![k].blockNumber = @ + 1]
    BY <1>4
  <2>2. DOMAIN x.notifications = DOMAIN ns /\ x.notifications[k] = [ns[k] EXCEPT !.blockNumber = @ + 1]
    BY <2>1
  <2>3. ~ Decodes([ns[k] EXCEPT !.blockNumber = @ + 1])
    BY <1>1, RelabelledNote
  <2> QED BY <2>1, <2>2, <2>3 DEF RestIs
<1> QED BY <1>2, <1>3, <1>4

\* Two parts of a sequence, from either side of its k-th place, joined.
LEMMA JoinedAroundPlace ==
    ASSUME NEW S, NEW n \in Nat, NEW ns, NEW k \in 1..n, NEW a \in Seq(S), NEW b \in Seq(S),
           Len(a) = k - 1, Len(b) = n - k,
           \A i \in 1..(k - 1) : a[i] = ns[i], \A i \in 1..(n - k) : b[i] = ns[k + i],
           NEW t, t = a \o b
    PROVE  /\ DOMAIN t = 1..(n - 1)
           /\ \A j \in 1..(n - 1) : t[j] = IF j < k THEN ns[j] ELSE ns[j + 1]
<1>1. Len(a) + Len(b) = n - 1
  OBVIOUS
<1>2. /\ t \in Seq(S) /\ Len(t) = Len(a) + Len(b)
      /\ \A i \in 1..(Len(a) + Len(b)) : t[i] = IF i <= Len(a) THEN a[i] ELSE b[i - Len(a)]
  BY ConcatProperties
<1>3. DOMAIN t = 1..(n - 1)
  BY <1>1, <1>2, LenProperties
<1>4. ASSUME NEW j \in 1..(n - 1) PROVE t[j] = IF j < k THEN ns[j] ELSE ns[j + 1]
  <2>1. t[j] = IF j <= k - 1 THEN a[j] ELSE b[j - (k - 1)]
    BY <1>1, <1>2
  <2>2. CASE j < k
    <3>1. j <= k - 1 /\ j \in 1..(k - 1)
      BY <2>2
    <3> QED BY <2>1, <2>2, <3>1
  <2>3. CASE ~ (j < k)
    <3>1. j - (k - 1) \in 1..(n - k) /\ k + (j - (k - 1)) = j + 1 /\ ~ (j <= k - 1)
      BY <2>3
    <3> QED BY <2>1, <2>3, <3>1
  <2> QED BY <2>2, <2>3
<1> QED BY <1>3, <1>4

\* So many places of a sequence from one on.
LEMMA PartOf ==
    ASSUME NEW S, NEW n \in Nat, NEW ns, \A i \in 1..n : ns[i] \in S, NEW from \in Nat, NEW count \in Nat,
           from + count <= n, NEW t, t = SubSeq(ns, from + 1, from + count)
    PROVE  t \in Seq(S) /\ Len(t) = count /\ \A i \in 1..count : t[i] = ns[from + i]
<1>1. PICK first, last : first = from + 1 /\ last = from + count
  OBVIOUS
<1>2. first \in Int /\ last \in Int /\ \A i \in first..last : ns[i] \in S
  BY <1>1
<1>3. /\ t \in Seq(S) /\ Len(t) = IF first <= last THEN last - first + 1 ELSE 0
      /\ \A i \in 1..(last - first + 1) : t[i] = ns[first + i - 1]
  BY <1>1, <1>2, SubSeqProperties
<1>4. /\ last - first + 1 = count /\ (count = 0 \/ first <= last) /\ (count # 0 \/ ~ (first <= last))
      /\ \A i \in Int : first + i - 1 = from + i
  BY <1>1
<1>5. Len(t) = count
  BY <1>3, <1>4
<1>6. ASSUME NEW i \in 1..count PROVE t[i] = ns[from + i]
  BY <1>3, <1>4
<1> QED BY <1>3, <1>5, <1>6

LEMMA ShortenedIsOther ==
    ASSUME NEW w, "notifications" \in DOMAIN w, NotesAre(w.notifications),
           assertUniqueNotifications(w.notifications), NEW x \in Shortened(w)
    PROVE  Hashes(x.notifications) # Hashes(w.notifications)
<1>1. PICK ns, n : ns = w.notifications /\ n = Len(ns)
  OBVIOUS
<1>2. n \in Nat /\ DOMAIN ns = 1..n /\ ns \in Seq({ns[i] : i \in 1..n})
  BY <1>1, LengthOf DEF NotesAre
<1>3. PICK k \in 1..n : x = [w EXCEPT !.notifications = SubSeq(ns, 1, k - 1) \o SubSeq(ns, k + 1, n)]
  BY <1>1, <1>2 DEF Shortened
<1>4. x.notifications = SubSeq(ns, 1, k - 1) \o SubSeq(ns, k + 1, n)
  BY <1>3
<1>5. \A i \in 1..n : i # k => ns[i].notificationHash # ns[k].notificationHash
  BY <1>1, <1>2 DEF assertUniqueNotifications
<1>6. ASSUME NEW j \in DOMAIN x.notifications PROVE \E i \in 1..n : i # k /\ x.notifications[j] = ns[i]
  <2>1. /\ DOMAIN x.notifications = 1..(n - 1)
        /\ x.notifications[j] = IF j < k THEN ns[j] ELSE ns[j + 1]
    <3>1. PICK S : S = {ns[i] : i \in 1..n}
      OBVIOUS
    <3>2. PICK a, b, t : a = SubSeq(ns, 1, k - 1) /\ b = SubSeq(ns, k + 1, n) /\ t = a \o b
      OBVIOUS
    <3>3. /\ n \in Nat /\ (\A i \in 1..n : ns[i] \in S)
          /\ 0 \in Nat /\ k - 1 \in Nat /\ 0 + (k - 1) <= n /\ k \in Nat /\ n - k \in Nat /\ k + (n - k) <= n
      BY <1>2, <3>1
    <3>4. a = SubSeq(ns, 0 + 1, 0 + (k - 1)) /\ b = SubSeq(ns, k + 1, k + (n - k))
      BY <1>2, <3>2
    <3>5. a \in Seq(S) /\ Len(a) = k - 1 /\ \A i \in 1..(k - 1) : a[i] = ns[0 + i]
      BY <3>3, <3>4, PartOf
    <3>6. b \in Seq(S) /\ Len(b) = n - k /\ \A i \in 1..(n - k) : b[i] = ns[k + i]
      BY <3>3, <3>4, PartOf
    <3>7. \A i \in 1..(k - 1) : a[i] = ns[i]
      BY <3>5
    <3>8. DOMAIN t = 1..(n - 1) /\ \A i \in 1..(n - 1) : t[i] = IF i < k THEN ns[i] ELSE ns[i + 1]
      BY <3>2, <3>3, <3>5, <3>6, <3>7, JoinedAroundPlace
    <3>9. x.notifications = t
      BY <1>4, <3>2
    <3> QED BY <3>8, <3>9
  <2>2. CASE j < k
    BY <1>2, <2>1, <2>2
  <2>3. CASE ~ (j < k)
    BY <1>2, <2>1, <2>3
  <2> QED BY <2>2, <2>3
<1>7. ns[k].notificationHash \notin Hashes(x.notifications)
  BY <1>5, <1>6 DEF Hashes
<1>8. ns[k].notificationHash \in Hashes(ns)
  BY <1>2 DEF Hashes
<1> QED BY <1>1, <1>7, <1>8

-----------------------------------------------------------------------------
(* The feed: it is canonical.                                               *)

LEMMA FeedIsDecoded ==
    ASSUME NEW f, FeedIs(f), LastBlock \in Nat,
           NEW p \in [DOMAIN f.notifications -> DOMAIN f.notifications],
           \A i, j \in DOMAIN f.notifications : p[i] = p[j] => i = j
    PROVE  decodePublicNotificationFeed(
             [f EXCEPT !.notifications = [i \in DOMAIN f.notifications |-> f.notifications[p[i]]]]) = f
<1>1. PICK ns, n : ns = f.notifications /\ n = Len(ns)
  OBVIOUS
<1>2. /\ n \in Nat /\ DOMAIN ns = 1..n /\ ns = [i \in 1..n |-> ns[i]] /\ Ordered(ns)
      /\ \A i \in 1..n : NoteIs(ns[i])
  BY <1>1 DEF FeedIs, NotesAre
<1>0. p \in [1..n -> 1..n] /\ \A i, j \in 1..n : p[i] = p[j] => i = j
  BY <1>1, <1>2
<1>3. PICK ps : ps = [i \in 1..n |-> ns[p[i]]]
  OBVIOUS
<1>4. p \in Injection(1..n, 1..n) /\ IsFiniteSet(1..n)
  BY <1>2, <1>0, FS_Interval DEF Injection, IsInjective
<1>5. p \in Surjection(1..n, 1..n)
  BY <1>4, FS_Injection
<1>6. Len(ps) = n /\ DOMAIN ps = 1..n /\ \A i \in 1..n : p[i] \in 1..n /\ ps[i] = ns[p[i]]
  <2>1. DOMAIN ps = 1..n /\ ps = [i \in 1..n |-> ps[i]]
    BY <1>3
  <2>2. Len(ps) = n
    BY <1>2, <2>1, LengthOf
  <2> QED BY <1>3, <1>0, <2>1, <2>2
<1>7. sortPublicNotifications(ps) = ns
  <2>1. Numbered(ns, n) /\ \A i \in 1..n : Keyed(ns[i])
    BY <1>1, <1>2, NotesAreKeyed DEF Numbered
  <2> QED BY <1>0, <1>2, <1>6, <2>1, SortIsCanonical
<1>8. Hashes(ps) = Hashes(ns)
  <2>1. \A i \in 1..n : \E j \in 1..n : ps[j] = ns[i]
    <3> SUFFICES ASSUME NEW i \in 1..n PROVE \E j \in 1..n : ps[j] = ns[i]
      OBVIOUS
    <3>1. PICK j \in 1..n : p[j] = i
      BY <1>5 DEF Surjection
    <3> QED BY <1>6, <3>1
  <2>2. Hashes(ps) = {ps[i].notificationHash : i \in 1..n} /\ Hashes(ns) = {ns[i].notificationHash : i \in 1..n}
    BY <1>2, <1>6 DEF Hashes
  <2>3. \A i \in 1..n : \E j \in 1..n : ps[i] = ns[j]
    BY <1>6
  <2> QED BY <2>1, <2>2, <2>3
<1>9. PICK w : w = [f EXCEPT !.notifications = ps]
  OBVIOUS
<1>10. f = [chainId |-> f.chainId, generatedAt |-> f.generatedAt, notifications |-> ns, feedHash |-> f.feedHash]
  BY <1>1 DEF FeedIs
<1>11. w = [chainId |-> f.chainId, generatedAt |-> f.generatedAt, notifications |-> ps, feedHash |-> f.feedHash]
  BY <1>9, <1>10
<1>12. w.chainId = f.chainId /\ w.generatedAt = f.generatedAt /\ w.notifications = ps /\ w.feedHash = f.feedHash
  BY <1>11
<1>13. validateFeedInput(w)
  <2>1. validateFeedInput(f)
    BY DEF FeedIs
  <2>2. assertUniqueNotifications(ps)
    <3>1. assertUniqueNotifications(ns)
      BY <1>1, <2>1 DEF validateFeedInput
    <3>2. \A i, j \in 1..n : i # j => p[i] # p[j]
      BY <1>0
    <3> SUFFICES ASSUME NEW i \in 1..n, NEW j \in 1..n, i # j
                 PROVE  ps[i].eventId # ps[j].eventId /\ ps[i].notificationHash # ps[j].notificationHash
      BY <1>6 DEF assertUniqueNotifications
    <3>3. p[i] \in 1..n /\ p[j] \in 1..n /\ p[i] # p[j] /\ ps[i] = ns[p[i]] /\ ps[j] = ns[p[j]]
      BY <1>6, <3>2
    <3> QED BY <1>2, <3>1, <3>3 DEF assertUniqueNotifications
  <2>3. Len(ps) <= MaxNotifications /\ f.chainId # 0
    BY <1>1, <1>6, <2>1 DEF validateFeedInput
  <2>4. ASSUME NEW i \in 1..n
        PROVE  Decodes(ps[i]) /\ ps[i].chainId = f.chainId /\ ps[i].observedAt <= f.generatedAt
    <3>1. \A j \in 1..n : Decodes(ns[j]) /\ ns[j].chainId = f.chainId /\ ns[j].observedAt <= f.generatedAt
      BY <1>1, <1>2, <2>1 DEF validateFeedInput
    <3> QED BY <1>6, <3>1
  <2> QED BY <1>6, <1>12, <2>2, <2>3, <2>4 DEF validateFeedInput
<1>14. w.feedHash = publicNotificationFeedHash(w)
  BY <1>1, <1>8, <1>12 DEF publicNotificationFeedHash, FeedIs
<1>15. decodePublicNotificationFeed(w) = [w EXCEPT !.notifications = sortPublicNotifications(@)]
  BY <1>13, <1>14 DEF decodePublicNotificationFeed
<1>16. [w EXCEPT !.notifications = sortPublicNotifications(@)] = f
  BY <1>7, <1>10, <1>11
<1> QED BY <1>1, <1>2, <1>3, <1>9, <1>15, <1>16

LEMMA AlteredFeedIsRefused ==
    ASSUME NEW f, FeedIs(f), LastBlock \in Nat, NEW w \in Altered(f)
    PROVE  decodePublicNotificationFeed(w) = Refused
<1>1. /\ f = [chainId |-> f.chainId, generatedAt |-> f.generatedAt,
              notifications |-> f.notifications, feedHash |-> f.feedHash]
      /\ f.chainId \in Int /\ f.generatedAt \in Int
      /\ validateFeedInput(f) /\ f.feedHash = publicNotificationFeedHash(f)
      /\ NotesAre(f.notifications)
  BY DEF FeedIs
<1>2. assertUniqueNotifications(f.notifications) /\ \A i \in DOMAIN f.notifications : Decodes(f.notifications[i])
  BY <1>1 DEF validateFeedInput
<1>3. \/ w = [f EXCEPT !.generatedAt = @ + 1] \/ w = [f EXCEPT !.chainId = @ + 1]
      \/ w \in Shortened(f) \/ w \in Relabelled(f)
  BY DEF Altered
<1>4. "notifications" \in DOMAIN f
  BY <1>1
<1>5. CASE w.feedHash = f.feedHash /\ publicNotificationFeedHash(w) # publicNotificationFeedHash(f)
  BY <1>1, <1>5 DEF decodePublicNotificationFeed
<1>6. CASE w = [f EXCEPT !.generatedAt = @ + 1] \/ w = [f EXCEPT !.chainId = @ + 1]
  <2>1. w.feedHash = f.feedHash /\ (w.generatedAt # f.generatedAt \/ w.chainId # f.chainId)
    BY <1>1, <1>6
  <2>2. publicNotificationFeedHash(w) # publicNotificationFeedHash(f)
    BY <2>1 DEF publicNotificationFeedHash
  <2> QED BY <1>5, <2>1, <2>2
<1>7. CASE w \in Shortened(f)
  <2>1. Hashes(w.notifications) # Hashes(f.notifications)
    BY <1>1, <1>2, <1>4, <1>7, ShortenedIsOther
  <2>2. w.feedHash = f.feedHash
    BY <1>1, <1>7 DEF Shortened
  <2>3. publicNotificationFeedHash(w) # publicNotificationFeedHash(f)
    BY <2>1 DEF publicNotificationFeedHash
  <2> QED BY <1>5, <2>2, <2>3
<1>8. CASE w \in Relabelled(f)
  <2>1. \E k \in DOMAIN w.notifications : ~ Decodes(w.notifications[k])
    BY <1>1, <1>2, <1>4, <1>8, RelabelledIsWrong
  <2>2. ~ validateFeedInput(w)
    BY <2>1 DEF validateFeedInput
  <2> QED BY <2>2 DEF decodePublicNotificationFeed
<1> QED BY <1>3, <1>6, <1>7, <1>8

-----------------------------------------------------------------------------
(* The feed: exports.                                                       *)

ExportIs(e) ==
    /\ e = [chainId |-> e.chainId, generatedAt |-> e.generatedAt, notifications |-> e.notifications,
            feedHash |-> e.feedHash, exportedAt |-> e.exportedAt, status |-> e.status, reason |-> e.reason,
            exportHash |-> e.exportHash]
    /\ e.chainId \in Int /\ e.generatedAt \in Int /\ e.exportedAt \in Int
    /\ e.status \in {"AVAILABLE", "UNAVAILABLE"} /\ e.reason # "FEED_UNFINALIZED"
    /\ validateExportBody(e) /\ e.exportHash = publicNotificationExportHash(e)
    /\ NotesAre(e.notifications) /\ assertUniqueNotifications(e.notifications)
    /\ \A i \in DOMAIN e.notifications : Decodes(e.notifications[i])

LEMMA ExportSealed ==
    ASSUME NEW chain, NEW time, NEW ns, NEW feedHash, NEW at, NEW status, NEW reason, NEW hash
    PROVE  With([chainId |-> chain, generatedAt |-> time, notifications |-> ns, feedHash |-> feedHash,
                 exportedAt |-> at, status |-> status, reason |-> reason], "exportHash", hash)
             = [chainId |-> chain, generatedAt |-> time, notifications |-> ns, feedHash |-> feedHash,
                exportedAt |-> at, status |-> status, reason |-> reason, exportHash |-> hash]
BY DEF With

LEMMA ExportsAreSealed ==
    ASSUME NEW chain \in Int, NEW time \in Int, NEW ns, NEW feedHash, NEW at \in Int, NEW status, NEW reason,
           NotesAre(ns), assertUniqueNotifications(ns), \A i \in DOMAIN ns : Decodes(ns[i]),
           status \in {"AVAILABLE", "UNAVAILABLE"}, reason # "FEED_UNFINALIZED", LastBlock \in Nat,
           NEW e, e = SealedExport([chainId |-> chain, generatedAt |-> time, notifications |-> ns,
                                    feedHash |-> feedHash, exportedAt |-> at, status |-> status,
                                    reason |-> reason])
    PROVE  e = Refused \/ (ExportIs(e) /\ e.notifications = ns /\ e.status = status)
<1> DEFINE body == [chainId |-> chain, generatedAt |-> time, notifications |-> ns, feedHash |-> feedHash,
                    exportedAt |-> at, status |-> status, reason |-> reason]
           sealed == [chainId |-> chain, generatedAt |-> time, notifications |-> ns, feedHash |-> feedHash,
                      exportedAt |-> at, status |-> status, reason |-> reason,
                      exportHash |-> publicNotificationExportHash(body)]
<1>1. e = decodePublicNotificationExport(sealed)
  <2>1. With(body, "exportHash", publicNotificationExportHash(body)) = sealed
    BY ExportSealed
  <2> QED BY <2>1 DEF SealedExport
<1>2. publicNotificationExportHash(sealed) = publicNotificationExportHash(body)
  <2>1. \A f \in {"chainId", "generatedAt", "feedHash", "exportedAt", "status", "reason"} : sealed[f] = body[f]
    OBVIOUS
  <2>2. sealed.notifications = body.notifications
    OBVIOUS
  <2> HIDE DEF sealed, body
  <2> QED BY <2>1, <2>2 DEF publicNotificationExportHash
<1>3. sortPublicNotifications(ns) = ns
  BY SortedToItself
<1>4. [sealed EXCEPT !.notifications = sortPublicNotifications(@)] = sealed
  BY <1>3
<1>5. e = Refused \/ (e = sealed /\ validateExportBody(sealed))
  <2> HIDE DEF sealed
  <2> QED BY <1>1, <1>4 DEF decodePublicNotificationExport
<1>6. /\ sealed.chainId = chain /\ sealed.generatedAt = time /\ sealed.notifications = ns
      /\ sealed.feedHash = feedHash /\ sealed.exportedAt = at /\ sealed.status = status
      /\ sealed.reason = reason /\ sealed.exportHash = publicNotificationExportHash(sealed)
  BY <1>2
<1>7. ASSUME validateExportBody(sealed) PROVE ExportIs(sealed)
  BY <1>6, <1>7 DEF ExportIs
<1> QED BY <1>5, <1>6, <1>7

LEMMA ExportIsDecoded ==
    ASSUME NEW e, ExportIs(e), LastBlock \in Nat
    PROVE  decodePublicNotificationExport(e) = e
<1>1. sortPublicNotifications(e.notifications) = e.notifications
  BY SortedToItself DEF ExportIs
<1>2. [e EXCEPT !.notifications = sortPublicNotifications(@)] = e
  <2>1. PICK ns : ns = e.notifications
    OBVIOUS
  <2>2. e = [chainId |-> e.chainId, generatedAt |-> e.generatedAt, notifications |-> ns,
             feedHash |-> e.feedHash, exportedAt |-> e.exportedAt, status |-> e.status, reason |-> e.reason,
             exportHash |-> e.exportHash]
    BY <2>1 DEF ExportIs
  <2> QED BY <1>1, <2>1, <2>2
<1> QED BY <1>2 DEF decodePublicNotificationExport, ExportIs

LEMMA AlteredExportIsRefused ==
    ASSUME NEW e, ExportIs(e), LastBlock \in Nat, NEW w \in AlteredExport(e)
    PROVE  decodePublicNotificationExport(w) = Refused
<1>1. /\ e = [chainId |-> e.chainId, generatedAt |-> e.generatedAt, notifications |-> e.notifications,
              feedHash |-> e.feedHash, exportedAt |-> e.exportedAt, status |-> e.status, reason |-> e.reason,
              exportHash |-> e.exportHash]
      /\ e.chainId \in Int /\ e.generatedAt \in Int /\ e.exportedAt \in Int
      /\ e.status \in {"AVAILABLE", "UNAVAILABLE"} /\ e.reason # "FEED_UNFINALIZED"
      /\ e.exportHash = publicNotificationExportHash(e) /\ NotesAre(e.notifications)
      /\ assertUniqueNotifications(e.notifications)
      /\ \A i \in DOMAIN e.notifications : Decodes(e.notifications[i])
  BY DEF ExportIs
<1>2. \/ w = [e EXCEPT !.exportedAt = @ + 1] \/ w = [e EXCEPT !.reason = "FEED_UNFINALIZED"]
      \/ w = [e EXCEPT !.status = IF @ = "AVAILABLE" THEN "UNAVAILABLE" ELSE "AVAILABLE"]
      \/ w = [e EXCEPT !.generatedAt = @ + 1] \/ w = [e EXCEPT !.chainId = @ + 1]
      \/ w \in Shortened(e) \/ w \in Relabelled(e)
  BY DEF AlteredExport, Altered
<1>3. "notifications" \in DOMAIN e
  BY <1>1
<1>4. ASSUME w.exportHash = e.exportHash, publicNotificationExportHash(w) # publicNotificationExportHash(e)
      PROVE  decodePublicNotificationExport(w) = Refused
  BY <1>1, <1>4 DEF decodePublicNotificationExport
<1>5. ASSUME NEW f \in {"chainId", "generatedAt", "feedHash", "exportedAt", "status", "reason"}, w[f] # e[f]
      PROVE  publicNotificationExportHash(w) # publicNotificationExportHash(e)
  <2>1. publicNotificationExportHash(w).of[f] = w[f] /\ publicNotificationExportHash(e).of[f] = e[f]
    BY DEF publicNotificationExportHash
  <2> QED BY <1>5, <2>1
<1>6. CASE w = [e EXCEPT !.exportedAt = @ + 1]
  <2>1. w.exportHash = e.exportHash /\ w.exportedAt # e.exportedAt
    BY <1>1, <1>6
  <2> QED BY <1>4, <1>5, <2>1
<1>7. CASE w = [e EXCEPT !.reason = "FEED_UNFINALIZED"]
  <2>1. w.exportHash = e.exportHash /\ w.reason # e.reason
    BY <1>1, <1>7
  <2> QED BY <1>4, <1>5, <2>1
<1>8. CASE w = [e EXCEPT !.status = IF @ = "AVAILABLE" THEN "UNAVAILABLE" ELSE "AVAILABLE"]
  <2>1. w.exportHash = e.exportHash /\ w.status # e.status
    BY <1>1, <1>8
  <2> QED BY <1>4, <1>5, <2>1
<1>9. CASE w = [e EXCEPT !.generatedAt = @ + 1]
  <2>1. w.exportHash = e.exportHash /\ w.generatedAt # e.generatedAt
    BY <1>1, <1>9
  <2> QED BY <1>4, <1>5, <2>1
<1>10. CASE w = [e EXCEPT !.chainId = @ + 1]
  <2>1. w.exportHash = e.exportHash /\ w.chainId # e.chainId
    BY <1>1, <1>10
  <2> QED BY <1>4, <1>5, <2>1
<1>11. CASE w \in Shortened(e)
  <2>1. Hashes(w.notifications) # Hashes(e.notifications)
    BY <1>1, <1>3, <1>11, ShortenedIsOther
  <2>2. w.exportHash = e.exportHash
    BY <1>1, <1>11 DEF Shortened
  <2>3. publicNotificationExportHash(w).hashes # publicNotificationExportHash(e).hashes
    BY <2>1 DEF publicNotificationExportHash
  <2> QED BY <1>4, <2>2, <2>3
<1>12. CASE w \in Relabelled(e)
  <2>1. RestIs(w, e) /\ \E k \in DOMAIN w.notifications : ~ Decodes(w.notifications[k])
    BY <1>1, <1>3, <1>12, RelabelledIsWrong
  <2>2. w.status = e.status
    BY <1>1, <2>1 DEF RestIs
  <2>3. w.notifications # <<>>
    BY <2>1
  <2>4. ~ validateFeedInput([chainId |-> w.chainId, generatedAt |-> w.generatedAt,
                             notifications |-> w.notifications, feedHash |-> w.feedHash])
    BY <2>1 DEF validateFeedInput
  <2>5. ~ validateExportBody(w)
    BY <1>1, <2>2, <2>3, <2>4 DEF validateExportBody, decodePublicNotificationFeed
  <2> QED BY <2>5 DEF decodePublicNotificationExport
<1> QED BY <1>2, <1>6, <1>7, <1>8, <1>9, <1>10, <1>11, <1>12

-----------------------------------------------------------------------------
(* The feed: its invariant.                                                 *)

FeedInv ==
    /\ IsSequence(progress) /\ progress # <<>>
    /\ IsSequence(heard) /\ \A i \in DOMAIN heard : NoteIs(heard[i])
    /\ feed # Refused => FeedIs(feed)
    /\ exported # Refused =>
         /\ ExportIs(exported)
         /\ exported.status = "AVAILABLE" => feed # Refused /\ exported.notifications = feed.notifications

LEMMA BlocksAre == ASSUME IsSequence(progress) PROVE LastBlock \in Nat /\ DOMAIN progress = 1..LastBlock
BY AppendKeeps DEF LastBlock

\* Blocks that have come stay, and what was said of them.
LEMMA NotesStay ==
    ASSUME IsSequence(progress), progress' = progress \/ \E x : progress' = Append(progress, x)
    PROVE  /\ \A n : NoteIs(n) => NoteIs(n)'
           /\ \A ns : NotesAre(ns) => NotesAre(ns)'
           /\ \A f : FeedIs(f) => FeedIs(f)'
           /\ \A e : ExportIs(e) => ExportIs(e)'
<1>1. LastBlock \in Nat
  BY BlocksAre
<1>2. LastBlock' \in Nat /\ LastBlock <= LastBlock' /\ \A b \in 1..LastBlock : progress'[b] = progress[b]
  BY <1>1, AppendKeeps DEF LastBlock
<1>3. ASSUME NEW n, NoteIs(n) PROVE NoteIs(n)'
  <2>1. n.blockNumber \in 1..LastBlock /\ n.blockNumber \in 1..LastBlock'
    BY <1>1, <1>2, <1>3 DEF NoteIs
  <2>2. progress'[n.blockNumber] = progress[n.blockNumber]
    BY <1>2, <2>1
  <2>3. KindAt(n.reference, n.blockNumber)' = KindAt(n.reference, n.blockNumber)
    BY <2>2 DEF KindAt
  <2> QED BY <1>3, <2>1, <2>3 DEF NoteIs
<1>4. \A ns : NotesAre(ns) => NotesAre(ns)'
  BY <1>3 DEF NotesAre
<1>5. \A f : FeedIs(f) => FeedIs(f)'
  BY <1>4 DEF FeedIs
<1>6. \A e : ExportIs(e) => ExportIs(e)'
  BY <1>4 DEF ExportIs
<1> QED BY <1>3, <1>4, <1>5, <1>6

LEMMA FeedInvInit == FeedInit => FeedInv
<1> SUFFICES ASSUME FeedInit PROVE FeedInv
  OBVIOUS
<1>1. heard = <<>> /\ feed = Refused /\ exported = Refused
  BY DEF FeedInit
<1>2. IsSequence(heard) /\ DOMAIN heard = {}
  BY <1>1 DEF IsSequence
<1>3. IsSequence(progress) /\ progress # <<>>
  <2>1. PICK x : progress = <<x>>
    BY DEF FeedInit
  <2> QED BY <2>1 DEF IsSequence
<1> QED BY <1>1, <1>2, <1>3 DEF FeedInv

LEMMA FeedDecodes ==
    ASSUME NEW f, FeedIs(f), LastBlock \in Nat
    PROVE  decodePublicNotificationFeed(f) = f
<1>1. sortPublicNotifications(f.notifications) = f.notifications
  BY SortedToItself DEF FeedIs
<1>2. [f EXCEPT !.notifications = sortPublicNotifications(@)] = f
  <2>1. PICK ns : ns = f.notifications
    OBVIOUS
  <2>2. f = [chainId |-> f.chainId, generatedAt |-> f.generatedAt, notifications |-> ns, feedHash |-> f.feedHash]
    BY <2>1 DEF FeedIs
  <2> QED BY <1>1, <2>1, <2>2
<1> QED BY <1>2 DEF decodePublicNotificationFeed, FeedIs

LEMMA FeedInvNext == FeedInv /\ [FeedNext]_feedVars => FeedInv'
<1> SUFFICES ASSUME FeedInv, [FeedNext]_feedVars PROVE FeedInv'
  OBVIOUS
<1>1. LastBlock \in Nat /\ LastBlock # 0 /\ DOMAIN progress = 1..LastBlock
  <2>1. LastBlock # 0
    BY EmptySeq DEF FeedInv, IsSequence, LastBlock
  <2> QED BY <2>1, BlocksAre DEF FeedInv
<1>2. IsSequence(progress) /\ IsSequence(heard)
  BY DEF FeedInv
<1>3. CASE AddBlock
  <2>1. (\E x : progress' = Append(progress, x)) /\ UNCHANGED <<heard, feed, exported>>
    BY <1>3 DEF AddBlock
  <2>2. IsSequence(progress') /\ progress' # <<>>
    BY <1>2, <2>1, AppendKeeps
  <2> QED BY <1>2, <2>1, <2>2, NotesStay DEF FeedInv, IsSequence
<1>4. CASE Publish
  <2>1. /\ feed' = buildPublicNotificationFeed(ChainId, TimeOf(LastBlock), heard)
        /\ UNCHANGED <<progress, heard, exported>> /\ feed = Refused
    BY <1>4 DEF Publish
  <2>2. Numbered(heard, Len(heard)) /\ \A i \in 1..Len(heard) : NoteIs(heard[i])
    BY <1>2, AppendKeeps DEF FeedInv, Numbered
  <2>3. ChainId \in Int /\ TimeOf(LastBlock) \in Int
    BY <1>1, TimesRise DEF ChainId
  <2>4. feed' = Refused \/ FeedIs(feed')
    BY <1>1, <2>1, <2>2, <2>3, FeedsAreBuilt
  <2> QED BY <1>2, <2>1, <2>4, NotesStay DEF FeedInv, IsSequence
<1>5. ASSUME NEW r \in 1..Requests, NEW block \in 1..LastBlock, Hear(r, block) PROVE FeedInv'
  <2>1. PICK n : n = notificationStateFromRequest(r, block).notifications[1]
    OBVIOUS
  <2>2. NoteIs(n)
    BY <1>1, <2>1, HeardIsNote
  <2>3. heard' = Append(heard, n) /\ UNCHANGED <<progress, feed, exported>>
    BY <1>5, <2>1 DEF Hear
  <2>4. IsSequence(heard') /\ \A i \in DOMAIN heard' : NoteIs(heard'[i])
    <3>1. /\ IsSequence(heard') /\ DOMAIN heard = 1..Len(heard) /\ DOMAIN heard' = 1..Len(heard) + 1
          /\ \A i \in 1..Len(heard) : heard'[i] = heard[i]
          /\ heard'[Len(heard) + 1] = n /\ Len(heard) \in Nat
      BY <1>2, <2>3, AppendKeeps
    <3> QED BY <2>2, <3>1 DEF FeedInv
  <2> QED BY <1>2, <2>3, <2>4, NotesStay DEF FeedInv, IsSequence
<1>6. ASSUME NEW reason \in {"RPC_UNAVAILABLE", "FEED_INVALID"}, Export(reason) PROVE FeedInv'
  <2>1. TimeOf(LastBlock) \in Int
    BY <1>1, TimesRise
  <2>2. UNCHANGED <<progress, heard, feed>>
    BY <1>6 DEF Export
  <2>3. exported' # Refused => /\ ExportIs(exported')
                               /\ exported'.status = "AVAILABLE" =>
                                    feed # Refused /\ exported'.notifications = feed.notifications
    <3>1. CASE feed = Refused
      <4>1. exported' = SealedExport([chainId |-> 0, generatedAt |-> 0, notifications |-> <<>>, feedHash |-> NoHash,
                                      exportedAt |-> TimeOf(LastBlock), status |-> "UNAVAILABLE", reason |-> reason])
        BY <1>6, <3>1 DEF Export, buildUnavailableNotificationExport
      <4>2. NotesAre(<<>>) /\ assertUniqueNotifications(<<>>) /\ DOMAIN <<>> = {}
        BY DEF NotesAre, Ordered, assertUniqueNotifications
      <4>3. \A i \in DOMAIN <<>> : Decodes(<<>>[i])
        BY <4>2
      <4>4. PICK e, at, ns : e = exported' /\ at = TimeOf(LastBlock) /\ ns = <<>>
        OBVIOUS
      <4>5. /\ NotesAre(ns) /\ assertUniqueNotifications(ns) /\ \A i \in DOMAIN ns : Decodes(ns[i])
            /\ at \in Int /\ 0 \in Int /\ LastBlock \in Nat
            /\ "UNAVAILABLE" \in {"AVAILABLE", "UNAVAILABLE"} /\ reason # "FEED_UNFINALIZED"
            /\ "UNAVAILABLE" # "AVAILABLE"
        BY <1>1, <2>1, <4>2, <4>3, <4>4
      <4>6. e = SealedExport([chainId |-> 0, generatedAt |-> 0, notifications |-> ns, feedHash |-> NoHash,
                              exportedAt |-> at, status |-> "UNAVAILABLE", reason |-> reason])
        BY <4>1, <4>4
      <4>7. e = Refused \/ (ExportIs(e) /\ e.notifications = ns /\ e.status = "UNAVAILABLE")
        BY ONLY <4>5, <4>6, ExportsAreSealed
      <4> QED BY <4>4, <4>5, <4>7
    <3>2. CASE feed # Refused
      <4>1. FeedIs(feed) /\ decodePublicNotificationFeed(feed) = feed
        BY <1>1, <3>2, FeedDecodes DEF FeedInv
      <4>2. \/ exported' = Refused
            \/ exported' = SealedExport([chainId |-> feed.chainId, generatedAt |-> feed.generatedAt,
                       notifications |-> feed.notifications, feedHash |-> feed.feedHash,
                       exportedAt |-> TimeOf(LastBlock), status |-> "AVAILABLE", reason |-> "null"])
        BY <1>6, <3>2, <4>1 DEF Export, buildPublicNotificationExport
      <4>3. /\ feed.chainId \in Int /\ feed.generatedAt \in Int /\ NotesAre(feed.notifications)
            /\ assertUniqueNotifications(feed.notifications)
            /\ \A i \in DOMAIN feed.notifications : Decodes(feed.notifications[i])
        BY <4>1 DEF FeedIs, validateFeedInput
      <4>4. PICK e, at, ns, chain, time, hash :
              /\ e = exported' /\ at = TimeOf(LastBlock) /\ ns = feed.notifications
              /\ chain = feed.chainId /\ time = feed.generatedAt /\ hash = feed.feedHash
        OBVIOUS
      <4>5. /\ NotesAre(ns) /\ assertUniqueNotifications(ns) /\ \A i \in DOMAIN ns : Decodes(ns[i])
            /\ chain \in Int /\ time \in Int /\ at \in Int /\ LastBlock \in Nat
            /\ "AVAILABLE" \in {"AVAILABLE", "UNAVAILABLE"} /\ "null" # "FEED_UNFINALIZED"
        BY <1>1, <2>1, <4>3, <4>4
      <4>6. \/ e = Refused
            \/ e = SealedExport([chainId |-> chain, generatedAt |-> time, notifications |-> ns,
                                 feedHash |-> hash, exportedAt |-> at, status |-> "AVAILABLE",
                                 reason |-> "null"])
        BY <4>2, <4>4
      <4>7. e = Refused \/ (ExportIs(e) /\ e.notifications = ns)
        BY ONLY <4>5, <4>6, ExportsAreSealed
      <4> QED BY <3>2, <4>4, <4>7
    <3> QED BY <3>1, <3>2
  <2> QED BY <1>2, <2>2, <2>3, NotesStay DEF FeedInv, IsSequence
<1>7. CASE UNCHANGED feedVars
  BY <1>2, <1>7, NotesStay DEF FeedInv, IsSequence, feedVars
<1> QED BY <1>3, <1>4, <1>5, <1>6, <1>7 DEF FeedNext

LEMMA FeedInvImplies == FeedInv => FeedIsCanonical
<1> SUFFICES ASSUME FeedInv PROVE FeedIsCanonical
  OBVIOUS
<1>1. LastBlock \in Nat
  BY BlocksAre DEF FeedInv
<1>2. ASSUME feed # Refused
      PROVE  LET ns == feed.notifications IN
         /\ \A p \in {q \in [DOMAIN ns -> DOMAIN ns] : \A i, j \in DOMAIN ns : q[i] = q[j] => i = j} :
               decodePublicNotificationFeed([feed EXCEPT !.notifications = [i \in DOMAIN ns |-> ns[p[i]]]]) = feed
         /\ \A i, j \in DOMAIN ns :
               ns[i].reference = ns[j].reference /\ i < j => ns[i].blockNumber > ns[j].blockNumber
         /\ \A w \in Altered(feed) : decodePublicNotificationFeed(w) = Refused
  <2>1. FeedIs(feed)
    BY <1>2 DEF FeedInv
  <2>2. \A w \in Altered(feed) : decodePublicNotificationFeed(w) = Refused
    BY <1>1, <2>1, AlteredFeedIsRefused
  <2>3. ASSUME NEW i \in DOMAIN feed.notifications, NEW j \in DOMAIN feed.notifications,
               feed.notifications[i].reference = feed.notifications[j].reference, i < j
        PROVE  feed.notifications[i].blockNumber > feed.notifications[j].blockNumber
    <3>1. NoteIs(feed.notifications[i]) /\ NoteIs(feed.notifications[j])
          /\ Precedes(feed.notifications[i], feed.notifications[j])
      BY <2>1, <2>3 DEF FeedIs, NotesAre, Ordered
    <3> QED BY <1>1, <2>3, <3>1, LaterComesFirst
  <2>4. ASSUME NEW p \in {q \in [DOMAIN feed.notifications -> DOMAIN feed.notifications] :
                             \A i, j \in DOMAIN feed.notifications : q[i] = q[j] => i = j}
        PROVE  decodePublicNotificationFeed([feed EXCEPT !.notifications =
                   [i \in DOMAIN feed.notifications |-> feed.notifications[p[i]]]]) = feed
    <3>1. /\ p \in [DOMAIN feed.notifications -> DOMAIN feed.notifications]
          /\ \A i, j \in DOMAIN feed.notifications : p[i] = p[j] => i = j
      OBVIOUS
    <3> QED BY <1>1, <2>1, <3>1, FeedIsDecoded
  <2> QED BY <2>2, <2>3, <2>4
<1>3. ASSUME exported # Refused
      PROVE  /\ decodePublicNotificationExport(exported) = exported
             /\ \A w \in AlteredExport(exported) : decodePublicNotificationExport(w) = Refused
             /\ exported.status = "AVAILABLE" => exported.notifications = feed.notifications
  <2>1. ExportIs(exported) /\ (exported.status = "AVAILABLE" => exported.notifications = feed.notifications)
    BY <1>3 DEF FeedInv
  <2> QED BY <1>1, <2>1, ExportIsDecoded, AlteredExportIsRefused
<1> QED BY <1>2, <1>3 DEF FeedIsCanonical

\* Whatever a collector hears, in whatever order and however often, what it
\* publishes and exports says the same in any order, has the latest of a request
\* first, and is refused once anything in it is altered
\* (notifications.ts buildPublicNotificationFeed, decodePublicNotificationFeed,
\* buildPublicNotificationExport, decodePublicNotificationExport).
THEOREM FeedsAreCanonical == FeedSpec => []FeedIsCanonical
BY FeedInvInit, FeedInvNext, FeedInvImplies, PTL DEF FeedSpec
=============================================================================
