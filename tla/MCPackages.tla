------------------------------ MODULE MCPackages ------------------------------
(***************************************************************************)
(* The packages, each in a scene of its own; a behaviour stays in its      *)
(* scene.  The jobs' calls and the relay's callers, agents and keys, and   *)
(* so on, share model values, which keeps the symmetry group small: none   *)
(* of them is told from another by a constant.                             *)
(* "evaluator": the spend rules, with days of three seconds and small      *)
(* policies.  "math": the arithmetic under them.  "relay": two callers, two *)
(* snapshots of one request.  "funding": two operations with a payment     *)
(* each and a proof that lies.                                             *)
(* "redemption": two intents for one payee, two agents and two settlements *)
(* at a time.                                                              *)
(***************************************************************************)
EXTENDS PolicyEvaluator, PolicyMathAgreement, Relay, RedemptionJob, TLC

CONSTANTS owner, stranger, shop, banned, token, p0, feedId, c1, c2, x1, x2,
          a1, a2, k1, k2, d1, d2, x, y, o1, o2

\* Of the evaluator's instances: what they are worth fits, and but for the
\* prices that drift a checkpoint names one snapshot.
ASSUME InstanceAssumption == WorthsFit /\ (SnapshotsAreNamed \/ Payments = {})

VARIABLE scene

Open ==
    [commitment |-> p0, startAt |-> 1, endAt |-> 0, interval |-> 0, grace |-> 0,
     cooldown |-> 0, maxOccurrences |-> 0, maxPerAction |-> 0, dailyCap |-> 0,
     rollingCap |-> 0, rollingWindow |-> 0, asset |-> token, owner |-> owner,
     allowRequesters |-> {}, allowTargets |-> {}, denyTargets |-> {banned},
     allowActionTypes |-> {}, requireFTSO |-> FALSE, ftsoFeedId |-> feedId,
     maxPriceAge |-> 2, requireFDC |-> FALSE, fdcMin |-> 1, fdcMax |-> 2,
     maxFDCAge |-> 2]

Daily == [Open EXCEPT !.dailyCap = 3, !.allowRequesters = {stranger}]

Rolling == [Open EXCEPT !.rollingCap = 3, !.rollingWindow = 2, !.cooldown = 1]
BothCaps == [Open EXCEPT !.dailyCap = 4, !.rollingCap = 3, !.rollingWindow = 4,
                         !.maxPerAction = 2, !.endAt = 5, !.cooldown = 1]
Priced == [Daily EXCEPT !.requireFTSO = TRUE, !.allowTargets = {shop}]

Scheduled == [Open EXCEPT !.interval = 3, !.grace = 1, !.allowActionTypes = {"FTESTXRP_TRANSFER"}]
Counted == [Open EXCEPT !.cooldown = 2, !.maxOccurrences = 2]
Triggered == [Open EXCEPT !.requireFDC = TRUE]

CapPolicies == {Daily, Rolling, BothCaps, Priced}
TermPolicies ==
    {Scheduled, Counted, [Scheduled EXCEPT !.endAt = 5], Open,
     Triggered, [Triggered EXCEPT !.interval = 3, !.grace = 2]}
MCPolicies == CapPolicies \cup TermPolicies
PricedPolicies == {Priced}

\* Caps are tried with amounts that add up to them in different ways, terms
\* with everybody asking and over more days.
MCAmounts == [p \in Policies |-> IF p \in CapPolicies THEN {1, 2} ELSE {1}]
MCParties ==
    [p \in Policies |->
       IF p \in CapPolicies THEN {<<owner, shop>>}
                            ELSE {<<owner, shop>>, <<stranger, shop>>, <<owner, banned>>}]
MCHorizon ==
    [p \in Policies |-> IF p.requireFTSO THEN 3
                       ELSE IF p \in CapPolicies \cup {Triggered} THEN 4 ELSE 5]

Price(checkpoint, value, timestamp) ==
    [feedId |-> feedId, value |-> value, scale |-> 2, timestamp |-> timestamp,
     checkpoint |-> checkpoint]

TwoFeeds == {Price(c1, 3, 1), Price(c2, 1, 3)}
DriftingFeeds == {Price(c1, 3, 1), Price(c1, 1, 1)}

Paid(checkpoint, id, timestamp) ==
    [checkpoint |-> checkpoint, requestId |-> id, amount |-> 1, timestamp |-> timestamp,
     consumed |-> TRUE, pending |-> TRUE]

TwoPayments == {Paid(x1, 1, 1), Paid(x2, 2, 2)}
NoPayments == {}

MCSymmetry == Permutations({a1, a2}) \cup Permutations({k1, k2}) \cup Permutations({d1, d2})

MCPaymentsFor == (o1 :> {x}) @@ (o2 :> {y})
MCAttestedProof == {[payment |-> x, commitment |-> "cx"], [payment |-> y, commitment |-> "cy"]}
MCFundingProof == MCAttestedProof \cup {[payment |-> x, commitment |-> "lie"]}

MCIntent == {[jobId |-> 1, payTo |-> x, amount |-> 2], [jobId |-> 2, payTo |-> x, amount |-> 1]}

ChainAlone == input.of = "nothing" /\ Next /\ UNCHANGED input

\* Any one policy will do for those that know none.
ChainUntouched == policy = Counted /\ now = 1 /\ chain = <<>> /\ results = {}

MathAlone == ChainUntouched /\ MathNext /\ UNCHANGED vars

FreshStart == Init /\ MathInit

PackagesInit ==
    /\ FreshStart /\ RelayInit /\ JobsInit
    /\ \/ scene = "evaluator"
       \/ scene \in {"math", "relay", "funding", "redemption"} /\ ChainUntouched

EvaluatorScene ==
    scene = "evaluator" /\ ChainAlone /\ UNCHANGED <<relayVars, fundingVars, redemptionVars>>

MathScene == scene = "math" /\ MathAlone /\ UNCHANGED <<relayVars, fundingVars, redemptionVars>>

RelayScene ==
    scene = "relay" /\ RelayNext /\ UNCHANGED <<vars, input, fundingVars, redemptionVars>>

FundingScene ==
    scene = "funding" /\ FundingNext /\ UNCHANGED <<vars, input, relayVars, redemptionVars>>

\* Bound: of the calls to redeem and to settle, three.
ThreeCalls ==
    Cardinality({c \in Request : requests[c] # Uncalled})
        + Cardinality({c \in Accept : accepts[c] # Uncalled}) <= 3

RedemptionScene ==
    /\ scene = "redemption" /\ RedemptionNext /\ ThreeCalls'
    /\ UNCHANGED <<vars, input, relayVars, fundingVars>>

PackagesNext ==
    /\ UNCHANGED scene
    /\ EvaluatorScene \/ MathScene \/ RelayScene \/ FundingScene \/ RedemptionScene

packagesVars == <<vars, input, relayVars, fundingVars, redemptionVars, scene>>

PackagesSpec == PackagesInit /\ [][PackagesNext]_packagesVars
=============================================================================
