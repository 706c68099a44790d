-------------------------------- MODULE MCLive --------------------------------
(***************************************************************************)
(* What is done on the live network with attested payments, and the other  *)
(* scripts that end in evidence, each in a scene of its own; a behaviour   *)
(* stays in its scene.                                                     *)
(* "preparation": one call of the FDC adapters, two transactions with the  *)
(* same memo, one of them failed, and two relays.  "trigger": the live run *)
(* over the same.  "lifecycle": the runs of each of the three profiles.    *)
(* "triggers": two verifications of transactions and JSON responses.       *)
(* "feed": up to three notifications of two requests, in any order.         *)
(* "monitor": four samples, two in flight.  "fronts": four requests to one  *)
(* of the two relays.  "mint": one payment, two transactions that may mint  *)
(* it, one change of the settings.                                          *)
(***************************************************************************)
EXTENDS TriggerRun, LifecycleRun, InputTriggers, PublicFeed, Monitor, RelayFronts, DirectMint

CONSTANTS t1, t2, r1, r2, am1, am2

VARIABLE scene

MCSymmetry == Permutations({r1, r2}) \cup Permutations({am1, am2})

MCPaymentOf ==
    (t1 :> [ledger |-> 1, memo |-> 1, success |-> TRUE]) @@ (t2 :> [ledger |-> 2, memo |-> 1, success |-> FALSE])

Asked == [source |-> "testnet", confirmations |-> 1]

TransactionResponse(kind, time) == [block |-> time, time |-> time, status |-> IF kind = "XRPPayment" THEN 0 ELSE 1,
                         parties |-> "payer to payee", amount |-> 1, data |-> "memo"]

TransactionProof(kind, t, round, time) ==
    [type |-> kind, finalized |-> TRUE, request |-> [transaction |-> t, asked |-> Asked],
     round |-> round, lowest |-> time, response |-> TransactionResponse(kind, time)]

TransactionOffer(kind, t, round, time) ==
    [kind |-> kind, proof |-> TransactionProof(kind, t, round, time),
     expected |-> [request |-> [transaction |-> t, asked |-> Asked], minBlockNumber |-> 1,
                   minTimestamp |-> 1, maxAgeSeconds |-> 1,
                   response |-> [TransactionResponse(kind, 0) EXCEPT !.block = 0]]]

Signature == [tuple |-> TRUE, components |-> {[name |-> "observedAt", type |-> "uint64"]}]

RequestBody == [url |-> [https |-> TRUE, literal |-> FALSE], httpMethod |-> "GET", canonical |-> TRUE,
         body |-> {}, postProcessJq |-> "jq", abiSignature |-> Signature]

Public == sourceFromRequestBody(RequestBody)


JsonOffer(body, round, time) ==
    [kind |-> "Web2Json",
     proof |-> [type |-> "Web2Json", finalized |-> TRUE, request |-> [code |-> 1, body |-> body],
                round |-> round, lowest |-> NoLowest, response |-> [time |-> time, data |-> "rate"]],
     expected |-> [source |-> sourceFromRequestBody(body), code |-> 1, minTimestamp |-> 1, maxAgeSeconds |-> 1,
                   response |-> [time |-> time, data |-> "rate"]]]

\* Two rounds attest to the same payment; one of transaction 2 is too old,
\* transaction 3 nobody attests to; one JSON source is not on the list.
MCOffer ==
    {TransactionOffer(k, 1, r, 1) : k \in {"EVMTransaction", "XRPPayment"}, r \in {1, 2}}
    \union {TransactionOffer("XRPPayment", 2, 1, 0), TransactionOffer("EVMTransaction", 3, 1, 1)}
    \union {JsonOffer(RequestBody, r, 1) : r \in {1, 2}}
    \union {JsonOffer([RequestBody EXCEPT !.body = {"x"}], 1, 1)}

MCAttested ==
    [k \in Kind |-> {InputCommitment(k, o.proof) : o \in {p \in MCOffer :
        p.kind = k /\ (k = "Web2Json" \/ p.proof.request.transaction # 3)}}]

MCAllowed == {Public}

Calls(amounts) == [i \in DOMAIN amounts |-> [target |-> <<"fAsset", "vault">>[i], amount |-> amounts[i], value |-> 0]]

\* Approve and deposit, or approve alone.
MCInstruction == {Calls(<<2, 2>>), Calls(<<2>>)}

LiveInit ==
    /\ scene \in {"preparation", "trigger", "lifecycle", "triggers", "feed", "monitor", "fronts", "mint"}
    /\ FdcInit /\ RunInit /\ DirectMintInit
    /\ TriggerInit /\ FeedInit /\ MonitorInit /\ FrontInit /\ (scene = "fronts" \/ front = "live")
    /\ OwnerInit(3) /\ LifecycleInit /\ (scene = "lifecycle" \/ profile = "live")

PreparationScene ==
    scene = "preparation" /\ FdcNext /\ UNCHANGED <<runVars, lifecycleRunVars, triggerVars>>

TriggerScene == scene = "trigger" /\ TriggerRunNext /\ UNCHANGED <<lifecycleRunVars, triggerVars>>

LifecycleScene == scene = "lifecycle" /\ LifecycleNext /\ UNCHANGED <<triggerRunVars, triggerVars>>

TriggersScene == scene = "triggers" /\ TriggerNext /\ UNCHANGED <<triggerRunVars, lifecycleRunVars>>

FeedScene == scene = "feed" /\ FeedNext

MonitorScene == scene = "monitor" /\ MonitorNext

FrontsScene == scene = "fronts" /\ FrontNext

MintScene == scene = "mint" /\ DirectMintNext

\* What the other scenes leave as it is.
AttestedVars == <<triggerRunVars, lifecycleRunVars, triggerVars>>

LiveNext ==
    /\ UNCHANGED scene
    /\ \/ (PreparationScene \/ TriggerScene \/ LifecycleScene \/ TriggersScene)
          /\ UNCHANGED <<feedVars, monitorVars, frontVars, mintVars>>
       \/ FeedScene /\ UNCHANGED <<AttestedVars, monitorVars, frontVars, mintVars>>
       \/ MonitorScene /\ UNCHANGED <<AttestedVars, feedVars, frontVars, mintVars>>
       \/ FrontsScene /\ UNCHANGED <<AttestedVars, feedVars, monitorVars, mintVars>>
       \/ MintScene /\ UNCHANGED <<AttestedVars, feedVars, monitorVars, frontVars>>

LiveSpec == LiveInit /\ [][LiveNext]_<<AttestedVars, feedVars, monitorVars, frontVars, mintVars, scene>>

\* What the lifecycle scripts and the funding scripts publish is so.
PublishedIsTrue == LifecycleEvidenceIsTrue /\ FundingEvidenceIsTrue
=============================================================================
