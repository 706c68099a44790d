----------------------------- MODULE MCOperations -----------------------------
(* The operator's scripts that are run again until they are done, each in a   *)
(* scene of its own; a behaviour stays in its scene.                          *)
(* "deployment": every deployment script, with up to MaxTroubles crashes,    *)
(* transactions the pool forgets, foreign transactions and slow receipts.    *)
(* "multi owner": runs and cleanups one after the other, with up to           *)
(* MaxMishaps mishaps.                                                       *)
EXTENDS Deployment, MultiOwnerRun

VARIABLE scene

\* Nothing of a deployment happens: its journal does not load.
NoDeployment ==
    /\ script = "foundation" /\ proc = Idle /\ evidence = <<>>
    /\ file = [Empty EXCEPT !["machineOwner"].hash = [NoTx EXCEPT !.id = 1]]
    /\ mined = <<>> /\ signed = {} /\ visible = {} /\ troubles = [k \in TroubleKind |-> 0]

\* Nor, with no recovery file, of a multi-owner run.
OperationsInit ==
    /\ OwnerInit(0)
    /\ \/ scene = "deployment" /\ Init /\ MultiOwnerInit("none")
       \/ scene = "multi owner" /\ NoDeployment /\ MultiOwnerInit("absent")

OperationsNext ==
    /\ UNCHANGED scene
    /\ \/ scene = "deployment" /\ Next /\ UNCHANGED multiOwnerAll
       \/ scene = "multi owner" /\ MultiOwnerNext /\ UNCHANGED vars

OperationsSpec ==
    /\ OperationsInit /\ [][OperationsNext]_<<vars, multiOwnerAll, scene>>
    /\ Fairness /\ MultiOwnerFairness
=============================================================================
