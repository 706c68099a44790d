------------------------------- MODULE MCHosted -------------------------------
(* The two hosted services, each in scenes of its own; a behaviour stays in   *)
(* its scene.                                                                 *)
(* Policy custody: one policy frozen on three identities and a fourth one for *)
(* rotation; ciphertexts that decrypt to it and one that does not; windows of *)
(* different lengths.  In "race" two handlers run side by side for a short    *)
(* time, with a death; in "activation" there is one handler and one window,   *)
(* and the time and the deaths it takes to gather three receipts, activate    *)
(* the policy, rotate and expire.                                             *)
(* The hosted relay, "relay": two operations of one or two requesters over a  *)
(* memo of one entry; the machines agree to allow, or two of them deny.       *)
EXTENDS PolicyCustody, LiveRelay, TLC

CONSTANTS a, i1, i2, i3, p1, p2, t1

VARIABLE scene

MCMachinesOf == (a :> {i1, i2, i3})
MCCiphertext == {[opens |-> a, salt |-> 1], [opens |-> "garbage", salt |-> 2]}
MCWindow == {[issuedAt |-> 1, expiry |-> 2], [issuedAt |-> 1, expiry |-> 3],
             [issuedAt |-> 1, expiry |-> 5]}

MCOpinions == {[m \in Machine |-> "ALLOW"],
               [m \in Machine |-> IF m = 2 THEN "ALLOW" ELSE "DENY_POLICY"]}

\* Deaths and time are bounded, and the owner either deposits or withdraws; what
\* a running handler does next is not.
InScene ==
    \/ /\ scene = "race"
       /\ now <= 1 /\ restarts <= 1
       /\ \A p \in Process : identity[p] \in {i1, i2}
    \/ /\ scene = "activation"
       /\ \A t \in Thread : thread[t] # Idle => t = t1 /\ thread[t].submission.window.expiry = 2
    \/ scene = "relay" /\ (deposited = InitialDeposit \/ withdrawn = 0)

SceneInit ==
    /\ CustodyInit /\ Init
    /\ scene \in {"race", "activation", "relay"} /\ InScene
    /\ scene # "relay" => \A r \in Request : opinion[r] = [m \in Machine |-> "ALLOW"]
    /\ scene = "activation" => identity[p1] = i1 /\ identity[p2] = i2
    /\ scene = "relay" => \A p \in Process : identity[p] = i1

CustodyScene ==
    scene # "relay" /\ UNCHANGED <<vars, scene>> /\ CustodyNext /\ InScene'

RelayScene == scene = "relay" /\ Next /\ UNCHANGED <<custodyVars, scene>> /\ InScene'

HostedNext == CustodyScene \/ RelayScene

HostedSpec ==
    /\ SceneInit /\ [][HostedNext]_<<custodyVars, vars, scene>>
    /\ HandlersRun
    /\ \A i \in 1..MaxOperations : WF_vars(Step(i))
=============================================================================
