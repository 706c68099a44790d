------------------------------ MODULE MCContracts ------------------------------
(* Three scenes over one set of constants; a behaviour stays in its scene.    *)
(* "vault", the vault on its own: two owners, one token, two requests, and    *)
(* any address trying the router's calls.  "registry", the policy registry on *)
(* its own: four machines, two fingerprints each, two commitments, receipts   *)
(* that are good, stale, early, foreign or forged.  "router", the three       *)
(* contracts together: one request under everything governance, the policy's  *)
(* owner and the TEE manager can do, with three machines and every            *)
(* combination of machine, fingerprint and signer; some evaluations deny.     *)
EXTENDS PublicRequests, TLC

CONSTANTS alice, bob, shop, router, vault, zero, fxrp, r1, r2, p1, p2, m1, m2, m3, m4

VARIABLE scene

MCAddress == {alice, bob, shop, router, vault}
MCOwner == {alice, bob}
MCAsset == {fxrp}
MCRequestId == {r1, r2}
MCPolicy == {p1, p2}
MCAmount == 0..2
MCMachine == {m1, m2, m3, m4}
MCKeyHigh == {0, 1}

K(m, h) == [tee |-> m, high |-> h]

B(p, o, ms, ks) == [commitment |-> p, owner |-> o, machines |-> ms, keys |-> ks,
                    policyNonce |-> 1]

Good == B(p1, alice, <<m1, m2, m3>>, <<K(m1, 0), K(m2, 0), K(m3, 0)>>)
OtherOrder == B(p1, alice, <<m2, m1, m4>>, <<K(m2, 0), K(m1, 1), K(m4, 0)>>)
Repeated == B(p2, alice, <<m1, m1, m2>>, <<K(m1, 0), K(m1, 1), K(m2, 0)>>)
WrongKey == B(p2, alice, <<m1, m2, m3>>, <<K(m1, 0), K(m2, 0), K(m4, 0)>>)
Second == B(p2, bob, <<m2, m3, m4>>, <<K(m2, 0), K(m3, 0), K(m4, 0)>>)

MCBinding == {Good, OtherOrder, Repeated, WrongKey, Second}

R(b, i, from, to) == [machine |-> b.machines[i], key |-> b.keys[i], submissionNonce |-> 1,
                      receiptNonce |-> 1, issuedAt |-> from, expiry |-> to,
                      signer |-> b.machines[i], binding |-> b]

MCReceipt ==
    {R(b, i, 0, 1) : b \in {Good, Repeated, WrongKey}, i \in 1..3}
        \cup {R(OtherOrder, i, 1, 2) : i \in 1..3}
        \cup {R(Second, i, 0, 2) : i \in 1..3}
        \cup {[R(Second, 1, 0, 2) EXCEPT !.signer = m1]}

MCRequestInput ==
    {[policyCommitment |-> p1, requestId |-> r1, requestNonce |-> 1, requester |-> shop,
      target |-> shop, asset |-> fxrp, amount |-> 1, createdAt |-> 0, expiry |-> 1]}

MCReason == {0, 1}

MCIssuedAt == {0, 1}

\* A caller may hold one machine's envelope with another's fingerprint or
\* another's signature.
MCCredential ==
    {c \in {[machine |-> m, key |-> K(k, 0), signer |-> s] : m, k, s \in {m1, m2, m3}} :
        c.machine \in {c.key.tee, c.signer}}

-----------------------------------------------------------------------------
SceneInit ==
    /\ RegistryInit /\ RouterInit
    /\ \/ scene = "vault" /\ VaultInit
       \/ scene \in {"registry", "router"} /\ FreshVault(Asset, RouterAddress)

VaultScene ==
    scene = "vault" /\ VaultNext /\ UNCHANGED <<registryVars, routerVars>>

\* Any binding, with receipts for it in their order, of which any one may be
\* replaced by any other.
RegistersWithOneOdd ==
    \E binding \in Binding, from \in {0, 1}, j \in Slot, odd \in Receipt :
        RegisterPolicy(binding, [i \in Slot |->
            IF i = j THEN odd ELSE R(binding, i, from, IF binding = Second THEN 2 ELSE from + 1)])

RegistryScene ==
    /\ scene = "registry"
    /\ \/ RegistersWithOneOdd \/ LifecycleNext \/ GovernanceNext \/ Tick
       \/ \E machine \in Machine : ManagerDrift(machine)
    /\ UNCHANGED <<vaultVars, routerVars>>

RegisterGood ==
    RegisterPolicy(Good, [i \in Slot |-> R(Good, i, 0, 1)])

\* The owner of the policy has one unit, and may take it back.
OwnerOfOne ==
    \/ accounts[alice][fxrp].deposited = 0 /\ Deposit(alice, fxrp, 1, alice)
    \/ Withdraw(alice, fxrp, 1, alice)

GovernedNext ==
    \/ RegisterGood \/ LifecycleNext \/ GovernanceNext \/ Tick
    \/ \E machine \in {m1, m2, m3} : ManagerDrift(machine)

RouterScene ==
    /\ scene = "router"
    /\ \/ RouterNext
       \/ OwnerOfOne /\ UNCHANGED <<registryVars, routerVars>>
       \/ GovernedNext /\ UNCHANGED <<vaultVars, routerVars>>

ContractsNext == (VaultScene \/ RegistryScene \/ RouterScene) /\ UNCHANGED scene

ContractsSpec ==
    /\ SceneInit /\ [][ContractsNext]_<<vars, scene>>
    /\ WF_vars(scene = "router" /\ Tick /\ UNCHANGED <<vaultVars, routerVars, scene>>)
    /\ \A r \in RequestId : WF_vars(Expire(r) /\ UNCHANGED scene)
=============================================================================
