----------------------------- MODULE MCPayments -----------------------------
(* Vault, registry, router and FDC trigger together.  Two payments of one     *)
(* policy race on one spend checkpoint, placed by their requester or by the   *)
(* trigger, against a balance that may not cover both; either of two requests *)
(* may take the second identifier, one of them with a used nonce, to the      *)
(* vault itself.  The trigger is shown a payment attested to in two rounds,   *)
(* one that pays too much, one for the second request, and payments nobody    *)
(* made.  Governance and lifecycle calls are at rest.                         *)
EXTENDS PayGuardXrplFdcTrigger, PublicRequests, TLC

CONSTANTS alice, shop, vault, router, trigger, zero, fxrp, p1, r1, r2, m1, m2, m3, t1, t2, t3

MCAddress == {alice, shop, vault, router, trigger}
MCOwner == {alice}
MCAsset == {fxrp}
MCMachine == {m1, m2, m3}
MCKeyHigh == {0}
MCAmount == {1, 2}
TwoTimes == {0, 1}
NoReason == {0}
OnePolicy == {p1}
MCRequestIds == {r1, r2}
MCTransaction == {t1, t2, t3}

TheBinding ==
    [commitment |-> p1, owner |-> alice, machines |-> <<m1, m2, m3>>,
     keys |-> [i \in 1..3 |-> [tee |-> <<m1, m2, m3>>[i], high |-> 0]], policyNonce |-> 1]
MCBinding == {TheBinding}
MCReceipt ==
    {[machine |-> TheBinding.machines[i], key |-> TheBinding.keys[i],
      submissionNonce |-> 1, receiptNonce |-> 1, issuedAt |-> 0, expiry |-> MaxTime,
      signer |-> TheBinding.machines[i], binding |-> TheBinding] : i \in 1..3}

Ask(r, nonce, who, target, from, to) ==
    [policyCommitment |-> p1, requestId |-> r, requestNonce |-> nonce, requester |-> who,
     target |-> target, asset |-> fxrp, amount |-> 1, createdAt |-> from, expiry |-> to]

MCRequestInput ==
    {Ask(r1, 1, shop, shop, 0, 1), Ask(r2, 2, alice, shop, 0, 1), Ask(r2, 1, shop, vault, 0, 0)}
MCTriggerInput == {Ask(r1, 1, trigger, shop, 0, 2), Ask(r2, 3, trigger, shop, 1, 2)}

Paid(t, amount, memo, time) ==
    [transaction |-> t, amount |-> amount, memo |-> memo, time |-> time]
ProofOf(payment, round) == [payment |-> payment, votingRound |-> round, merkleProof |-> 1]

MCAttested ==
    {ProofOf(Paid(t1, 1, r1, 0), round) : round \in {1, 2}} 
        \cup {ProofOf(Paid(t2, 2, r2, 0), 1), ProofOf(Paid(t3, 1, r2, 1), 1)}
MCProof ==
    MCAttested \cup {ProofOf(Paid(t2, 1, r2, 0), 1), ProofOf(Paid(t1, 1, r2, 0), 1)}

MCCredential ==
    {[machine |-> m, key |-> [tee |-> m, high |-> 0], signer |-> m] : m \in {m1, m2}}

\* Bound: a replacement of the verification contract comes early or never.
EarlyDrift == now = 0 /\ RuntimeDrift

QuietNext ==
    \/ ConsumeNext \/ EarlyDrift
    \/ /\ UNCHANGED triggerVars
       /\ \/ RouterNext
          \/ OwnerNext /\ UNCHANGED <<registryVars, routerVars>>
          \/ (RegistrationNext \/ Tick) /\ UNCHANGED <<vaultVars, routerVars>>

QuietSpec == TriggerInit /\ [][QuietNext]_<<vars, triggerVars>>
=============================================================================
