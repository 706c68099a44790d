---------------------- MODULE PayGuardPolicyRegistryV2 ----------------------
(***************************************************************************)
(* The policy registry, packages/contracts/src/PayGuardPolicyRegistryV2.sol:*)
(* registration of a policy on three machine receipts, the lifecycle its    *)
(* owner drives, the administrator's global pause, and the question the     *)
(* router asks of it: is this the frozen signer of a machine that the       *)
(* official TEE manager still vouches for?                                  *)
(*                                                                         *)
(* A machine is identified by its official TEE address.  A key fingerprint  *)
(* is 32 bytes of which the low 20 are that address: [tee, high].  The      *)
(* binding's deployment fields (chain, registry, schema, extension, code    *)
(* version, thresholds 3 and 2) are compared with constants of the          *)
(* deployment, so a Binding here is one that carries the right ones.        *)
(***************************************************************************)
EXTENDS PayGuardTypes, FiniteSets

CONSTANTS
    Admin,          \* the constructor's admin_
    Machine,        \* official TEE addresses
    KeyHigh,        \* the 12 high bytes of a key fingerprint
    Binding,        \* bindings owners try to register
    Receipt,        \* custody receipts in circulation
    MaxTime         \* bound: block.timestamp stops here

Slot == 1..3        \* the three custody machines, in binding order
Key == [tee: Machine, high: KeyHigh]

BindingType == [commitment: Policy, owner: Address \cup {ZeroAddress},
                machines: [Slot -> Machine], keys: [Slot -> Key], policyNonce: Nat]

\* A receipt's signature is a machine's: `signer` signed the digest over
\* `binding` and the receipt's own fields.
ReceiptType == [machine: Machine, key: Key, submissionNonce: Nat, receiptNonce: Nat,
                issuedAt: Nat, expiry: Nat, signer: Machine, binding: BindingType]

ASSUME RegistryAssumption ==
    /\ Admin \in Address
    /\ Binding \subseteq BindingType
    /\ Receipt \subseteq ReceiptType
    /\ MaxTime \in Nat

VARIABLES
    policies,       \* policies[commitment]: the PolicyRecord
    admin,          \* ZeroAddress once renounced
    globallyPaused,
    official,       \* machines for which _officialMachineMatches holds now
    now             \* block.timestamp

registryVars == <<policies, admin, globallyPaused, official, now>>

StoredStatus == {"Unregistered", "Active", "Stopped", "Revoked"}

NoBinding == [owner |-> ZeroAddress]

PolicyRecord == [status: StoredStatus, binding: BindingType \cup {NoBinding}]

Registered(p) == policies[p].status # "Unregistered"

RegistryTypeOK ==
    /\ policies \in [Policy -> PolicyRecord]
    /\ \A p \in Policy : Registered(p) => policies[p].binding \in Binding
    /\ admin \in {Admin, ZeroAddress}
    /\ globallyPaused \in BOOLEAN
    /\ official \subseteq Machine
    /\ now \in 0..MaxTime

RegistryInit ==
    /\ policies = [p \in Policy |-> [status |-> "Unregistered", binding |-> NoBinding]]
    /\ admin = Admin
    /\ globallyPaused = FALSE
    /\ official = Machine
    /\ now = 0

-----------------------------------------------------------------------------
(* Reading the registry.                                                    *)

\* (A mutant: the pause is not consulted.)
effectiveStatus_IgnoresPause(p) == policies[p].status

\* _effectiveStatus: the pause shows an active policy as stopped.
effectiveStatus(p) ==
    IF globallyPaused /\ policies[p].status = "Active" THEN "Stopped"
                                                       ELSE policies[p].status

\* The signer is the machine itself; it must be one of the three frozen in the
\* binding, with exactly the frozen fingerprint, and still official.
isFrozenSigner(p, machine, key, signer) ==
    /\ Registered(p)
    /\ signer = machine
    /\ \E i \in Slot : /\ policies[p].binding.machines[i] = machine
                       /\ policies[p].binding.keys[i] = key
    /\ key.tee = signer
    /\ signer \in official

-----------------------------------------------------------------------------
(* Registration.                                                            *)

\* (A mutant: the three machines and keys are not compared.)
Distinct_Unchecked(f) == TRUE

Distinct(f) == \A i, j \in Slot : f[i] = f[j] => i = j

ReceiptAccepted(binding, receipts, i) ==
    LET receipt == receipts[i] IN
    /\ receipt.submissionNonce = receipts[1].submissionNonce
    /\ receipt.submissionNonce # 0
    /\ receipt.receiptNonce = binding.policyNonce
    /\ receipt.issuedAt <= now /\ now <= receipt.expiry
    /\ receipt.issuedAt < receipt.expiry
    /\ receipt.machine = binding.machines[i]
    /\ receipt.key = binding.keys[i]
    /\ receipt.key.tee = receipt.machine
    /\ receipt.machine \in official
    /\ receipt.signer = receipt.machine /\ receipt.binding = binding

\* Anybody may submit the registration: the receipts carry the authority.
RegisterPolicy(binding, receipts) ==
    /\ ~globallyPaused
    /\ binding.owner # ZeroAddress /\ binding.policyNonce # 0
    /\ ~Registered(binding.commitment)
    /\ Distinct(binding.machines) /\ Distinct(binding.keys)
    /\ \A i \in Slot : ReceiptAccepted(binding, receipts, i)
    /\ policies' = [policies EXCEPT ![binding.commitment] =
                      [status |-> "Active", binding |-> binding]]
    /\ UNCHANGED <<admin, globallyPaused, official, now>>

-----------------------------------------------------------------------------
(* The owner's lifecycle calls.                                             *)

Owned(p, caller) == Registered(p) /\ caller = policies[p].binding.owner

SetStatus(p, status) ==
    /\ policies' = [policies EXCEPT ![p].status = status]
    /\ UNCHANGED <<admin, globallyPaused, official, now>>

StopPolicy(p, caller) ==
    Owned(p, caller) /\ policies[p].status = "Active" /\ SetStatus(p, "Stopped")

ResumePolicy(p, caller) ==
    Owned(p, caller) /\ policies[p].status = "Stopped" /\ SetStatus(p, "Active")

RevokePolicy(p, caller) ==
    Owned(p, caller) /\ policies[p].status # "Revoked" /\ SetStatus(p, "Revoked")

-----------------------------------------------------------------------------
(* Governance, the TEE manager and time.                                    *)

SetGlobalPause(paused, caller) ==
    /\ caller = admin
    /\ globallyPaused # paused
    /\ globallyPaused' = paused
    /\ UNCHANGED <<policies, admin, official, now>>

\* (A mutant: renouncing is possible during a pause.)
RenounceAdmin_WhilePaused(caller) ==
    /\ caller = admin
    /\ admin' = ZeroAddress
    /\ UNCHANGED <<policies, globallyPaused, official, now>>

RenounceAdmin(caller) ==
    /\ caller = admin
    /\ ~globallyPaused
    /\ admin' = ZeroAddress
    /\ UNCHANGED <<policies, globallyPaused, official, now>>

\* External: the manager changes a machine's status, extension, attestation,
\* platform or URL, so that the official match breaks or is restored.
ManagerDrift(machine) ==
    /\ official' = IF machine \in official THEN official \ {machine}
                                           ELSE official \cup {machine}
    /\ UNCHANGED <<policies, admin, globallyPaused, now>>

Tick ==
    /\ now < MaxTime
    /\ now' = now + 1
    /\ UNCHANGED <<policies, admin, globallyPaused, official>>

-----------------------------------------------------------------------------
LifecycleNext ==
    \E p \in Policy, caller \in Address :
        StopPolicy(p, caller) \/ ResumePolicy(p, caller) \/ RevokePolicy(p, caller)

GovernanceNext ==
    \E caller \in Address :
        (\E paused \in BOOLEAN : SetGlobalPause(paused, caller)) \/ RenounceAdmin(caller)

RegistrationNext ==
    \E binding \in Binding : \E receipts \in [Slot -> Receipt] :
        RegisterPolicy(binding, receipts)

RegistryNext ==
    \/ RegistrationNext
    \/ LifecycleNext
    \/ GovernanceNext
    \/ \E machine \in Machine : ManagerDrift(machine)
    \/ Tick

RegistrySpec == RegistryInit /\ [][RegistryNext]_registryVars

-----------------------------------------------------------------------------
(* Properties.                                                              *)

\* A pause can always be lifted: governance cannot pause and then leave, nor
\* leave and then pause (renounceAdmin's promise not to "strand new work").
PauseIsRecoverable == globallyPaused => admin = Admin

\* Signers(p) is what the router would accept for p right now.
Signers(p) == {s \in Machine \X Key : isFrozenSigner(p, s[1], s[2], s[1])}

\* At any time a registered policy has at most one accepted fingerprint per
\* machine and at most three accepted machines, and the manager, by dropping
\* and re-admitting machines, never widens the set beyond the receipted one.
SignersAreReceipted ==
    \A p \in Policy :
        /\ Cardinality(Signers(p)) <= 3
        /\ \A s, t \in Signers(p) : (s[1] = t[1] <=> s[2] = t[2])
        /\ \A s \in Signers(p) : \E r \in Receipt :
             r.machine = s[1] /\ r.key = s[2] /\ r.binding.commitment = p

\* What a registration froze stays, and governance is only a filter: when the
\* pause is lifted a policy is active only if its owner left it active, and no
\* other step of governance, of the manager or of a second registration turns a
\* policy that was not effectively active, a revoked one least of all, into an
\* active one.
OnlyOwnersReactivate ==
    [][\A p \in Policy : Registered(p) =>
        /\ policies'[p].binding = policies[p].binding
        /\ (effectiveStatus(p) # "Active" /\ effectiveStatus(p)' = "Active") =>
           \/ policies[p].status = "Stopped" /\ globallyPaused' = globallyPaused
           \/ policies[p].status = "Active" /\ globallyPaused /\ ~globallyPaused'
      ]_registryVars
=============================================================================
