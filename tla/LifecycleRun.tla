----------------------------- MODULE LifecycleRun -----------------------------
(***************************************************************************)
(* The three lifecycle runs of tooling/ whose evidence is published:         *)
(* coston2-simulated-lifecycle.mjs signs for three simulated machines        *)
(* itself, fcc-live-lifecycle.ts dispatches to three machines and submits    *)
(* what they answer, and fcc-hosted-relay-lifecycle.ts has the hosted relay  *)
(* do both.  Each freezes a policy (fcc-live-custody.ts, for the last two),  *)
(* has one payment allowed and executed and one denied by its cap, stops,    *)
(* resumes and revokes the policy, and writes its evidence.                  *)
(*                                                                         *)
(* A run is a sequence of steps, and stops at its first error.  Around it,   *)
(* the owner uses the same vault account from elsewhere and has another      *)
(* policy whose requests move it, and others decide, execute and expire      *)
(* requests of both policies.                                                *)
(***************************************************************************)
EXTENDS OwnerAccount

CONSTANTS
    Profile,         \* the scripts that are run
    MaxElsewhere     \* bound: deposits and withdrawals by the owner elsewhere

ASSUME LifecycleAssumption == Profile \subseteq {"simulated", "live", "hosted"} /\ MaxElsewhere \in Nat

VARIABLES
    profile,
    lifecycle,    \* [i, ours, before, afterAllow, afterDeny]: where the run is, what it has read
    receipts,     \* machines that have signed the policy's receipt, or were registered
    proof,        \* what the evidence publishes, or NoProof
    elsewhere     \* deposits and withdrawals so far

lifecycleVars == <<profile, lifecycle, receipts, proof, elsewhere>>
lifecycleRunVars == <<ownerVars, lifecycleVars>>

NoProof == [written |-> FALSE]
NoReading == [accounting |-> NoAccount, includes |-> {}]

LifecycleInit ==
    /\ profile \in Profile
    /\ lifecycle = [i |-> 1, ours |-> 0, allow |-> 0, deny |-> 0, before |-> NoReading,
                    afterAllow |-> NoReading, afterDeny |-> NoReading]
    /\ receipts = 0 /\ proof = NoProof /\ elsewhere = 0

-----------------------------------------------------------------------------
Governance == <<"stop", "readStopped", "probe", "resume", "readActive", "revoke", "probe", "readRevoked">>

runSimulatedLifecycle ==
    <<"before", "machine", "machine", "machine", "freeze", "readActive", "sign", "createAllow",
      "submit", "decide", "execute", "afterAllow", "sign", "createDeny", "submit", "decide", "afterDeny">>
      \o Governance \o <<"conserved", "evidence">>

executeLiveCustody ==
    <<"machines", "receipt", "receipt", "receipt", "freeze", "readActive", "custody">>

runLive ==
    executeLiveCustody
      \o <<"before", "createAllow", "dispatch", "collect", "pause", "submit", "decide", "execute",
           "afterAllow", "createDeny", "dispatch", "collect", "submit", "decide", "afterDeny",
           "conserved", "stop", "readStopped", "resume", "readActive", "revoke", "readRevoked",
           "evidence">>

runHosted ==
    executeLiveCustody
      \o <<"fund", "before", "createAllow", "dispatch", "answer", "execute", "afterAllow",
           "createDeny", "dispatch", "answer", "afterDeny", "conserved",
           "stop", "resume", "revoke", "readRevoked", "evidence">>

LifecycleSteps ==
    CASE profile = "simulated" -> runSimulatedLifecycle
      [] profile = "live" -> runLive
      [] profile = "hosted" -> runHosted

Performs(step) == lifecycle.i \in DOMAIN LifecycleSteps /\ LifecycleSteps[lifecycle.i] = step

On(run) == lifecycle' = [run EXCEPT !.i = @ + 1]

\* A step of the run that changes nothing on the chain.
Reads(step, run) ==
    /\ Performs(step) /\ On(run)
    /\ UNCHANGED <<ownerVars, profile, receipts, proof, elsewhere>>

\* A transaction of the run: simulated, sent and confirmed, or none of it.
Writes(step, transaction, run) ==
    /\ Performs(step) /\ transaction /\ On(run)
    /\ UNCHANGED <<profile, receipts, proof, elsewhere>>

\* The request that the run is about.
Questioned == IF lifecycle.deny # 0 THEN lifecycle.deny ELSE lifecycle.allow

\* Of each of three machines, what it says of itself and what the manager has
\* of it agree.
machineFor == Reads("machines", lifecycle)

\* Encryption for a machine and its ingress give one receipt; or registerMachine.
Receipt ==
    /\ Performs("receipt") \/ Performs("machine")
    /\ receipts' = receipts + 1 /\ On(lifecycle)
    /\ UNCHANGED <<ownerVars, profile, proof, elsewhere>>

freezePolicyOnchain ==
    /\ receipts = 3
    /\ Writes("freeze", registerPolicy, [lifecycle EXCEPT !.ours = Len(policies) + 1])

\* The custody has evidence of its own, which needs three receipts.
buildSanitizedCustodyEvidence == receipts = 3 /\ Reads("custody", lifecycle)

Low == account.available < 2

\* The hosted run deposits when the account is low.
Fund ==
    \/ Low /\ Writes("fund", deposit(3), lifecycle)
    \/ ~Low /\ Reads("fund", lifecycle)

ReadBefore ==
    /\ account.available >= 2
    /\ profile = "simulated" => account.reserved = 0
    /\ Reads("before", [lifecycle EXCEPT !.before = Reading])

CreateAllow ==
    Writes("createAllow", createRequest(lifecycle.ours, "ALLOW"),
           [lifecycle EXCEPT !.allow = Len(actionRequests) + 1])

CreateDeny ==
    Writes("createDeny", createRequest(lifecycle.ours, "DENY"),
           [lifecycle EXCEPT !.deny = Len(actionRequests) + 1])

\* The simulated run keeps its machines' signatures to itself.
Sign == Reads("sign", lifecycle)

Dispatch == Writes("dispatch", AskMachines(Questioned), lifecycle)

\* Three answers were fetched and agree on what was expected of them.
pollEvaluation == Reads("collect", lifecycle)

\* The executor stands still; the request and the account must too.
ExecutorPause ==
    Performs("pause") /\ actionRequests[Questioned].status = "Pending" /\ Reads("pause", lifecycle)

\* The first envelope; the second decides.
SubmitFirst ==
    Performs("submit") /\ actionRequests[Questioned].status = "Pending" /\ Reads("submit", lifecycle)

SubmitSecond == Writes("decide", submitEvaluation(Questioned, "run"), lifecycle)

\* The relay answers with its own dispatch and submissions, or has them only
\* as already final, which the run refuses.
requestRelayEvaluation ==
    /\ Performs("answer")
    /\ actionRequests[Questioned].decidedBy = "relay"
    /\ actionRequests[Questioned].status \in {"Allowed", "Denied"}
    /\ Reads("answer", lifecycle)

ExecuteAllowed == Writes("execute", execute(lifecycle.allow, "run"), lifecycle)

ReadAfterAllow ==
    /\ Performs("afterAllow")
    /\ actionRequests[lifecycle.allow].status = "Executed"
    /\ Reads("afterAllow", [lifecycle EXCEPT !.afterAllow = Reading])

ReadAfterDeny ==
    /\ Performs("afterDeny")
    /\ actionRequests[lifecycle.deny].status = "Denied"
    /\ Reads("afterDeny", [lifecycle EXCEPT !.afterDeny = Reading])

\* One payment was made between two readings.
PaidOnce(before, after) ==
    /\ after.accounting.available = before.accounting.available - 1
    /\ after.accounting.spent = before.accounting.spent + 1

OnePayment(before, after) == PaidOnce(before, after) /\ after.accounting.reserved = 0

Conserved ==
    /\ Performs("conserved")
    /\ OnePayment(lifecycle.before, lifecycle.afterAllow)
    /\ sameAccounting(lifecycle.afterAllow, lifecycle.afterDeny)
    /\ profile = "simulated" =>
         lifecycle.before.accounting.deposited = lifecycle.afterAllow.accounting.deposited
    /\ Reads("conserved", lifecycle)

StatusRead(step, status) ==
    Performs(step) /\ policies[lifecycle.ours] = status /\ Reads(step, lifecycle)

\* Any failure of the simulated call counts as the rejection.
expectCreateRejected == Reads("probe", lifecycle)

GovernanceStep ==
    \/ Writes("stop", stopPolicy(lifecycle.ours), lifecycle)
    \/ StatusRead("readStopped", "Stopped")
    \/ expectCreateRejected
    \/ Writes("resume", resumePolicy(lifecycle.ours), lifecycle)
    \/ StatusRead("readActive", "Active")
    \/ Writes("revoke", revokePolicy(lifecycle.ours), lifecycle)
    \/ StatusRead("readRevoked", "Revoked")

\* What the evidence of a run is refused without.
buildHostedLifecycleEvidence ==
    /\ PaidOnce(lifecycle.before, lifecycle.afterAllow)
    /\ sameAccounting(lifecycle.afterAllow, lifecycle.afterDeny)

buildSanitizedLifecycleEvidence ==
    /\ actionRequests[lifecycle.allow].status = "Executed"
    /\ actionRequests[lifecycle.deny].status = "Denied"
    /\ PaidOnce(lifecycle.before, lifecycle.afterAllow)
    /\ sameAccounting(lifecycle.afterAllow, lifecycle.afterDeny)

writeEvidence ==
    /\ Performs("evidence")
    /\ profile = "hosted" => buildHostedLifecycleEvidence
    /\ profile = "live" => buildSanitizedLifecycleEvidence
    /\ proof' = [written |-> TRUE, before |-> lifecycle.before,
                 afterAllow |-> lifecycle.afterAllow, afterDeny |-> lifecycle.afterDeny]
    /\ On(lifecycle)
    /\ UNCHANGED <<ownerVars, profile, receipts, elsewhere>>

\* An error, or the end of the process: there is no journal to go on from.
LifecycleFails ==
    /\ lifecycle.i \in DOMAIN LifecycleSteps /\ lifecycle' = [lifecycle EXCEPT !.i = Len(LifecycleSteps) + 2]
    /\ UNCHANGED <<ownerVars, profile, receipts, proof, elsewhere>>

-----------------------------------------------------------------------------
(* The others.                                                              *)

Elsewhere(transaction) == transaction /\ UNCHANGED lifecycleVars

\* The owner's other policy and one request of it.
OtherPolicy ==
    \/ DOMAIN policies \subseteq {lifecycle.ours} /\ registerPolicy
    \/ \E p \in DOMAIN policies \ {lifecycle.ours} :
         /\ \A r \in DOMAIN actionRequests : actionRequests[r].policy # p
         /\ createRequest(p, "ALLOW")

OwnerElsewhere ==
    /\ elsewhere < MaxElsewhere /\ elsewhere' = elsewhere + 1
    /\ deposit(1) \/ withdraw(1)
    /\ UNCHANGED <<profile, lifecycle, receipts, proof>>

OthersNext ==
    \/ Elsewhere(OtherPolicy) \/ OwnerElsewhere
    \/ \E r \in DOMAIN actionRequests :
         \/ Elsewhere(Decide(r, "relay")) \/ Elsewhere(Decide(r, "other"))
         \/ Elsewhere(execute(r, "other")) \/ Elsewhere(End(r))
         \/ actionRequests[r].policy # lifecycle.ours /\ ~actionRequests[r].asked /\ Elsewhere(AskMachines(r))
    \/ \E p \in DOMAIN policies \cap {lifecycle.ours} :
         Elsewhere(stopPolicy(p)) \/ Elsewhere(resumePolicy(p)) \/ Elsewhere(revokePolicy(p))

LifecycleNext ==
    \/ machineFor \/ Receipt \/ freezePolicyOnchain \/ buildSanitizedCustodyEvidence \/ Fund \/ ReadBefore \/ CreateAllow \/ CreateDeny
    \/ Sign \/ Dispatch \/ pollEvaluation \/ ExecutorPause \/ SubmitFirst \/ SubmitSecond
    \/ requestRelayEvaluation \/ ExecuteAllowed \/ ReadAfterAllow \/ ReadAfterDeny
    \/ Conserved \/ GovernanceStep \/ writeEvidence \/ LifecycleFails
    \/ OthersNext

LifecycleSpec == OwnerInit(3) /\ LifecycleInit /\ [][LifecycleNext]_lifecycleRunVars

-----------------------------------------------------------------------------
(* Properties.                                                              *)

\* What the evidence asserts is so, whatever else moves the account: between
\* the first and the last reading the one payment made of it is the run's
\* own, which was allowed and executed; the denied request, of the same policy,
\* reserved and moved nothing; three machines vouch for the policy, and it is
\* revoked for good.
LifecycleEvidenceIsTrue ==
    proof.written =>
        /\ proof.afterDeny.includes \ proof.before.includes = {lifecycle.allow}
        /\ actionRequests[lifecycle.allow].executedBy = "run"
        /\ actionRequests[lifecycle.deny].status = "Denied"
        /\ policies[lifecycle.ours] = "Revoked" /\ receipts = 3
=============================================================================
