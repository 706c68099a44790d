---------------------------- MODULE MultiOwnerRun ----------------------------
(***************************************************************************)
(* The multi-owner run, tooling/fcc-multi-owner-lifecycle.ts: two new        *)
(* accounts, an owner and a requester, are funded, the owner freezes a       *)
(* policy and deposits, the requester is paid one request, three more are    *)
(* denied, the policy is revoked and what is left goes back to the source.   *)
(* The keys of the accounts exist in one recovery file, written before any   *)
(* funding and removed at the end; a run that failed is started again, which *)
(* uses the same accounts and a new policy, or cleaned up.                   *)
(*                                                                         *)
(* Amounts are in units of one request.  A death, a failure and another       *)
(* account's interference are mishaps.  The operator cleans up the last run   *)
(* when there is gas to do it with, and otherwise runs again; to run again    *)
(* where cleaning up would do, or to clean up under an earlier policy, is a   *)
(* slip.  A transaction that a failed process sent is on the chain, or never  *)
(* will be.                                                                 *)
(***************************************************************************)
EXTENDS OwnerAccount

CONSTANTS
    MaxMishaps,      \* bounds
    MaxSlips

ASSUME MultiOwnerAssumption == {MaxMishaps, MaxSlips} \subseteq Nat

Holder == {"owner", "requester"}
TokenTarget == 3
DepositAmount == 2

VARIABLES
    recovery,    \* the recovery file: "absent", "torn", "kept" or "removed"
    gas,         \* gas[h]: h can pay for transactions, and has gas to return
    token,       \* token[h]: the asset in h's own hands
    process,     \* the running process: where it is, and what it has read
    mishaps,
    slips

multiOwnerVars == <<recovery, gas, token, process, mishaps, slips>>

NoProcess == [doing |-> "nothing", request |-> 0]

MultiOwnerInit(file) ==
    /\ recovery = file /\ mishaps = 0 /\ slips = 0
    /\ gas = [h \in Holder |-> FALSE] /\ token = [h \in Holder |-> 0]
    /\ process = NoProcess

runSteps ==
    <<"gas owner", "gas requester", "token", "freeze", "probe", "deposit", "before", "create",
      "refusals", "ask", "answer", "repeat", "execute", "after", "denial", "denial", "denial",
      "afterDenials", "stop", "probe", "resume", "revoke", "withdraw", "readTokens",
      "token back owner", "token back requester", "gas back owner", "gas back requester",
      "unlink">>

cleanupSteps ==
    <<"readPolicy", "readAccount", "withdraw", "readTokens", "token back owner", "readTokens",
      "token back requester", "gas back owner", "gas back requester", "unlink">>

StepsOf == IF process.doing = "cleanup" THEN cleanupSteps ELSE runSteps

Doing(step) == process.doing # "nothing" /\ StepsOf[process.i] = step

Advanced == [process EXCEPT !.i = @ + 1]

-----------------------------------------------------------------------------
(* Starting: loadOrCreateEphemeralAccounts.  A death while the file is       *)
(* written leaves one that neither mode accepts.                             *)

NewProcess(doing, p) ==
    [doing |-> doing, i |-> 1, policy |-> p, request |-> 0, before |-> NoAccount,
     after |-> NoAccount, amount |-> 0, tokens |-> [h \in Holder |-> 0]]

CanClean == policies # <<>> /\ \A h \in Holder : gas[h]

Slip(is) == (is => slips < MaxSlips) /\ slips' = IF is THEN slips + 1 ELSE slips

Mishap == mishaps < MaxMishaps /\ mishaps' = mishaps + 1 /\ UNCHANGED slips

StartRun ==
    /\ process = NoProcess /\ recovery \in {"absent", "kept"}
    /\ Slip(CanClean)
    /\ recovery' = "kept" /\ process' = NewProcess("run", 0)
    /\ UNCHANGED <<ownerVars, gas, token, mishaps>>

TearRecovery ==
    /\ process = NoProcess /\ recovery = "absent"
    /\ recovery' = "torn" /\ Mishap
    /\ UNCHANGED <<ownerVars, gas, token, process>>

StartCleanup ==
    /\ process = NoProcess /\ recovery = "kept" /\ CanClean
    /\ \E p \in DOMAIN policies : Slip(p # Len(policies)) /\ process' = NewProcess("cleanup", p)
    /\ UNCHANGED <<ownerVars, recovery, gas, token, mishaps>>

-----------------------------------------------------------------------------
(* The steps.  Proceeds(step) is what a step needs; without it it throws.    *)

\* (A mutant: whatever is reserved.)
Withdrawable_AnyReserve(accounting) == TRUE

\* Cleanup refuses an account that has something reserved.
Withdrawable(accounting) == accounting.reserved = 0

\* (A mutant: revoked once more.)
NeedsRevoke_Always(p) == TRUE

NeedsRevoke(p) == policies[p] # "Revoked"

Paid(before, after) ==
    after.available = before.available - 1 /\ after.spent = before.spent + 1

\* The run looks at the tokens once more, and its evidence is refused without
\* an emptied account (one payment, its other condition, was seen at "after");
\* cleanup looks at neither.
Emptied == \A h \in Holder : token[h] = 0

buildMultiOwnerEvidence == process.after.available = 0

Proceeds(step) ==
    CASE step = "freeze" -> Len(policies) < MaxOwnerPolicies
      [] step = "deposit" -> token["owner"] >= DepositAmount
      [] step = "before" -> account.available = DepositAmount
      [] step \in {"create", "denial", "stop"} -> policies[process.policy] = "Active"
      [] step = "ask" -> actionRequests[process.request].status = "Pending"
      [] step = "answer" -> actionRequests[process.request].status = "Allowed" /\ actionRequests[process.request].decidedBy = "relay"
      [] step = "execute" -> actionRequests[process.request].status = "Allowed"
      [] step = "after" -> Paid(process.before, account)
      [] step = "afterDenials" -> account = process.after
      [] step = "resume" -> policies[process.policy] = "Stopped"
      [] step = "revoke" -> policies[process.policy] # "Revoked"
      [] step = "readPolicy" ->
           NeedsRevoke(process.policy) => policies[process.policy] # "Revoked" /\ gas["owner"]
      [] step = "readAccount" -> Withdrawable(account)
      [] step = "withdraw" -> process.amount = 0 \/ (account.available >= process.amount /\ gas["owner"])
      [] step = "token back owner" -> process.tokens["owner"] = 0 \/ gas["owner"]
      [] step = "token back requester" -> process.tokens["requester"] = 0 \/ gas["requester"]
      [] step = "gas back owner" -> gas["owner"]
      [] step = "gas back requester" -> gas["requester"]
      [] step = "unlink" -> process.doing = "run" => Emptied /\ buildMultiOwnerEvidence
      [] OTHER -> TRUE

Ready(step) == Doing(step) /\ Proceeds(step)

Observes(step, then) ==
    /\ Ready(step) /\ process' = then
    /\ UNCHANGED <<ownerVars, recovery, gas, token, mishaps, slips>>

\* Refusals are seen, results compared, and the account and the balances read.
Read ==
    \/ \E step \in {"probe", "refusals", "repeat", "denial", "answer", "afterDenials"} : Observes(step, Advanced)
    \/ Observes("before", [Advanced EXCEPT !.before = account])
    \/ Observes("after", [Advanced EXCEPT !.after = account, !.amount = account.available])
    \/ Observes("readAccount", [Advanced EXCEPT !.amount = account.available])
    \/ Observes("readTokens", [Advanced EXCEPT !.tokens = token])

\* The steps that are taken once for each account.
GasStep == [owner |-> "gas owner", requester |-> "gas requester"]
TokenBackStep == [owner |-> "token back owner", requester |-> "token back requester"]
GasBackStep == [owner |-> "gas back owner", requester |-> "gas back requester"]

TopUpGas(h) ==
    /\ Ready(GasStep[h]) /\ gas' = [gas EXCEPT ![h] = TRUE]
    /\ process' = Advanced
    /\ UNCHANGED <<ownerVars, recovery, token, mishaps, slips>>

TopUpToken ==
    /\ Ready("token") /\ token' = [token EXCEPT !["owner"] = IF @ < TokenTarget THEN TokenTarget ELSE @]
    /\ process' = Advanced
    /\ UNCHANGED <<ownerVars, recovery, gas, mishaps, slips>>

\* A transaction that moves no token of the two accounts.
Sends(step, transaction, then) ==
    /\ Ready(step) /\ transaction /\ process' = then
    /\ UNCHANGED <<recovery, gas, token, mishaps, slips>>

Governs ==
    LET p == process.policy IN
    \/ Sends("freeze", registerPolicy, [Advanced EXCEPT !.policy = Len(policies) + 1])
    \/ Sends("create", createRequest(p, "ALLOW"), [Advanced EXCEPT !.request = Len(actionRequests) + 1])
    \/ Sends("ask", AskMachines(process.request), Advanced)
    \/ Sends("stop", stopPolicy(p), Advanced)
    \/ Sends("resume", resumePolicy(p), Advanced)
    \/ Sends("revoke", revokePolicy(p), Advanced)
    \/ Sends("readPolicy", IF NeedsRevoke(p) THEN revokePolicy(p) ELSE UNCHANGED ownerVars, Advanced)

Deposits ==
    /\ Ready("deposit") /\ deposit(DepositAmount)
    /\ token' = [token EXCEPT !["owner"] = @ - DepositAmount]
    /\ process' = Advanced
    /\ UNCHANGED <<recovery, gas, mishaps, slips>>

Pays(r, by) == execute(r, by) /\ token' = [token EXCEPT !["requester"] = @ + 1]

Executes ==
    /\ Ready("execute") /\ Pays(process.request, "run")
    /\ process' = Advanced
    /\ UNCHANGED <<recovery, gas, mishaps, slips>>

Withdraws ==
    /\ Ready("withdraw")
    /\ IF process.amount = 0 THEN UNCHANGED ownerVars ELSE withdraw(process.amount)
    /\ token' = [token EXCEPT !["owner"] = @ + process.amount]
    /\ process' = [Advanced EXCEPT !.after = account']
    /\ UNCHANGED <<recovery, gas, mishaps, slips>>

ReturnTokens(h) ==
    /\ Ready(TokenBackStep[h])
    /\ token' = [token EXCEPT ![h] = @ - process.tokens[h]]
    /\ process' = Advanced
    /\ UNCHANGED <<ownerVars, recovery, gas, mishaps, slips>>

returnNativeGas(h) ==
    /\ Ready(GasBackStep[h]) /\ gas' = [gas EXCEPT ![h] = FALSE]
    /\ process' = Advanced
    /\ UNCHANGED <<ownerVars, recovery, token, mishaps, slips>>

Unlink ==
    /\ Ready("unlink")
    /\ recovery' = "removed" /\ process' = NoProcess
    /\ UNCHANGED <<ownerVars, gas, token, mishaps, slips>>

Throws ==
    /\ process # NoProcess
    /\ ~Proceeds(StepsOf[process.i])
    /\ Doing("answer") => actionRequests[process.request].status # "Pending"
    /\ process' = NoProcess
    /\ UNCHANGED <<ownerVars, recovery, gas, token, mishaps, slips>>

ProcessGoesOn ==
    \/ Read \/ TopUpToken \/ Governs \/ Deposits \/ Executes
    \/ Withdraws \/ Unlink \/ Throws
    \/ \E h \in Holder : TopUpGas(h) \/ ReturnTokens(h) \/ returnNativeGas(h)

-----------------------------------------------------------------------------
(* The others.                                                              *)

\* A read, a transaction or a wait fails, or the process dies.
Dies ==
    /\ process # NoProcess /\ process' = NoProcess /\ Mishap
    /\ UNCHANGED <<ownerVars, recovery, gas, token>>

\* The relay goes on with what it was asked, whoever still waits for it.
RelayDecides(r) == Decide(r, "relay") /\ UNCHANGED multiOwnerVars

\* A request of the running process is not yet expired.
Expires(r) ==
    /\ process.request # r
    /\ End(r) /\ UNCHANGED multiOwnerVars

\* Another executor comes first.
PaysElsewhere(r) ==
    /\ Pays(r, "other") /\ Mishap
    /\ UNCHANGED <<recovery, gas, process>>

MultiOwnerNext ==
    \/ StartRun \/ TearRecovery \/ StartCleanup \/ ProcessGoesOn \/ Dies
    \/ \E r \in DOMAIN actionRequests : RelayDecides(r) \/ Expires(r) \/ PaysElsewhere(r)

multiOwnerAll == <<ownerVars, multiOwnerVars>>

\* A process works until it ends, the operator starts another one as long as
\* the file is there, the relay answers, and somebody expires what is reserved.
MultiOwnerFairness ==
    /\ WF_multiOwnerAll(ProcessGoesOn)
    /\ WF_multiOwnerAll(StartRun /\ ~CanClean)
    /\ WF_multiOwnerAll(StartCleanup /\ process'.policy = Len(policies))
    /\ \A r \in 1..MaxOwnerRequests :
         /\ WF_multiOwnerAll(r \in DOMAIN actionRequests /\ RelayDecides(r))
         /\ WF_multiOwnerAll(r \in DOMAIN actionRequests /\ Expires(r))

MultiOwnerSpec ==
    /\ OwnerInit(0) /\ MultiOwnerInit("absent")
    /\ [][MultiOwnerNext]_multiOwnerAll
    /\ MultiOwnerFairness

-----------------------------------------------------------------------------
(* Properties.                                                              *)

\* An operator who makes no slip never loses the keys while there is something
\* they are needed for: as long as one of the accounts has gas or tokens, or the
\* vault holds something of the owner's, available or reserved, the recovery
\* file is there; whatever run or cleanup died where, and however late the relay
\* decides and others execute and expire requests.
FundsKept ==
    recovery \in {"absent", "torn", "removed"} =>
        /\ \A h \in Holder : ~gas[h] /\ token[h] = 0
        /\ account.available = 0 /\ account.reserved = 0

\* An operator who goes on as the scripts suggest gets everything back in the
\* end: no run or cleanup leaves the accounts where neither of the two works.
FundsComeBack == recovery = "kept" ~> recovery = "removed"
=============================================================================
