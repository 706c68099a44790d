----------------------------- MODULE OwnerAccount -----------------------------
(***************************************************************************)
(* The contracts as the lifecycle scripts of tooling/ meet them: the vault   *)
(* account of one owner in one asset, that owner's policies, and their       *)
(* requests, which others evaluate, execute, cancel and expire too.          *)
(* PayGuardVault, PayGuardPolicyRegistryV2 and PayGuardActionRouter model    *)
(* the contracts themselves.                                                 *)
(***************************************************************************)
EXTENDS Integers, Sequences, FiniteSets

CONSTANTS
    MaxOwnerPolicies,   \* bounds: policies and requests of the owner
    MaxOwnerRequests

ASSUME OwnerAccountAssumption == {MaxOwnerPolicies, MaxOwnerRequests} \subseteq Nat

VARIABLES
    account,          \* the vault's record of the owner, in units of one request's amount
    policies,         \* policies[p]: "Active", "Stopped" or "Revoked"
    actionRequests    \* actionRequests[r]: [policy, verdict, asked, status, decidedBy, executedBy]

ownerVars == <<account, policies, actionRequests>>

NoAccount == [deposited |-> 0, available |-> 0, reserved |-> 0, spent |-> 0, withdrawn |-> 0]

OwnerInit(available) ==
    /\ account = [NoAccount EXCEPT !.deposited = available, !.available = available]
    /\ policies = <<>> /\ actionRequests = <<>>

deposit(amount) ==
    /\ account' = [account EXCEPT !.deposited = @ + amount, !.available = @ + amount]
    /\ UNCHANGED <<policies, actionRequests>>

withdraw(amount) ==
    /\ amount > 0 /\ account.available >= amount
    /\ account' = [account EXCEPT !.available = @ - amount, !.withdrawn = @ + amount]
    /\ UNCHANGED <<policies, actionRequests>>

registerPolicy ==
    /\ Len(policies) < MaxOwnerPolicies
    /\ policies' = Append(policies, "Active")
    /\ UNCHANGED <<account, actionRequests>>

\* stopPolicy, resumePolicy and revokePolicy.
Moves(p, from, to) ==
    /\ policies[p] \in from /\ policies' = [policies EXCEPT ![p] = to]
    /\ UNCHANGED <<account, actionRequests>>

stopPolicy(p) == Moves(p, {"Active"}, "Stopped")
resumePolicy(p) == Moves(p, {"Stopped"}, "Active")
revokePolicy(p) == Moves(p, {"Active", "Stopped"}, "Revoked")

\* The verdict is what the policy's machines say of the request.
createRequest(p, verdict) ==
    /\ policies[p] = "Active" /\ Len(actionRequests) < MaxOwnerRequests
    /\ actionRequests' = Append(actionRequests, [policy |-> p, verdict |-> verdict, asked |-> FALSE,
                                                 status |-> "Pending", decidedBy |-> "", executedBy |-> ""])
    /\ UNCHANGED <<account, policies>>

\* The machines are asked, and answer whoever fetches their results.
AskMachines(r) ==
    /\ actionRequests[r].status = "Pending"
    /\ actionRequests' = [actionRequests EXCEPT ![r].asked = TRUE]
    /\ UNCHANGED <<account, policies>>

\* The second of two matching submissions.
submitEvaluation(r, by) ==
    LET allow == actionRequests[r].verdict = "ALLOW" IN
    /\ actionRequests[r].status = "Pending"
    /\ policies[actionRequests[r].policy] = "Active"
    /\ allow => account.available > 0
    /\ actionRequests' = [actionRequests EXCEPT
                             ![r].status = IF allow THEN "Allowed" ELSE "Denied", ![r].decidedBy = by]
    /\ account' = IF allow THEN [account EXCEPT !.available = @ - 1, !.reserved = @ + 1] ELSE account
    /\ UNCHANGED policies

\* Of what the machines answered.
Decide(r, by) == actionRequests[r].asked /\ submitEvaluation(r, by)

\* A revoked policy's reserved request can still be executed.
execute(r, by) ==
    /\ actionRequests[r].status = "Allowed"
    /\ actionRequests' = [actionRequests EXCEPT ![r].status = "Executed", ![r].executedBy = by]
    /\ account' = [account EXCEPT !.reserved = @ - 1, !.spent = @ + 1]
    /\ UNCHANGED policies

\* expire, or cancel by its requester or the owner.
End(r) ==
    /\ actionRequests[r].status \in {"Pending", "Allowed"}
    /\ actionRequests' = [actionRequests EXCEPT ![r].status = "Ended"]
    /\ account' = IF actionRequests[r].status = "Allowed"
                  THEN [account EXCEPT !.available = @ + 1, !.reserved = @ - 1] ELSE account
    /\ UNCHANGED policies

-----------------------------------------------------------------------------
(* sameAccounting of two readings, and the requests that a reading includes. *)

Executed == {r \in DOMAIN actionRequests : actionRequests[r].status = "Executed"}

Reading == [accounting |-> account, includes |-> Executed]

sameAccounting(before, after) == before.accounting = after.accounting
=============================================================================
