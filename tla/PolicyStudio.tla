------------------------------ MODULE PolicyStudio ------------------------------
(***************************************************************************)
(* The policy studio and the live lifecycle of the page: a private draft is    *)
(* compiled to a commitment, three machines take custody of it, its owner       *)
(* registers it, a requester makes a request under a policy, has it evaluated    *)
(* and executes it, the owner stops, resumes or revokes.  One of these runs at a  *)
(* time (liveFccBusy); the studio's form, the wallet's events and the request     *)
(* field can be used meanwhile.                                                  *)
(*                                                                             *)
(* A policy is its owner and its rules: the entropy that makes every compiled     *)
(* draft unique is left out.  The hosted configuration has been fetched.         *)
(***************************************************************************)
EXTENDS RequestDesk

CONSTANT Rules

VARIABLES
    registry,                   \* status of every policy, finalized
    liveSigned,                 \* the lifecycle's transactions
    studioDraft,
    studioRulesReviewed,
    studioCompilation,          \* the policy whose commitment is on the page
    liveFccSession,             \* the policy the machines have in custody
    liveFccPolicyRegistration,
    liveFccPolicyStatus,
    liveFccRequest,
    liveFccEvaluation,
    liveFccExecution,
    delegatedPolicyInput,       \* the commitment in the request form
    delegatedPolicyRead,        \* the policy that was loaded for it
    live                        \* the handler that is running

studioVars == <<studioDraft, studioRulesReviewed, studioCompilation>>
sessionVars == <<liveFccSession, liveFccPolicyRegistration, liveFccPolicyStatus>>
resultVars == <<liveFccRequest, liveFccEvaluation, liveFccExecution>>
delegatedVars == <<delegatedPolicyInput, delegatedPolicyRead>>
liveChainVars == <<registry, liveSigned>>
policyVars == <<liveChainVars, studioVars, sessionVars, resultVars, delegatedVars, live>>

Policy == [owner : Account, rules : Rules]
NoPolicy == [owner |-> NoAccount]
NoRead == [policy |-> NoPolicy, status |-> 0]
Resting == [kind |-> "none"]
NotYet == [id |-> Nothing]

Unregistered == 0
Active == 1
Stopped == 2
Revoked == 3

PolicyInit ==
    /\ registry \in [Policy -> {Unregistered, Active}]
    /\ liveSigned = <<>>
    /\ studioDraft = NoPolicy
    /\ studioRulesReviewed = FALSE
    /\ studioCompilation = NoPolicy
    /\ liveFccSession = NoPolicy
    /\ liveFccPolicyRegistration = NoPolicy
    /\ liveFccPolicyStatus = Unregistered
    /\ liveFccRequest = Nothing
    /\ liveFccEvaluation = NotYet
    /\ liveFccExecution = Nothing
    /\ delegatedPolicyInput = NoPolicy
    /\ delegatedPolicyRead = NoRead
    /\ live = Resting

-----------------------------------------------------------------------------
(* The chain                                                                *)

Target == [STOP |-> Stopped, RESUME |-> Active, REVOKE |-> Revoked]

LivePermits(tx) ==
    CASE tx.kind = "REGISTER" -> registry[tx.policy] = Unregistered /\ tx.account = tx.policy.owner
      [] tx.kind = "STOP" -> registry[tx.policy] = Active /\ tx.account = tx.policy.owner
      [] tx.kind = "RESUME" -> registry[tx.policy] = Stopped /\ tx.account = tx.policy.owner
      [] tx.kind = "REVOKE" -> registry[tx.policy] \in {Active, Stopped} /\ tx.account = tx.policy.owner
      [] tx.kind = "REQUEST" -> registry[tx.policy] = Active /\ router[tx.id] = "NONE" /\ clock <= expiry
      [] tx.kind = "TRANSFER" -> RouterPermits("EXECUTE", tx.id, tx.account)

LiveHappens(tx) ==
    CASE tx.kind = "REGISTER" ->
            registry' = [registry EXCEPT ![tx.policy] = Active] /\ UNCHANGED <<router, parties>>
      [] tx.kind \in DOMAIN Target ->
            registry' = [registry EXCEPT ![tx.policy] = Target[tx.kind]] /\ UNCHANGED <<router, parties>>
      [] tx.kind = "REQUEST" ->
            /\ router' = [router EXCEPT ![tx.id] = "PENDING"]
            /\ parties' = [parties EXCEPT ![tx.id] = {tx.account, tx.policy.owner}]
            /\ UNCHANGED registry
      [] tx.kind = "TRANSFER" ->
            router' = [router EXCEPT ![tx.id] = "EXECUTED"] /\ UNCHANGED <<registry, parties>>

MineLive ==
    /\ \E i \in DOMAIN liveSigned :
          /\ liveSigned[i].state = "pending"
          /\ IF LivePermits(liveSigned[i])
             THEN LiveHappens(liveSigned[i]) /\ liveSigned' = [liveSigned EXCEPT ![i].state = "final"]
             ELSE /\ liveSigned' = [liveSigned EXCEPT ![i].state = "reverted"]
                  /\ UNCHANGED <<registry, router, parties>>
    /\ UNCHANGED <<clock, sent, lookupVars, controlVars, deskOperations, studioVars, sessionVars,
                   resultVars, delegatedVars, live>>

-----------------------------------------------------------------------------
(* The studio                                                               *)

\* Custody and all that followed from it are forgotten.
resetLiveFccPolicySession ==
    /\ liveFccSession' = NoPolicy
    /\ liveFccPolicyRegistration' = NoPolicy
    /\ liveFccPolicyStatus' = Unregistered
    /\ liveFccRequest' = Nothing
    /\ liveFccEvaluation' = NotYet
    /\ liveFccExecution' = Nothing

FreshDraft(draft) ==
    /\ studioDraft' = draft
    /\ studioCompilation' = NoPolicy
    /\ studioRulesReviewed' = FALSE
    /\ resetLiveFccPolicySession

\* A template, the live template or the connected account as the owner.
selectTemplate ==
    /\ \E rules \in Rules : FreshDraft([owner |-> connectedAccount, rules |-> rules])
    /\ UNCHANGED <<liveChainVars, delegatedVars, live>>

\* Without an account the button connects one instead.
rebindStudioOwner ==
    /\ studioDraft # NoPolicy
    /\ connectedAccount # NoAccount
    /\ FreshDraft([studioDraft EXCEPT !.owner = connectedAccount])
    /\ UNCHANGED <<liveChainVars, delegatedVars, live>>

\* The form of a chosen template: a commitment on the page is taken back, and
\* the session with it.
DraftEdited ==
    /\ studioDraft # NoPolicy
    /\ \E rules \in Rules : studioDraft' = [studioDraft EXCEPT !.rules = rules]
    /\ studioRulesReviewed' = FALSE
    /\ studioCompilation' = NoPolicy
    /\ IF studioCompilation # NoPolicy
       THEN resetLiveFccPolicySession
       ELSE UNCHANGED <<sessionVars, resultVars>>
    /\ UNCHANGED <<liveChainVars, delegatedVars, live>>

\* A draft without an owner is not valid; the rules are.
validateStudioDraft == studioDraft.owner # NoAccount

\* The rules are submitted for review.
advanceStudioRules ==
    /\ studioDraft # NoPolicy
    /\ studioRulesReviewed' = validateStudioDraft
    /\ studioCompilation' = NoPolicy
    /\ UNCHANGED <<studioDraft, liveChainVars, sessionVars, resultVars, delegatedVars, live>>

\* Only a valid draft compiles; a policy is what its owner and rules say.
compileStudioDraft == validateStudioDraft /\ studioCompilation' = studioDraft

computeStudioAndActivate ==
    /\ studioRulesReviewed
    /\ compileStudioDraft
    /\ UNCHANGED <<studioDraft, studioRulesReviewed, liveChainVars, sessionVars, resultVars,
                   delegatedVars, live>>

\* The part of walletChanged that concerns the studio; the running handler
\* goes on.
StudioDiscarded ==
    /\ FreshDraft(NoPolicy)
    /\ UNCHANGED <<liveChainVars, delegatedVars, live>>

-----------------------------------------------------------------------------
(* The handlers of the lifecycle                                            *)

\* A handler starts when no other runs, in a connected session, and keeps
\* what it reads then.
Starts(kind, policy, id, shown) ==
    /\ live = Resting
    /\ Connected
    /\ live' = [kind |-> kind, at |-> "prompt", account |-> walletState.account,
                policy |-> policy, id |-> id, tx |-> 0, shown |-> shown]
    /\ UNCHANGED <<liveChainVars, studioVars, sessionVars, resultVars, delegatedVars>>

OwnerMatches == studioCompilation # NoPolicy /\ studioCompilation.owner = connectedAccount

submitLiveFccCustody ==
    /\ OwnerMatches
    /\ liveFccSession = NoPolicy
    /\ Starts("CUSTODY", studioCompilation, Nothing, studioCompilation)

\* What is registered is the session; what is on the page is the compilation.
submitLiveFccPolicyRegistration ==
    /\ OwnerMatches
    /\ liveFccSession # NoPolicy
    /\ liveFccPolicyRegistration = NoPolicy
    /\ walletState.account = liveFccSession.owner
    /\ Starts("REGISTER", liveFccSession, Nothing, studioCompilation)

submitLiveFccGovernance(action) ==
    /\ OwnerMatches
    /\ liveFccSession # NoPolicy
    /\ liveFccPolicyRegistration # NoPolicy
    /\ action \in (IF liveFccPolicyStatus = Active THEN {"STOP", "REVOKE"}
                   ELSE IF liveFccPolicyStatus = Stopped THEN {"RESUME", "REVOKE"} ELSE {})
    /\ Starts(action, liveFccSession, Nothing, studioCompilation)

DelegatedField ==
    IF delegatedPolicyInput # NoPolicy THEN delegatedPolicyInput ELSE liveFccSession

loadDelegatedPolicyForRequest ==
    /\ liveFccRequest = Nothing
    /\ delegatedPolicyInput # NoPolicy
    /\ live = Resting
    /\ live' = [kind |-> "LOAD", at |-> "read", account |-> connectedAccount,
                policy |-> delegatedPolicyInput, id |-> Nothing, tx |-> 0,
                shown |-> delegatedPolicyInput]
    /\ UNCHANGED <<liveChainVars, studioVars, sessionVars, resultVars, delegatedVars>>

\* The request's identifier is fresh.
submitLiveFccRequest ==
    /\ liveFccRequest = Nothing
    /\ delegatedPolicyRead.status = Active
    /\ \E r \in Request :
          /\ router[r] = "NONE"
          /\ \A i \in DOMAIN liveSigned : liveSigned[i].id # r
          /\ Starts("REQUEST", delegatedPolicyRead.policy, r, DelegatedField)

\* Only the account that made the request may ask for its evaluation.
submitLiveFccEvaluation ==
    /\ liveFccRequest # Nothing
    /\ liveFccEvaluation = NotYet
    /\ \E i \in DOMAIN liveSigned :
          /\ liveSigned[i].kind = "REQUEST"
          /\ liveSigned[i].id = liveFccRequest
          /\ liveSigned[i].account = connectedAccount
    /\ Starts("EVALUATE", NoPolicy, liveFccRequest, NoPolicy)

submitLiveFccExecution ==
    /\ liveFccRequest # Nothing
    /\ liveFccEvaluation # NotYet
    /\ liveFccEvaluation.decision = "ALLOW"
    /\ liveFccExecution = Nothing
    /\ router[liveFccRequest] = "ALLOWED"
    /\ Starts("TRANSFER", NoPolicy, liveFccRequest, NoPolicy)

Continues(at) == live' = [live EXCEPT !.at = at]

Transacting == live.kind \in {"REGISTER", "REQUEST", "TRANSFER"} \cup DOMAIN Target

\* Simulated, confirmed in the wallet, broadcast.
LiveTransactionSigned ==
    LET tx == [kind |-> live.kind, policy |-> live.policy, id |-> live.id,
               account |-> live.account, state |-> "pending"] IN
    /\ live # Resting
    /\ Transacting
    /\ live.at = "prompt"
    /\ provider.chain = "coston2"
    /\ LivePermits(tx)
    /\ liveSigned' = Append(liveSigned, tx)
    /\ live' = [live EXCEPT !.at = "receipt", !.tx = Len(liveSigned) + 1]
    /\ UNCHANGED <<registry, studioVars, sessionVars, resultVars, delegatedVars>>

\* Three authorizations signed, three receipts verified.
collectLiveCustody ==
    /\ live.kind = "CUSTODY"
    /\ liveFccSession' = live.policy
    /\ liveFccPolicyRegistration' = NoPolicy
    /\ liveFccPolicyStatus' = Unregistered
    /\ liveFccRequest' = Nothing
    /\ liveFccEvaluation' = NotYet
    /\ liveFccExecution' = Nothing
    /\ live' = Resting
    /\ UNCHANGED <<liveChainVars, studioVars, delegatedVars>>

Mined == live # Resting /\ live.at = "receipt" /\ liveSigned[live.tx].state = "final"

\* The session may be gone by now; then nothing is asserted, and so it is if it
\* goes while the policy is read back.
registerLivePolicy ==
    /\ live.kind = "REGISTER"
    /\ Mined
    /\ registry[live.policy] = Active
    /\ IF liveFccSession # NoPolicy
       THEN /\ liveFccPolicyRegistration' = live.policy
            /\ liveFccPolicyStatus' = Active
            /\ delegatedPolicyInput' = liveFccSession
            /\ Continues("read")
       ELSE /\ liveFccPolicyRegistration' = NoPolicy
            /\ liveFccPolicyStatus' = Unregistered
            /\ live' = Resting
            /\ UNCHANGED delegatedPolicyInput
    /\ UNCHANGED <<liveChainVars, studioVars, liveFccSession, resultVars, delegatedPolicyRead>>

\* Read back; with the registration still there, the account is read again.
PolicyReadBack ==
    /\ live.kind = "REGISTER"
    /\ live.at = "read"
    /\ delegatedPolicyRead' = [policy |-> live.policy, status |-> registry[live.policy]]
    /\ IF liveFccPolicyRegistration # NoPolicy
       THEN /\ Continues("settle")
            /\ UNCHANGED liveFccPolicyStatus
            /\ refreshCoston2State
       ELSE /\ live' = Resting
            /\ liveFccPolicyStatus' = Unregistered
            /\ UNCHANGED walletVars
    /\ UNCHANGED <<liveChainVars, studioVars, liveFccSession, liveFccPolicyRegistration, resultVars,
                   delegatedPolicyInput>>

governLivePolicy ==
    /\ live.kind \in DOMAIN Target
    /\ Mined
    /\ registry[live.policy] = Target[live.kind]
    /\ IF liveFccSession # NoPolicy THEN Continues("read") ELSE live' = Resting
    /\ UNCHANGED <<liveChainVars, studioVars, sessionVars, resultVars, delegatedVars>>

loadLivePolicyStatus ==
    /\ live.kind \in DOMAIN Target
    /\ live.at = "read"
    /\ liveFccPolicyStatus' = registry[live.policy]
    /\ live' = Resting
    /\ UNCHANGED <<liveChainVars, studioVars, liveFccSession, liveFccPolicyRegistration, resultVars,
                   delegatedVars>>

\* The answer is for the commitment that was in the field at the click.
loadLivePolicy ==
    /\ live.kind = "LOAD"
    /\ delegatedPolicyRead' = IF registry[live.policy] = Unregistered THEN NoRead
                              ELSE [policy |-> live.policy, status |-> registry[live.policy]]
    /\ live' = Resting
    /\ UNCHANGED <<liveChainVars, studioVars, sessionVars, resultVars, delegatedPolicyInput>>

CommitmentTyped ==
    /\ liveFccRequest = Nothing
    /\ delegatedPolicyInput' \in Policy
    /\ delegatedPolicyRead' = NoRead
    /\ UNCHANGED <<liveChainVars, studioVars, sessionVars, resultVars, live>>

openDelegatedPolicy ==
    /\ liveFccSession # NoPolicy
    /\ delegatedPolicyInput' = liveFccSession
    /\ UNCHANGED <<liveChainVars, studioVars, sessionVars, resultVars, delegatedPolicyRead, live>>

\* A mutant: the decision stays.
ResultsCleared_NotEvaluation == liveFccExecution' = Nothing /\ UNCHANGED liveFccEvaluation

\* The results of the request before are dropped with its successor's arrival.
ResultsCleared == liveFccEvaluation' = NotYet /\ liveFccExecution' = Nothing

createDelegatedLiveRequest ==
    /\ live.kind = "REQUEST"
    /\ Mined
    /\ router[live.id] = "PENDING"
    /\ liveFccRequest' = live.id
    /\ requestInput' = live.id
    /\ ResultsCleared
    /\ refreshPublicRequest(live.id)
    /\ Continues("settle")
    /\ UNCHANGED <<routerVars, sent, deskOperations, liveChainVars, studioVars, sessionVars,
                   delegatedVars>>

\* The relay evaluates the request, or finds it evaluated.
RelayEvaluates ==
    /\ live.kind = "EVALUATE"
    /\ live.at = "prompt"
    /\ router[live.id] \in {"PENDING", "ALLOWED", "DENIED", "EXECUTED"}
    /\ \E status \in (IF router[live.id] # "PENDING" THEN {router[live.id]}
                      ELSE IF clock <= approvedExpiry THEN {"ALLOWED", "DENIED"} ELSE {}) :
          router' = [router EXCEPT ![live.id] = status]
    /\ Continues("answer")
    /\ UNCHANGED <<parties, clock, sent, lookupVars, controlVars, deskOperations, liveChainVars,
                   studioVars, sessionVars, resultVars, delegatedVars>>

evaluateLiveRequest ==
    /\ live.kind = "EVALUATE"
    /\ live.at = "answer"
    /\ liveFccEvaluation' = [id |-> live.id,
                             decision |-> IF router[live.id] = "DENIED" THEN "DENY" ELSE "ALLOW"]
    /\ Continues("reread")
    /\ refreshCoston2State
    /\ UNCHANGED <<liveChainVars, studioVars, sessionVars, liveFccRequest, liveFccExecution,
                   delegatedVars>>

executeLiveRequest ==
    /\ live.kind = "TRANSFER"
    /\ Mined
    /\ router[live.id] = "EXECUTED"
    /\ liveFccExecution' = live.id
    /\ Continues("reread")
    /\ refreshCoston2State
    /\ UNCHANGED <<liveChainVars, studioVars, sessionVars, liveFccRequest, liveFccEvaluation,
                   delegatedVars>>

\* After the account has been read again, the request is looked up again.
RequestReread ==
    /\ live # Resting
    /\ live.at = "reread"
    /\ refreshPublicRequest(requestInput)
    /\ Continues("settle")
    /\ UNCHANGED <<routerVars, sent, requestInput, deskOperations, liveChainVars, studioVars,
                   sessionVars, resultVars, delegatedVars>>

Settled ==
    /\ live # Resting
    /\ live.at = "settle"
    /\ live' = Resting
    /\ UNCHANGED <<liveChainVars, studioVars, sessionVars, resultVars, delegatedVars>>

resetLiveFccRequest ==
    /\ live = Resting
    /\ liveFccRequest # Nothing
    /\ liveFccEvaluation # NotYet
    /\ liveFccRequest' = Nothing
    /\ liveFccEvaluation' = NotYet
    /\ liveFccExecution' = Nothing
    /\ UNCHANGED <<liveChainVars, studioVars, sessionVars, delegatedVars, live>>

\* The catch of every handler: nothing is asserted.
LiveFails ==
    /\ live # Resting
    /\ live.at \notin {"settle", "reread"}
    /\ live' = Resting
    /\ liveFccSession' = IF live.kind = "CUSTODY" THEN NoPolicy ELSE liveFccSession
    /\ IF live.kind = "REGISTER"
       THEN liveFccPolicyRegistration' = NoPolicy /\ liveFccPolicyStatus' = Unregistered
       ELSE UNCHANGED <<liveFccPolicyRegistration, liveFccPolicyStatus>>
    /\ liveFccRequest' = IF live.kind = "REQUEST" THEN Nothing ELSE liveFccRequest
    /\ liveFccEvaluation' = IF live.kind = "EVALUATE" THEN NotYet ELSE liveFccEvaluation
    /\ liveFccExecution' = IF live.kind = "TRANSFER" THEN Nothing ELSE liveFccExecution
    /\ delegatedPolicyRead' = IF live.kind = "LOAD" THEN NoRead ELSE delegatedPolicyRead
    /\ UNCHANGED <<liveChainVars, studioVars, delegatedPolicyInput>>

\* The owner's half: from the draft to the governance of a registered policy.
OwnerStep ==
    \/ selectTemplate
    \/ rebindStudioOwner
    \/ DraftEdited
    \/ advanceStudioRules
    \/ computeStudioAndActivate
    \/ submitLiveFccCustody
    \/ submitLiveFccPolicyRegistration
    \/ \E action \in DOMAIN Target : submitLiveFccGovernance(action)
    \/ collectLiveCustody
    \/ registerLivePolicy
    \/ governLivePolicy
    \/ loadLivePolicyStatus

\* The requester's half; a template may be chosen in between.
RequesterStep ==
    \/ selectTemplate
    \/ openDelegatedPolicy
    \/ CommitmentTyped
    \/ loadDelegatedPolicyForRequest
    \/ loadLivePolicy
    \/ submitLiveFccRequest
    \/ submitLiveFccEvaluation
    \/ submitLiveFccExecution
    \/ resetLiveFccRequest

LiveStep == LiveTransactionSigned \/ Settled \/ LiveFails

\* Steps that also look a request up or move the router.
LiveDeskStep ==
    \/ MineLive
    \/ createDelegatedLiveRequest
    \/ RelayEvaluates
    \/ RequestReread

\* Steps that read the account again.
LiveWalletStep ==
    \/ PolicyReadBack
    \/ evaluateLiveRequest
    \/ executeLiveRequest

-----------------------------------------------------------------------------
(* Properties                                                               *)

\* The page shows a policy as registered only if the one in custody is, also
\* when the draft, the account or the session changed while the registration
\* was signed, mined or read back.
RegisteredIsOnChain ==
    liveFccPolicyRegistration # NoPolicy =>
        /\ liveFccSession = liveFccPolicyRegistration
        /\ registry[liveFccPolicyRegistration] # Unregistered

\* The decision and the execution shown with a request are its own and are
\* what the router says, although answers arrive after a reset and requests
\* follow each other.
ResultsBelongToRequest ==
    liveFccRequest # Nothing =>
        /\ liveFccEvaluation # NotYet =>
              /\ liveFccEvaluation.id = liveFccRequest
              /\ (liveFccEvaluation.decision = "DENY") = (router[liveFccRequest] = "DENIED")
        /\ liveFccExecution # Nothing =>
              liveFccExecution = liveFccRequest /\ router[liveFccRequest] = "EXECUTED"

\* What the page says of policies and requests is so.
ResultsAreTheirOwn == RegisteredIsOnChain /\ ResultsBelongToRequest

\* What the user confirms is what the page shows at the click: the registered
\* policy is the one whose commitment is displayed, the request is made under
\* the policy of the form.
CommitmentIsSigned ==
    (live # Resting /\ live.kind \in {"REGISTER", "REQUEST"}) => live.policy = live.shown
===============================================================================
