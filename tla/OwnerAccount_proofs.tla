------------------------- MODULE OwnerAccount_proofs -------------------------
(***************************************************************************)
(* Proofs about the two kinds of script that run against an owner's        *)
(* contracts, for any number of policies, requests, mishaps and payments   *)
(* made elsewhere: the multi-owner script keeps its recovery file until    *)
(* everything it funded is back, and what a lifecycle script publishes as  *)
(* evidence happened on the chain, and was its own doing.                  *)
(***************************************************************************)
EXTENDS MultiOwnerRun, LifecycleRun, TLAPS, FiniteSetTheorems, SequenceTheorems

-----------------------------------------------------------------------------
(* The order of the multi-owner script's steps.                             *)

\* Where a run's steps are.
LEMMA RunStepsAre ==
    ASSUME NEW i \in 1..29
    PROVE  /\ runSteps[i] = "gas owner" => i = 1
           /\ runSteps[i] = "gas requester" => i = 2
           /\ runSteps[i] = "token" => i = 3
           /\ runSteps[i] = "freeze" => i = 4
           /\ runSteps[i] = "deposit" => i = 6
           /\ runSteps[i] = "before" => i = 7
           /\ runSteps[i] = "create" => i = 8
           /\ runSteps[i] = "ask" => i = 10
           /\ runSteps[i] = "execute" => i = 13
           /\ runSteps[i] = "after" => i = 14
           /\ runSteps[i] = "stop" => i = 19
           /\ runSteps[i] = "resume" => i = 21
           /\ runSteps[i] = "revoke" => i = 22
           /\ runSteps[i] = "withdraw" => i = 23
           /\ runSteps[i] = "readTokens" => i = 24
           /\ runSteps[i] = "token back owner" => i = 25
           /\ runSteps[i] = "token back requester" => i = 26
           /\ runSteps[i] = "gas back owner" => i = 27
           /\ runSteps[i] = "gas back requester" => i = 28
           /\ runSteps[i] = "unlink" => i = 29
           /\ runSteps[i] # "readPolicy" /\ runSteps[i] # "readAccount"
           /\ runSteps[i] = "answer" => i = 11
           /\ runSteps[i] = "afterDenials" => i = 18
<1>1. /\ runSteps[1] = "gas owner" /\ runSteps[2] = "gas requester" /\ runSteps[3] = "token"
      /\ runSteps[4] = "freeze" /\ runSteps[5] = "probe" /\ runSteps[6] = "deposit"
      /\ runSteps[7] = "before" /\ runSteps[8] = "create" /\ runSteps[9] = "refusals"
      /\ runSteps[10] = "ask" /\ runSteps[11] = "answer" /\ runSteps[12] = "repeat"
      /\ runSteps[13] = "execute" /\ runSteps[14] = "after" /\ runSteps[15] = "denial"
      /\ runSteps[16] = "denial" /\ runSteps[17] = "denial" /\ runSteps[18] = "afterDenials"
      /\ runSteps[19] = "stop" /\ runSteps[20] = "probe" /\ runSteps[21] = "resume"
      /\ runSteps[22] = "revoke" /\ runSteps[23] = "withdraw" /\ runSteps[24] = "readTokens"
      /\ runSteps[25] = "token back owner" /\ runSteps[26] = "token back requester"
      /\ runSteps[27] = "gas back owner" /\ runSteps[28] = "gas back requester"
      /\ runSteps[29] = "unlink"
  BY DEF runSteps
<1>3. CASE i = 1 \/ i = 2 \/ i = 3 \/ i = 4 \/ i = 5 \/ i = 6 \/ i = 7 \/ i = 8
  BY <1>1, <1>3
<1>4. CASE i = 9 \/ i = 10 \/ i = 11 \/ i = 12 \/ i = 13 \/ i = 14 \/ i = 15
  BY <1>1, <1>4
<1>5. CASE i = 16 \/ i = 17 \/ i = 18 \/ i = 19 \/ i = 20 \/ i = 21 \/ i = 22
  BY <1>1, <1>5
<1>6. CASE i = 23 \/ i = 24 \/ i = 25 \/ i = 26 \/ i = 27 \/ i = 28 \/ i = 29
  BY <1>1, <1>6
<1>2. \/ i = 1 \/ i = 2 \/ i = 3 \/ i = 4 \/ i = 5 \/ i = 6 \/ i = 7 \/ i = 8 \/ i = 9 \/ i = 10
      \/ i = 11 \/ i = 12 \/ i = 13 \/ i = 14 \/ i = 15 \/ i = 16 \/ i = 17 \/ i = 18 \/ i = 19
      \/ i = 20 \/ i = 21 \/ i = 22 \/ i = 23 \/ i = 24 \/ i = 25 \/ i = 26 \/ i = 27 \/ i = 28
      \/ i = 29
  OBVIOUS
<1> QED  BY <1>2, <1>3, <1>4, <1>5, <1>6, Zenon

LEMMA CleanupStepsAre ==
    ASSUME NEW i \in 1..10
    PROVE  /\ cleanupSteps[i] = "readPolicy" => i = 1
           /\ cleanupSteps[i] = "readAccount" => i = 2
           /\ cleanupSteps[i] = "withdraw" => i = 3
           /\ cleanupSteps[i] = "readTokens" => i \in {4, 6}
           /\ cleanupSteps[i] = "token back owner" => i = 5
           /\ cleanupSteps[i] = "token back requester" => i = 7
           /\ cleanupSteps[i] = "gas back owner" => i = 8
           /\ cleanupSteps[i] = "gas back requester" => i = 9
           /\ cleanupSteps[i] = "unlink" => i = 10
           /\ cleanupSteps[i] \in {"readPolicy", "readAccount", "withdraw", "readTokens",
                                   "token back owner", "token back requester", "gas back owner",
                                   "gas back requester", "unlink"}
<1>1. \/ i = 1 \/ i = 2 \/ i = 3 \/ i = 4 \/ i = 5 \/ i = 6 \/ i = 7 \/ i = 8 \/ i = 9 \/ i = 10
  OBVIOUS
<1>2. /\ cleanupSteps[1] = "readPolicy" /\ cleanupSteps[2] = "readAccount"
      /\ cleanupSteps[3] = "withdraw" /\ cleanupSteps[4] = "readTokens"
      /\ cleanupSteps[5] = "token back owner" /\ cleanupSteps[6] = "readTokens"
      /\ cleanupSteps[7] = "token back requester" /\ cleanupSteps[8] = "gas back owner"
      /\ cleanupSteps[9] = "gas back requester" /\ cleanupSteps[10] = "unlink"
  BY DEF cleanupSteps
<1> QED  BY <1>1, <1>2

\* The steps that only look are none of those that change anything.
LEMMA RunLooksAt ==
    ASSUME NEW i \in 1..29,
           runSteps[i] \in {"probe", "refusals", "repeat", "denial", "answer", "afterDenials"}
    PROVE  i \in 5..20 /\ i \notin {8, 13, 14}
<1>1. \/ runSteps[i] = "probe" \/ runSteps[i] = "refusals" \/ runSteps[i] = "repeat"
      \/ runSteps[i] = "denial" \/ runSteps[i] = "answer" \/ runSteps[i] = "afterDenials"
  OBVIOUS
<1>2. runSteps[1] = "gas owner" /\ runSteps[2] = "gas requester" /\ runSteps[3] = "token"
      /\ runSteps[4] = "freeze" /\ runSteps[8] = "create" /\ runSteps[13] = "execute"
      /\ runSteps[14] = "after"
  BY DEF runSteps
<1>3. /\ runSteps[21] = "resume" /\ runSteps[22] = "revoke" /\ runSteps[23] = "withdraw"
      /\ runSteps[24] = "readTokens" /\ runSteps[25] = "token back owner"
      /\ runSteps[26] = "token back requester" /\ runSteps[27] = "gas back owner"
      /\ runSteps[28] = "gas back requester" /\ runSteps[29] = "unlink"
  BY DEF runSteps
<1>4. /\ i # 1 /\ i # 2 /\ i # 3 /\ i # 4 /\ i # 8 /\ i # 13 /\ i # 14
      /\ i # 21 /\ i # 22 /\ i # 23 /\ i # 24 /\ i # 25 /\ i # 26 /\ i # 27 /\ i # 28 /\ i # 29
  BY <1>1, <1>2, <1>3
<1> QED  BY <1>4

-----------------------------------------------------------------------------
(* The owner's contracts.                                                   *)

RequestStatus == {"Pending", "Allowed", "Denied", "Executed", "Ended"}

Allowed == {r \in DOMAIN actionRequests : actionRequests[r].status = "Allowed"}

Party == {"", "run", "relay", "other"}

ActionRequest ==
    [policy: Nat, verdict: {"ALLOW", "DENY"}, asked: BOOLEAN, status: RequestStatus, decidedBy: Party,
     executedBy: Party]

\* What is reserved is reserved for the requests that are allowed, and what is
\* spent was spent on those that are executed.
OwnerInv ==
    /\ DOMAIN account = {"deposited", "available", "reserved", "spent", "withdrawn"}
    /\ account.available \in Nat /\ account.spent \in Nat
    /\ policies \in Seq({"Active", "Stopped", "Revoked"})
    /\ actionRequests \in Seq(ActionRequest)
    /\ \A r \in DOMAIN actionRequests : actionRequests[r].policy \in DOMAIN policies
    /\ account.reserved = Cardinality(Allowed) /\ account.spent = Cardinality(Executed)

LEMMA AllowedIsFinite ==
    ASSUME OwnerInv
    PROVE  /\ IsFiniteSet(Allowed) /\ account.reserved \in Nat
           /\ IsFiniteSet(Executed)
<1>1. DOMAIN actionRequests = 1..Len(actionRequests) /\ Len(actionRequests) \in Nat
  BY DEF OwnerInv
<1>2. IsFiniteSet(DOMAIN actionRequests)
  BY <1>1, FS_Interval
<1>3. Allowed \subseteq DOMAIN actionRequests /\ Executed \subseteq DOMAIN actionRequests
  BY DEF Allowed, Executed
<1>4. IsFiniteSet(Allowed) /\ IsFiniteSet(Executed)  BY <1>2, <1>3, FS_Subset
<1> QED  BY <1>4, FS_CardinalityType DEF OwnerInv

LEMMA NothingReserved ==
    ASSUME OwnerInv
    PROVE  account.reserved = 0 <=> Allowed = {}
BY AllowedIsFinite, FS_EmptySet DEF OwnerInv

\* The status of one request moves, and the account with it.
LEMMA StatusMoves ==
    ASSUME OwnerInv, NEW r \in DOMAIN actionRequests, NEW to \in RequestStatus,
           DOMAIN actionRequests' = DOMAIN actionRequests,
           actionRequests'[r].status = to,
           \A q \in DOMAIN actionRequests : q # r => actionRequests'[q] = actionRequests[q],
           account'.reserved = account.reserved
               + (IF to = "Allowed" THEN 1 ELSE 0)
               - (IF actionRequests[r].status = "Allowed" THEN 1 ELSE 0),
           actionRequests[r].status # "Executed",
           account'.spent = account.spent + (IF to = "Executed" THEN 1 ELSE 0)
    PROVE  /\ account'.reserved = Cardinality(Allowed')
           /\ account'.spent = Cardinality(Executed')
           /\ Allowed' = (IF to = "Allowed" THEN Allowed \cup {r} ELSE Allowed \ {r})
<1>1. Allowed' = (IF to = "Allowed" THEN Allowed \cup {r} ELSE Allowed \ {r})
  BY DEF Allowed
<1>2. r \in Allowed <=> actionRequests[r].status = "Allowed"
  BY DEF Allowed
<1>3. /\ Cardinality(Allowed \cup {r}) = (IF r \in Allowed THEN Cardinality(Allowed)
                                        ELSE Cardinality(Allowed) + 1)
      /\ Cardinality(Allowed \ {r}) = (IF r \in Allowed THEN Cardinality(Allowed) - 1
                                      ELSE Cardinality(Allowed))
  BY AllowedIsFinite, FS_AddElement, FS_RemoveElement
<1>4. Cardinality(Allowed) \in Nat /\ account.reserved = Cardinality(Allowed)
  BY AllowedIsFinite DEF OwnerInv
<1>5. account'.reserved = Cardinality(Allowed')
  BY <1>1, <1>2, <1>3, <1>4
<1>6. Executed' = (IF to = "Executed" THEN Executed \cup {r} ELSE Executed) /\ r \notin Executed
  BY DEF Executed
<1>7. Cardinality(Executed \cup {r}) = Cardinality(Executed) + 1
  BY <1>6, AllowedIsFinite, FS_AddElement
<1> QED  BY <1>1, <1>5, <1>6, <1>7 DEF OwnerInv

Fields == {"deposited", "available", "reserved", "spent", "withdrawn"}

LEMMA DepositKeeps ==
    ASSUME OwnerInv, NEW amount \in Nat, deposit(amount)
    PROVE  /\ OwnerInv' /\ Allowed' = Allowed /\ UNCHANGED <<policies, actionRequests>>
           /\ account'.available = account.available + amount
<1>1. /\ DOMAIN account' = DOMAIN account /\ account'.reserved = account.reserved
      /\ account'.spent = account.spent /\ account'.available = account.available + amount
      /\ UNCHANGED <<policies, actionRequests>>
  BY DEF deposit, OwnerInv
<1> QED  BY <1>1 DEF OwnerInv, Allowed, Executed

LEMMA WithdrawalKeeps ==
    ASSUME OwnerInv, NEW amount \in Nat, withdraw(amount)
    PROVE  /\ OwnerInv' /\ Allowed' = Allowed /\ UNCHANGED <<policies, actionRequests>>
           /\ account'.available = account.available - amount
<1>1. /\ DOMAIN account' = DOMAIN account /\ account'.reserved = account.reserved
      /\ account'.spent = account.spent /\ account'.available = account.available - amount
      /\ UNCHANGED <<policies, actionRequests>> /\ account.available >= amount
  BY DEF withdraw, OwnerInv
<1> QED  BY <1>1 DEF OwnerInv, Allowed, Executed

LEMMA RegistrationOfPolicyKeeps ==
    ASSUME OwnerInv, registerPolicy
    PROVE  /\ OwnerInv' /\ Allowed' = Allowed /\ UNCHANGED <<account, actionRequests>>
           /\ Len(policies') = Len(policies) + 1 /\ policies'[Len(policies) + 1] = "Active"
           /\ \A p \in DOMAIN policies : policies'[p] = policies[p]
           /\ DOMAIN policies = 1..Len(policies) /\ Len(policies) \in Nat
BY DEF registerPolicy, OwnerInv, Allowed, Executed

LEMMA GovernanceKeeps ==
    ASSUME OwnerInv, NEW p \in DOMAIN policies, NEW from,
           NEW to \in {"Active", "Stopped", "Revoked"}, Moves(p, from, to)
    PROVE  /\ OwnerInv' /\ Allowed' = Allowed /\ UNCHANGED <<account, actionRequests>>
           /\ Len(policies') = Len(policies) /\ policies'[p] = to
           /\ \A q \in DOMAIN policies : q # p => policies'[q] = policies[q]
BY DEF Moves, OwnerInv, Allowed, Executed

LEMMA CreationKeeps ==
    ASSUME OwnerInv, NEW p \in DOMAIN policies, NEW verdict \in {"ALLOW", "DENY"},
           createRequest(p, verdict)
    PROVE  /\ OwnerInv' /\ Allowed' = Allowed /\ UNCHANGED <<account, policies>>
           /\ policies[p] = "Active"
           /\ Len(actionRequests) \in Nat /\ DOMAIN actionRequests = 1..Len(actionRequests)
           /\ Len(actionRequests') = Len(actionRequests) + 1
           /\ actionRequests'[Len(actionRequests) + 1].policy = p
           /\ \A r \in DOMAIN actionRequests : actionRequests'[r] = actionRequests[r]
<1> DEFINE request == [policy |-> p, verdict |-> verdict, asked |-> FALSE, status |-> "Pending",
                       decidedBy |-> "", executedBy |-> ""]
<1>1. /\ actionRequests' = Append(actionRequests, request) /\ UNCHANGED <<account, policies>>
      /\ policies[p] = "Active"
  BY DEF createRequest
<1>6. p \in Nat  BY DEF OwnerInv
<1>2. /\ request \in ActionRequest
      /\ request.policy = p /\ request.status = "Pending"
  BY <1>6 DEF RequestStatus, Party, ActionRequest
<1> HIDE DEF request
<1>3. /\ Len(actionRequests) \in Nat /\ DOMAIN actionRequests = 1..Len(actionRequests)
      /\ Len(actionRequests') = Len(actionRequests) + 1
      /\ DOMAIN actionRequests' = 1..Len(actionRequests')
      /\ actionRequests'[Len(actionRequests) + 1] = request
      /\ \A r \in DOMAIN actionRequests : actionRequests'[r] = actionRequests[r]
      /\ actionRequests' \in Seq(ActionRequest)
  BY <1>1, <1>2 DEF OwnerInv
<1>4. Allowed' = Allowed /\ Executed' = Executed
  BY <1>2, <1>3 DEF Allowed, Executed
<1>5. \A r \in DOMAIN actionRequests' : r \in DOMAIN actionRequests \/ r = Len(actionRequests) + 1
  BY <1>3
<1> QED  BY <1>1, <1>2, <1>3, <1>4, <1>5 DEF OwnerInv

\* One request is written; its policy and the others stay.
LEMMA RequestMoves ==
    ASSUME OwnerInv, NEW r \in DOMAIN actionRequests, NEW request,
           actionRequests' = [actionRequests EXCEPT ![r] = request],
           request \in ActionRequest,
           request.policy = actionRequests[r].policy,
           UNCHANGED policies,
           DOMAIN account' = Fields, account'.available \in Nat,
           account'.reserved = account.reserved
               + (IF request.status = "Allowed" THEN 1 ELSE 0)
               - (IF actionRequests[r].status = "Allowed" THEN 1 ELSE 0),
           actionRequests[r].status # "Executed",
           account'.spent = account.spent + (IF request.status = "Executed" THEN 1 ELSE 0)
    PROVE  /\ OwnerInv'
           /\ Allowed' = (IF request.status = "Allowed" THEN Allowed \cup {r} ELSE Allowed \ {r})
           /\ DOMAIN actionRequests' = DOMAIN actionRequests /\ actionRequests'[r] = request
           /\ \A q \in DOMAIN actionRequests : q # r => actionRequests'[q] = actionRequests[q]
<1>1. /\ actionRequests \in Seq(ActionRequest)
      /\ actionRequests' = [actionRequests EXCEPT ![r] = request]
  BY DEF OwnerInv
<1>4. /\ DOMAIN actionRequests' = DOMAIN actionRequests /\ actionRequests'[r] = request
      /\ \A q \in DOMAIN actionRequests : q # r => actionRequests'[q] = actionRequests[q]
  BY <1>1
<1>5. actionRequests' \in Seq(ActionRequest)
  <2>1. DOMAIN actionRequests = 1..Len(actionRequests) /\ Len(actionRequests) \in Nat
    BY <1>1
  <2>2. actionRequests \in [1..Len(actionRequests) -> ActionRequest]  BY <1>1
  <2>3. actionRequests' \in [1..Len(actionRequests) -> ActionRequest]  BY <1>1, <2>1, <2>2
  <2> QED  BY <2>1, <2>3, SeqDef, ZenonT(30)
<1>2. request.status \in RequestStatus  BY DEF ActionRequest
<1>3. /\ account'.reserved = Cardinality(Allowed') /\ account'.spent = Cardinality(Executed')
      /\ account'.spent \in Nat
      /\ Allowed' = (IF request.status = "Allowed" THEN Allowed \cup {r} ELSE Allowed \ {r})
  <2>1. account'.spent \in Nat  BY DEF OwnerInv
  <2> QED  BY <1>2, <1>4, <2>1, StatusMoves
<1> QED  BY <1>3, <1>4, <1>5 DEF OwnerInv, Fields, ActionRequest

LEMMA AskKeeps ==
    ASSUME OwnerInv, NEW r \in DOMAIN actionRequests, AskMachines(r)
    PROVE  /\ OwnerInv' /\ Allowed' = Allowed /\ UNCHANGED <<account, policies>>
           /\ DOMAIN actionRequests' = DOMAIN actionRequests
           /\ \A q \in DOMAIN actionRequests :
                actionRequests'[q].policy = actionRequests[q].policy
                /\ actionRequests'[q].status = actionRequests[q].status
           /\ \A q \in DOMAIN actionRequests : q # r => actionRequests'[q] = actionRequests[q]
           /\ actionRequests[r].status = "Pending"
<1> DEFINE request == [actionRequests[r] EXCEPT !.asked = TRUE]
<1>1. actionRequests[r] \in ActionRequest /\ account.reserved \in Nat
  BY AllowedIsFinite DEF OwnerInv
<1>2. request \in ActionRequest /\ request.policy = actionRequests[r].policy
      /\ request.status = actionRequests[r].status
  BY <1>1 DEF ActionRequest
<1>3. actionRequests' = [actionRequests EXCEPT ![r] = request] /\ UNCHANGED <<account, policies>>
      /\ actionRequests[r].status = "Pending"
  BY DEF AskMachines
<1> HIDE DEF request
<1>4. r \in Allowed <=> request.status = "Allowed"
  BY <1>2 DEF Allowed
<1>5. /\ DOMAIN account' = Fields /\ account'.available \in Nat
      /\ account'.spent = account.spent /\ account.spent \in Nat
  BY <1>3 DEF OwnerInv, Fields
<1>6. account'.reserved = account.reserved + (IF request.status = "Allowed" THEN 1 ELSE 0)
            - (IF actionRequests[r].status = "Allowed" THEN 1 ELSE 0)
  BY <1>1, <1>2, <1>3
<1>7. /\ OwnerInv'
      /\ Allowed' = (IF request.status = "Allowed" THEN Allowed \cup {r} ELSE Allowed \ {r})
      /\ DOMAIN actionRequests' = DOMAIN actionRequests /\ actionRequests'[r] = request
      /\ \A q \in DOMAIN actionRequests : q # r => actionRequests'[q] = actionRequests[q]
  <2>1. account'.spent = account.spent + (IF request.status = "Executed" THEN 1 ELSE 0)
    BY <1>2, <1>3, <1>5
  <2> QED  BY <1>2, <1>3, <1>5, <1>6, <2>1, RequestMoves
<1>8. Allowed' = Allowed  BY <1>4, <1>7 DEF Allowed
<1> QED  BY <1>2, <1>3, <1>7, <1>8

\* A decision, an execution and an end: what they need, and where they leave
\* the request.
Moved(r, status) ==
    /\ OwnerInv' /\ UNCHANGED policies
    /\ Allowed' = (IF status = "Allowed" THEN Allowed \cup {r} ELSE Allowed \ {r})
    /\ DOMAIN actionRequests' = DOMAIN actionRequests
    /\ actionRequests'[r].status = status
    /\ actionRequests'[r].policy = actionRequests[r].policy
    /\ \A q \in DOMAIN actionRequests : q # r => actionRequests'[q] = actionRequests[q]

LEMMA DecisionKeeps ==
    ASSUME OwnerInv, NEW r \in DOMAIN actionRequests, NEW by \in Party, submitEvaluation(r, by)
    PROVE  /\ actionRequests[r].status = "Pending" /\ policies[actionRequests[r].policy] = "Active"
           /\ \E status \in {"Allowed", "Denied"} : Moved(r, status)
<1> DEFINE allow == actionRequests[r].verdict = "ALLOW"
           status == IF allow THEN "Allowed" ELSE "Denied"
           request == [actionRequests[r] EXCEPT !.status = status, !.decidedBy = by]
<1>1. actionRequests[r] \in ActionRequest /\ account.reserved \in Nat
  BY AllowedIsFinite DEF OwnerInv
<1>2. status \in {"Allowed", "Denied"} /\ (allow <=> status = "Allowed")  OBVIOUS
<1>3. /\ actionRequests' = [actionRequests EXCEPT ![r].status = status, ![r].decidedBy = by]
      /\ actionRequests[r].status = "Pending" /\ policies[actionRequests[r].policy] = "Active"
      /\ allow => account.available > 0
      /\ account' = IF allow THEN [account EXCEPT !.available = @ - 1, !.reserved = @ + 1]
                              ELSE account
      /\ UNCHANGED policies
  BY DEF submitEvaluation
<1> HIDE DEF status, allow
<1>4. request \in ActionRequest /\ request.policy = actionRequests[r].policy
      /\ request.status = status
  BY <1>1, <1>2 DEF ActionRequest, RequestStatus
<1>5. actionRequests' = [actionRequests EXCEPT ![r] = request]
  BY <1>3
<1> HIDE DEF request
<1>6. /\ DOMAIN account' = Fields /\ account'.available \in Nat /\ account'.spent \in Nat
      /\ account'.reserved = account.reserved + (IF allow THEN 1 ELSE 0)
      /\ account'.spent = account.spent
  <2>1. CASE allow
    <3>1. account' = [account EXCEPT !.available = @ - 1, !.reserved = @ + 1]
      BY <1>3, <2>1
    <3>2. account.available \in Nat /\ account.available > 0 /\ account.spent \in Nat
          /\ DOMAIN account = Fields
      BY <1>3, <2>1 DEF OwnerInv, Fields
    <3>3. /\ DOMAIN account' = Fields /\ account'.available = account.available - 1
          /\ account'.spent = account.spent /\ account'.reserved = account.reserved + 1
      BY <3>1, <3>2 DEF Fields
    <3> QED  BY <2>1, <3>2, <3>3
  <2>2. CASE ~allow
    BY <1>1, <1>3, <2>2 DEF OwnerInv, Fields
  <2> QED  BY <2>1, <2>2
<1>7. account'.reserved = account.reserved + (IF request.status = "Allowed" THEN 1 ELSE 0)
            - (IF actionRequests[r].status = "Allowed" THEN 1 ELSE 0)
  BY <1>1, <1>2, <1>3, <1>4, <1>6
<1>9. account'.spent = account.spent + (IF request.status = "Executed" THEN 1 ELSE 0)
  <2>1. request.status # "Executed" /\ account'.spent \in Nat  BY <1>2, <1>4, <1>6
  <2> QED  BY <1>6, <2>1
<1>8. Moved(r, status)
  <2>1. actionRequests[r].status # "Executed"  BY <1>3
  <2> QED  BY <1>3, <1>4, <1>5, <1>6, <1>7, <1>9, <2>1, RequestMoves DEF Moved
<1> QED  BY <1>2, <1>3, <1>8

LEMMA ExecutionKeeps ==
    ASSUME OwnerInv, NEW r \in DOMAIN actionRequests, NEW by \in Party, execute(r, by)
    PROVE  /\ r \in Allowed /\ Moved(r, "Executed")
           /\ account'.available = account.available
<1> DEFINE request == [actionRequests[r] EXCEPT !.status = "Executed", !.executedBy = by]
<1>1. /\ actionRequests[r] \in ActionRequest /\ account.reserved \in Nat
      /\ account.available \in Nat /\ account.spent \in Nat /\ DOMAIN account = Fields
  BY AllowedIsFinite DEF OwnerInv, Fields
<1>2. /\ actionRequests' = [actionRequests EXCEPT ![r].status = "Executed", ![r].executedBy = by]
      /\ actionRequests[r].status = "Allowed"
      /\ account' = [account EXCEPT !.reserved = @ - 1, !.spent = @ + 1] /\ UNCHANGED policies
  BY DEF execute
<1>3. request \in ActionRequest /\ request.policy = actionRequests[r].policy
      /\ request.status = "Executed"
  BY <1>1 DEF ActionRequest, RequestStatus
<1>4. actionRequests' = [actionRequests EXCEPT ![r] = request]
  BY <1>2
<1> HIDE DEF request
<1>5. /\ DOMAIN account' = Fields /\ account'.available = account.available
      /\ account'.spent = account.spent + 1 /\ account'.reserved = account.reserved - 1
  BY <1>1, <1>2 DEF Fields
<1>6. account'.reserved = account.reserved + (IF request.status = "Allowed" THEN 1 ELSE 0)
            - (IF actionRequests[r].status = "Allowed" THEN 1 ELSE 0)
  BY <1>1, <1>2, <1>3, <1>5
<1>8. /\ account'.available \in Nat /\ UNCHANGED policies /\ actionRequests[r].status # "Executed"
      /\ account'.spent = account.spent + (IF request.status = "Executed" THEN 1 ELSE 0)
  BY <1>1, <1>2, <1>3, <1>5
<1>9. /\ OwnerInv' /\ Allowed' = Allowed \ {r}
      /\ DOMAIN actionRequests' = DOMAIN actionRequests /\ actionRequests'[r] = request
      /\ \A q \in DOMAIN actionRequests : q # r => actionRequests'[q] = actionRequests[q]
  BY <1>3, <1>4, <1>5, <1>6, <1>8, RequestMoves
<1>7. Moved(r, "Executed")
  BY <1>3, <1>8, <1>9 DEF Moved
<1> QED  BY <1>2, <1>5, <1>7 DEF Allowed

LEMMA EndKeeps ==
    ASSUME OwnerInv, NEW r \in DOMAIN actionRequests, End(r)
    PROVE  /\ Moved(r, "Ended")
           /\ r \notin Allowed => account' = account
           /\ actionRequests[r].status \in {"Pending", "Allowed"}
<1> DEFINE allowed == actionRequests[r].status = "Allowed"
           request == [actionRequests[r] EXCEPT !.status = "Ended"]
<1>1. /\ actionRequests[r] \in ActionRequest /\ account.reserved \in Nat
      /\ account.available \in Nat /\ account.spent \in Nat /\ DOMAIN account = Fields
  BY AllowedIsFinite DEF OwnerInv, Fields
<1>2. /\ actionRequests' = [actionRequests EXCEPT ![r].status = "Ended"]
      /\ actionRequests[r].status \in {"Pending", "Allowed"}
      /\ account' = IF allowed THEN [account EXCEPT !.available = @ + 1, !.reserved = @ - 1]
                                ELSE account
      /\ UNCHANGED policies
  BY DEF End
<1>3. request \in ActionRequest /\ request.policy = actionRequests[r].policy
      /\ request.status = "Ended"
  BY <1>1 DEF ActionRequest, RequestStatus
<1>4. actionRequests' = [actionRequests EXCEPT ![r] = request]
  BY <1>2
<1> HIDE DEF request
<1>5. /\ DOMAIN account' = Fields /\ account'.available \in Nat
      /\ account'.spent = account.spent + (IF request.status = "Executed" THEN 1 ELSE 0)
      /\ account'.reserved = account.reserved - (IF allowed THEN 1 ELSE 0)
  <2>1. CASE allowed
    <3>1. account' = [account EXCEPT !.available = @ + 1, !.reserved = @ - 1]
      BY <1>2, <2>1
    <3>2. /\ DOMAIN account' = Fields /\ account'.available = account.available + 1
          /\ account'.spent = account.spent /\ account'.reserved = account.reserved - 1
      BY <1>1, <3>1 DEF Fields
    <3> QED  BY <1>1, <1>3, <2>1, <3>2
  <2>2. CASE ~allowed
    BY <1>1, <1>2, <1>3, <2>2
  <2> QED  BY <2>1, <2>2
<1>6. account'.reserved = account.reserved + (IF request.status = "Allowed" THEN 1 ELSE 0)
            - (IF actionRequests[r].status = "Allowed" THEN 1 ELSE 0)
  BY <1>1, <1>3, <1>5
<1>7. Moved(r, "Ended")
  BY <1>1, <1>2, <1>3, <1>4, <1>5, <1>6, RequestMoves DEF Moved
<1> QED  BY <1>2, <1>7 DEF Allowed

-----------------------------------------------------------------------------
(* The multi-owner run.                                                     *)

Latest == Len(policies)

\* Nothing of the owner's moves any more unless the owner moves it.
Settled == (\A p \in DOMAIN policies : policies[p] = "Revoked") /\ Allowed = {}

\* What was done under earlier policies is over.
EarlierSettled ==
    /\ \A p \in DOMAIN policies : p # Latest => policies[p] = "Revoked"
    /\ \A r \in Allowed : actionRequests[r].policy = Latest

HasGas == gas["owner"] /\ gas["requester"]

ProcessFields == {"doing", "i", "policy", "request", "before", "after", "amount", "tokens"}

ProcessIs ==
    \/ process = NoProcess
    \/ /\ process.doing \in {"run", "cleanup"} /\ DOMAIN process = ProcessFields
       /\ process.tokens \in [Holder -> Int]

\* What a run has seen to by its i-th step.
RunProgress ==
    process.doing = "run" =>
        /\ process.i \in 1..29
        /\ process.i <= 4 => Settled
        /\ process.i > 4 => process.policy = Latest /\ Latest \in DOMAIN policies
        /\ process.i = 2 => gas["owner"]
        /\ process.i \in 3..27 => HasGas
        /\ process.i \in 5..8 => \A r \in DOMAIN actionRequests : actionRequests[r].policy # Latest
        /\ process.i >= 9 =>
             /\ process.request \in DOMAIN actionRequests
             /\ \A r \in DOMAIN actionRequests : actionRequests[r].policy = Latest => r = process.request
        /\ process.i >= 14 => actionRequests[process.request].status = "Executed"
        /\ process.i >= 23 => Settled
        /\ process.i \in 15..23 => process.amount = account.available
        /\ process.i >= 24 => account.available = 0
        /\ process.i >= 28 => ~gas["owner"]
        /\ process.i = 29 => ~gas["requester"]

\* And a cleanup.
CleanupProgress ==
    process.doing = "cleanup" =>
        /\ process.i \in 1..10 /\ process.policy = Latest /\ Latest \in DOMAIN policies
        /\ process.i >= 2 => policies[Latest] = "Revoked"
        /\ process.i >= 3 => Allowed = {}
        /\ process.i = 3 => process.amount = account.available
        /\ process.i >= 4 => account.available = 0
        /\ process.i = 5 => process.tokens["owner"] = token["owner"]
        /\ process.i >= 6 => token["owner"] = 0
        /\ process.i = 7 => process.tokens["requester"] = token["requester"]
        /\ process.i >= 8 => token["requester"] = 0
        /\ process.i >= 9 => ~gas["owner"]
        /\ process.i = 10 => ~gas["requester"]

\* Without the recovery file there is nothing that it is needed for, and
\* nothing comes back.
NothingLeft ==
    /\ process = NoProcess /\ Settled /\ account.available = 0
    /\ \A h \in Holder : ~gas[h] /\ token[h] = 0

FundsInv ==
    /\ OwnerInv /\ slips = 0
    /\ gas \in [Holder -> BOOLEAN] /\ token \in [Holder -> Int]
    /\ ProcessIs /\ RunProgress /\ CleanupProgress
    /\ EarlierSettled
    /\ ~HasGas => Settled
    /\ recovery # "kept" => NothingLeft

-----------------------------------------------------------------------------

LEMMA FundsStart == OwnerInit(0) /\ MultiOwnerInit("absent") => FundsInv
<1> SUFFICES ASSUME OwnerInit(0), MultiOwnerInit("absent") PROVE FundsInv  OBVIOUS
<1>1. policies = <<>> /\ actionRequests = <<>>  BY DEF OwnerInit
<1>2. DOMAIN policies = {} /\ DOMAIN actionRequests = {} /\ Allowed = {}
  BY <1>1 DEF Allowed
<1>3. /\ DOMAIN account = {"deposited", "available", "reserved", "spent", "withdrawn"}
      /\ account.available = 0 /\ account.spent = 0 /\ account.reserved = 0
  BY DEF OwnerInit, NoAccount
<1>6. Executed = {}  BY <1>1, <1>2 DEF Executed
<1>4. OwnerInv
  BY <1>1, <1>2, <1>3, <1>6, FS_EmptySet DEF OwnerInv
<1>5. process = NoProcess /\ process.doing = "nothing"
  BY DEF MultiOwnerInit, NoProcess
<1> QED
  BY <1>2, <1>3, <1>4, <1>5 DEF MultiOwnerInit, FundsInv, ProcessIs, RunProgress, CleanupProgress,
     EarlierSettled, Settled, NothingLeft, Holder

\* Where a process is that does a step.
LEMMA DoingIs ==
    ASSUME FundsInv, NEW step, Doing(step)
    PROVE  /\ process # NoProcess /\ recovery = "kept" /\ DOMAIN process = ProcessFields
           /\ process.tokens \in [Holder -> Int]
           /\ \/ process.doing = "run" /\ process.i \in 1..29 /\ runSteps[process.i] = step
              \/ process.doing = "cleanup" /\ process.i \in 1..10 /\ cleanupSteps[process.i] = step
<1>1. process # NoProcess  BY DEF Doing, NoProcess
<1>2. /\ process.doing \in {"run", "cleanup"} /\ DOMAIN process = ProcessFields
      /\ process.tokens \in [Holder -> Int]
  BY <1>1 DEF FundsInv, ProcessIs
<1>3. recovery = "kept"  BY <1>1 DEF FundsInv, NothingLeft
<1> QED  BY <1>1, <1>2, <1>3 DEF Doing, StepsOf, FundsInv, RunProgress, CleanupProgress

\* A step goes on with the next one.
LEMMA AdvancedIs ==
    ASSUME FundsInv, NEW step, Doing(step)
    PROVE  /\ DOMAIN Advanced = ProcessFields /\ Advanced.doing = process.doing
           /\ Advanced.i = process.i + 1 /\ Advanced.policy = process.policy
           /\ Advanced.request = process.request /\ Advanced.amount = process.amount
           /\ Advanced.tokens = process.tokens /\ Advanced.tokens \in [Holder -> Int]
BY DoingIs DEF Advanced, ProcessFields

\* What the process, the accounts and the contracts must be after a step.
LEMMA ProcessKeeps ==
    ASSUME FundsInv, process # NoProcess, OwnerInv', EarlierSettled', (~HasGas => Settled)',
           UNCHANGED <<recovery, slips>>,
           gas' \in [Holder -> BOOLEAN], token' \in [Holder -> Int],
           process'.doing = process.doing, DOMAIN process' = ProcessFields,
           process'.tokens \in [Holder -> Int], RunProgress', CleanupProgress'
    PROVE  FundsInv'
<1>1. process.doing \in {"run", "cleanup"} /\ recovery = "kept"
  BY DEF FundsInv, ProcessIs, NothingLeft
<1> QED  BY <1>1 DEF FundsInv, ProcessIs

\* A process ends, and what others see stays as it is.
LEMMA ProcessEnds ==
    ASSUME FundsInv, UNCHANGED <<ownerVars, gas, token, slips, recovery>>, process' = NoProcess
    PROVE  FundsInv'
BY DEF FundsInv, OwnerInv, Executed, Allowed, EarlierSettled, Settled, HasGas, Latest, ownerVars, NothingLeft,
       ProcessIs, RunProgress, CleanupProgress, NoProcess

LEMMA WithoutPolicies ==
    ASSUME FundsInv, policies = <<>>
    PROVE  Settled
<1>1. DOMAIN policies = {}  OBVIOUS
<1>2. DOMAIN actionRequests = {}  BY <1>1 DEF FundsInv, OwnerInv
<1> QED  BY <1>1, <1>2 DEF Settled, Allowed

LEMMA StartRunKeeps ==
    ASSUME FundsInv, MaxSlips = 0, StartRun
    PROVE  FundsInv'
<1>1. /\ process = NoProcess /\ recovery \in {"absent", "kept"} /\ recovery' = "kept"
      /\ process' = NewProcess("run", 0) /\ UNCHANGED <<account, policies, actionRequests, gas, token>>
  BY DEF StartRun, ownerVars
<1>2. ~CanClean /\ slips' = 0
  BY DEF StartRun, Slip, FundsInv
<1>3. Settled
  BY <1>2, WithoutPolicies DEF CanClean, FundsInv, HasGas, Holder
<1>4. /\ process'.doing = "run" /\ process'.i = 1 /\ DOMAIN process' = ProcessFields
      /\ process'.tokens \in [Holder -> Int]
  BY <1>1 DEF NewProcess, ProcessFields
<1>5. RunProgress' /\ CleanupProgress' /\ ProcessIs'
  BY <1>1, <1>3, <1>4 DEF RunProgress, CleanupProgress, ProcessIs, Settled, Allowed
<1> QED
  BY <1>1, <1>2, <1>5 DEF FundsInv, OwnerInv, Executed, Allowed, EarlierSettled, Settled, HasGas, Latest

LEMMA StartCleanupKeeps ==
    ASSUME FundsInv, MaxSlips = 0, StartCleanup
    PROVE  FundsInv'
<1>1. /\ process = NoProcess /\ recovery = "kept" /\ recovery' = "kept"
      /\ UNCHANGED <<account, policies, actionRequests, gas, token>>
  BY DEF StartCleanup, ownerVars
<1>2. PICK p \in DOMAIN policies : Slip(p # Len(policies)) /\ process' = NewProcess("cleanup", p)
  BY DEF StartCleanup
<1>3. p = Latest /\ slips' = 0
  BY <1>2 DEF Slip, FundsInv, Latest
<1>4. /\ process'.doing = "cleanup" /\ process'.i = 1 /\ DOMAIN process' = ProcessFields
      /\ process'.policy = Latest /\ Latest \in DOMAIN policies
      /\ process'.tokens \in [Holder -> Int]
  BY <1>2, <1>3 DEF NewProcess, ProcessFields
<1>5. RunProgress' /\ CleanupProgress' /\ ProcessIs'
  BY <1>1, <1>4 DEF RunProgress, CleanupProgress, ProcessIs, Latest
<1> QED
  BY <1>1, <1>3, <1>5 DEF FundsInv, OwnerInv, Executed, Allowed, EarlierSettled, Settled, HasGas, Latest

LEMMA TearKeeps ==
    ASSUME FundsInv, TearRecovery
    PROVE  FundsInv'
<1>1. /\ process = NoProcess /\ recovery = "absent" /\ UNCHANGED <<ownerVars, gas, token, slips, process>>
  BY DEF TearRecovery, Mishap
<1> QED
  BY <1>1 DEF FundsInv, OwnerInv, Executed, Allowed, EarlierSettled, Settled, HasGas, Latest, ownerVars,
     NothingLeft, ProcessIs, RunProgress, CleanupProgress, NoProcess

\* A request moves that its policy or its reservation still lets move: nothing
\* is settled then, and it is the running process's own, if there is one.
LEMMA LateRequest ==
    ASSUME FundsInv, NEW r \in DOMAIN actionRequests,
           \/ r \in Allowed
           \/ actionRequests[r].status = "Pending" /\ policies[actionRequests[r].policy] # "Revoked"
    PROVE  /\ ~Settled /\ HasGas /\ recovery = "kept" /\ actionRequests[r].policy = Latest
           /\ process.doing = "run" => process.i \in 9..13 /\ r = process.request
           /\ process.doing = "cleanup" => process.i \in 1..2
           /\ process.doing = "cleanup" /\ r \notin Allowed => process.i = 1
<1>1. actionRequests[r].policy \in DOMAIN policies
  BY DEF FundsInv, OwnerInv
<1>2. ~Settled /\ actionRequests[r].policy = Latest
  BY <1>1 DEF FundsInv, Settled, EarlierSettled
<1>3. HasGas /\ recovery = "kept"
  BY <1>2 DEF FundsInv, NothingLeft
<1>4. process.doing = "run" => process.i \in 9..13 /\ r = process.request
  <2>1. SUFFICES ASSUME process.doing = "run" PROVE process.i \in 9..13 /\ r = process.request
    OBVIOUS
  <2>2. process.i \in 1..29 /\ process.i > 4 /\ process.i < 23
    BY <1>2, <2>1 DEF FundsInv, RunProgress
  <2>3. process.i >= 9
    BY <1>2, <2>1, <2>2 DEF FundsInv, RunProgress
  <2>4. r = process.request
    BY <1>2, <2>1, <2>3 DEF FundsInv, RunProgress
  <2>5. ~(process.i >= 14)
    BY <2>1, <2>4 DEF FundsInv, RunProgress, Allowed
  <2> QED  BY <2>2, <2>3, <2>4, <2>5
<1>5. process.doing = "cleanup" => process.i \in 1..2 /\ (r \notin Allowed => process.i = 1)
  <2>1. SUFFICES ASSUME process.doing = "cleanup"
                 PROVE  process.i \in 1..2 /\ (r \notin Allowed => process.i = 1)
    OBVIOUS
  <2>2. process.i \in 1..10  BY <2>1 DEF FundsInv, CleanupProgress
  <2>3. r \notin Allowed => ~(process.i >= 2)
    BY <1>2, <2>1 DEF FundsInv, CleanupProgress
  <2>4. r \in Allowed => ~(process.i >= 3)
    BY <2>1 DEF FundsInv, CleanupProgress
  <2> QED  BY <2>2, <2>3, <2>4
<1> QED  BY <1>2, <1>3, <1>4, <1>5

\* Others move such a request.
LEMMA LateMoves ==
    ASSUME FundsInv, NEW r \in DOMAIN actionRequests, NEW status \in RequestStatus, Moved(r, status),
           \/ r \in Allowed
           \/ actionRequests[r].status = "Pending" /\ policies[actionRequests[r].policy] # "Revoked",
           status = "Allowed" => r \notin Allowed,
           UNCHANGED <<process, gas, recovery, slips>>, token' \in [Holder -> Int]
    PROVE  FundsInv'
<1>1. /\ ~Settled /\ HasGas /\ recovery = "kept" /\ actionRequests[r].policy = Latest
      /\ process.doing = "run" => process.i \in 9..13 /\ r = process.request
      /\ process.doing = "cleanup" => process.i \in 1..2
      /\ process.doing = "cleanup" /\ r \notin Allowed => process.i = 1
  BY LateRequest
<1>2. /\ OwnerInv' /\ UNCHANGED policies
      /\ Allowed' \subseteq Allowed \cup {r}
      /\ DOMAIN actionRequests' = DOMAIN actionRequests
      /\ \A q \in DOMAIN actionRequests : actionRequests'[q].policy = actionRequests[q].policy
  BY DEF Moved
<1>3. EarlierSettled'
  BY <1>1, <1>2 DEF FundsInv, EarlierSettled, Latest, Allowed
<1>4. RunProgress'
  <2>1. SUFFICES ASSUME process.doing = "run" PROVE RunProgress'
    BY DEF RunProgress
  <2>2. /\ process.i \in 9..13 /\ process.policy = Latest /\ Latest \in DOMAIN policies
        /\ process.request \in DOMAIN actionRequests
        /\ \A q \in DOMAIN actionRequests : actionRequests[q].policy = Latest => q = process.request
    BY <1>1, <2>1 DEF FundsInv, RunProgress
  <2>3. /\ process' = process /\ Latest' = Latest /\ DOMAIN policies' = DOMAIN policies /\ HasGas'
        /\ DOMAIN actionRequests' = DOMAIN actionRequests
        /\ \A q \in DOMAIN actionRequests : actionRequests'[q].policy = actionRequests[q].policy
    BY <1>1, <1>2 DEF Latest, HasGas
  <2>4. ~(process.i <= 4) /\ process.i # 2 /\ ~(process.i \in 5..8) /\ ~(process.i >= 14)
        /\ ~(process.i >= 23) /\ ~(process.i \in 15..23) /\ ~(process.i >= 24)
        /\ ~(process.i >= 28) /\ process.i # 29 /\ process.i \in 1..29
    BY <2>2
  <2> QED  BY <2>2, <2>3, <2>4 DEF RunProgress
<1>5. CleanupProgress'
  BY <1>1, <1>2 DEF FundsInv, CleanupProgress, Latest
<1> QED  BY <1>1, <1>2, <1>3, <1>4, <1>5 DEF FundsInv, ProcessIs, HasGas

LEMMA RelayDecisionKeeps ==
    ASSUME FundsInv, NEW r \in DOMAIN actionRequests, RelayDecides(r)
    PROVE  FundsInv'
<1>1. submitEvaluation(r, "relay") /\ UNCHANGED <<process, gas, token, recovery, slips>>
  BY DEF RelayDecides, Decide, multiOwnerVars
<1>2. OwnerInv /\ "relay" \in Party  BY DEF FundsInv, Party
<1>3. /\ actionRequests[r].status = "Pending" /\ policies[actionRequests[r].policy] = "Active"
      /\ \E status \in {"Allowed", "Denied"} : Moved(r, status)
  BY <1>1, <1>2, DecisionKeeps
<1>4. PICK status \in {"Allowed", "Denied"} : Moved(r, status)  BY <1>3
<1>5. status \in RequestStatus /\ r \notin Allowed  BY <1>3 DEF RequestStatus, Allowed
<1>6. token' \in [Holder -> Int]  BY <1>1 DEF FundsInv
<1> QED  BY <1>1, <1>3, <1>4, <1>5, <1>6, LateMoves

LEMMA PaymentElsewhereKeeps ==
    ASSUME FundsInv, NEW r \in DOMAIN actionRequests, PaysElsewhere(r)
    PROVE  FundsInv'
<1>1. /\ execute(r, "other") /\ token' = [token EXCEPT !["requester"] = @ + 1]
      /\ UNCHANGED <<process, gas, recovery, slips>>
  BY DEF PaysElsewhere, Pays, Mishap
<1>2. r \in Allowed /\ Moved(r, "Executed")
  BY <1>1, ExecutionKeeps DEF FundsInv, Party
<1>3. token' \in [Holder -> Int]  BY <1>1 DEF FundsInv, Holder
<1> QED  BY <1>1, <1>2, <1>3, LateMoves DEF RequestStatus

LEMMA ExpiryKeeps ==
    ASSUME FundsInv, NEW r \in DOMAIN actionRequests, Expires(r)
    PROVE  FundsInv'
<1>1. /\ End(r) /\ process.request # r
      /\ UNCHANGED <<process, gas, token, recovery, slips>>
  BY DEF Expires, multiOwnerVars
<1>2. /\ Moved(r, "Ended") /\ (r \notin Allowed => account' = account)
      /\ actionRequests[r].status \in {"Pending", "Allowed"}
  BY <1>1, EndKeeps DEF FundsInv
<1>3. CASE r \in Allowed
  BY <1>1, <1>2, <1>3, LateMoves DEF RequestStatus, FundsInv
<1>4. CASE r \notin Allowed
  <2>1. /\ OwnerInv' /\ UNCHANGED <<policies, account>> /\ Allowed' = Allowed
        /\ DOMAIN actionRequests' = DOMAIN actionRequests
        /\ \A q \in DOMAIN actionRequests : actionRequests'[q].policy = actionRequests[q].policy
        /\ \A q \in DOMAIN actionRequests : q # r => actionRequests'[q] = actionRequests[q]
    BY <1>2, <1>4 DEF Moved
  <2>2. EarlierSettled' /\ (Settled' <=> Settled)
    BY <2>1 DEF FundsInv, EarlierSettled, Latest, Settled, Allowed
  <2>3. RunProgress'
    <3>1. process.doing = "run" /\ process.i >= 14
            => actionRequests'[process.request] = actionRequests[process.request]
      BY <1>1, <2>1 DEF FundsInv, RunProgress
    <3> QED  BY <1>1, <2>1, <2>2, <3>1 DEF FundsInv, RunProgress, Latest, HasGas
  <2>4. CleanupProgress'
    BY <1>1, <2>1 DEF FundsInv, CleanupProgress, Latest
  <2> QED  BY <1>1, <2>1, <2>2, <2>3, <2>4 DEF FundsInv, ProcessIs, HasGas, NothingLeft
<1> QED  BY <1>3, <1>4

-----------------------------------------------------------------------------
(* The steps of a process.                                                  *)

\* A step that only looks.
LEMMA LookKeeps ==
    ASSUME FundsInv, process # NoProcess, UNCHANGED <<ownerVars, recovery, gas, token, slips>>,
           process'.doing = process.doing, DOMAIN process' = ProcessFields,
           process'.tokens \in [Holder -> Int], RunProgress', CleanupProgress'
    PROVE  FundsInv'
<1>1. OwnerInv' /\ EarlierSettled' /\ (~HasGas => Settled)'
  BY DEF FundsInv, ownerVars, OwnerInv, Executed, EarlierSettled, HasGas, Settled, Latest, Allowed
<1>2. gas' \in [Holder -> BOOLEAN] /\ token' \in [Holder -> Int]
  BY DEF FundsInv
<1> QED  BY <1>1, <1>2, ProcessKeeps

\* What a run has seen to holds on as long as the contracts and the gas stay.
LEMMA RunLooks ==
    ASSUME FundsInv, process.doing = "run", UNCHANGED <<ownerVars, gas, token>>,
           process'.doing = process.doing, process'.i = process.i + 1,
           process'.policy = process.policy, process'.request = process.request,
           process.i \in 5..28, process.i \notin {8, 13, 22, 23, 27, 28},
           IF process.i = 14 THEN process'.amount = account.available
                             ELSE process'.amount = process.amount
    PROVE  RunProgress' /\ CleanupProgress'
<1>1. /\ policies' = policies /\ actionRequests' = actionRequests /\ account' = account
      /\ gas' = gas /\ Allowed' = Allowed /\ Latest' = Latest /\ (Settled' <=> Settled)
      /\ (HasGas' <=> HasGas)
  BY DEF ownerVars, Allowed, Latest, Settled, HasGas
<1>2. /\ process.i > 4 /\ process.i # 2
      /\ process.i + 1 \in 6..29 /\ process.i + 1 # 14 /\ process.i + 1 # 9
      /\ process.i + 1 # 23 /\ process.i + 1 # 24 /\ process.i + 1 # 28 /\ process.i + 1 # 29
  OBVIOUS
<1>3. /\ process.policy = Latest /\ Latest \in DOMAIN policies
      /\ process.i \in 3..27 => HasGas
      /\ process.i \in 5..8 => \A r \in DOMAIN actionRequests : actionRequests[r].policy # Latest
      /\ process.i >= 9 =>
           /\ process.request \in DOMAIN actionRequests
           /\ \A r \in DOMAIN actionRequests : actionRequests[r].policy = Latest => r = process.request
      /\ process.i >= 14 => actionRequests[process.request].status = "Executed"
      /\ process.i >= 23 => Settled
      /\ process.i \in 15..23 => process.amount = account.available
      /\ process.i >= 24 => account.available = 0
      /\ process.i >= 28 => ~gas["owner"]
  BY <1>2 DEF FundsInv, RunProgress
<1>4. /\ process'.i \in 6..28 /\ process'.doing = "run"
      /\ process'.i \in 3..27 => process.i \in 3..27
      /\ process'.i \in 5..8 => process.i \in 5..8
      /\ process'.i >= 9 => process.i >= 9
      /\ process'.i >= 14 => process.i >= 14
      /\ process'.i >= 23 => process.i >= 23
      /\ process'.i \in 15..23 => process.i = 14 \/ process.i \in 15..23
      /\ process'.i >= 24 => process.i >= 24
      /\ process'.i >= 28 => process.i >= 28
      /\ ~(process'.i <= 4) /\ process'.i # 2 /\ process'.i # 29 /\ process'.i \in 1..29
  BY <1>2
<1>5. process'.i \in 15..23 => process'.amount = account.available
  BY <1>3, <1>4
<1>6. CleanupProgress'
  BY <1>4 DEF CleanupProgress
<1> QED  BY <1>1, <1>3, <1>4, <1>5, <1>6 DEF RunProgress

\* The same of a cleanup, which looks at what it returns.
LEMMA CleanupLooks ==
    ASSUME FundsInv, process.doing = "cleanup", UNCHANGED <<ownerVars, gas, token>>,
           process'.doing = process.doing, process'.i = process.i + 1,
           process'.policy = process.policy, process.i \in {1, 2, 4, 6},
           process.i = 1 => policies[Latest] = "Revoked",
           process.i = 2 => process'.amount = account.available /\ Allowed = {},
           process.i \in {4, 6} => process'.tokens = token
    PROVE  RunProgress' /\ CleanupProgress'
<1>1. /\ policies' = policies /\ account' = account /\ gas' = gas /\ token' = token
      /\ Allowed' = Allowed /\ Latest' = Latest
  BY DEF ownerVars, Allowed, Latest
<1>2. /\ process.policy = Latest /\ Latest \in DOMAIN policies
      /\ process.i >= 2 => policies[Latest] = "Revoked"
      /\ process.i >= 3 => Allowed = {}
      /\ process.i >= 4 => account.available = 0
      /\ process.i >= 6 => token["owner"] = 0
  BY DEF FundsInv, CleanupProgress
<1>3. RunProgress'
  BY DEF RunProgress
<1>4. CASE process.i = 1
  BY <1>1, <1>2, <1>3, <1>4 DEF CleanupProgress
<1>5. CASE process.i = 2
  BY <1>1, <1>2, <1>3, <1>5 DEF CleanupProgress
<1>6. CASE process.i = 4
  BY <1>1, <1>2, <1>3, <1>6 DEF CleanupProgress
<1>7. CASE process.i = 6
  BY <1>1, <1>2, <1>3, <1>7 DEF CleanupProgress
<1> QED  BY <1>3, <1>4, <1>5, <1>6, <1>7

\* What a step observes is what goes into the process.
LEMMA ObservesIs ==
    ASSUME FundsInv, NEW step, NEW then, Observes(step, then)
    PROVE  /\ Doing(step) /\ Proceeds(step) /\ process # NoProcess /\ process' = then
           /\ UNCHANGED <<ownerVars, recovery, gas, token, slips>>
BY DoingIs DEF Observes, Ready

LEMMA ReadKeeps ==
    ASSUME FundsInv, Read
    PROVE  FundsInv'
<1>1. CASE \E step \in {"probe", "refusals", "repeat", "denial", "answer", "afterDenials"} :
             Observes(step, Advanced)
  <2>1. PICK step \in {"probe", "refusals", "repeat", "denial", "answer", "afterDenials"} :
             Observes(step, Advanced)
    BY <1>1
  <2>2. /\ Doing(step) /\ process # NoProcess /\ process' = Advanced
        /\ UNCHANGED <<ownerVars, recovery, gas, token, slips>>
    BY <2>1, ObservesIs
  <2>3. process.doing = "run" /\ process.i \in 1..29 /\ runSteps[process.i] = step
    <3>1. CASE process.doing = "cleanup" /\ process.i \in 1..10 /\ cleanupSteps[process.i] = step
      BY <2>1, <3>1, CleanupStepsAre
    <3> QED  BY <2>2, <3>1, DoingIs
  <2>4. process.i \in 5..20 /\ process.i \notin {8, 13, 14}
    BY <2>1, <2>3, RunLooksAt
  <2>5. RunProgress' /\ CleanupProgress'
    BY <2>2, <2>3, <2>4, AdvancedIs, RunLooks
  <2> QED  BY <2>2, <2>5, AdvancedIs, LookKeeps
<1>2. CASE Observes("before", [Advanced EXCEPT !.before = account])
  <2> DEFINE then == [Advanced EXCEPT !.before = account]
  <2>2. /\ Doing("before") /\ process # NoProcess /\ process' = then
        /\ UNCHANGED <<ownerVars, recovery, gas, token, slips>>
    BY <1>2, ObservesIs
  <2>3. process.doing = "run" /\ process.i = 7
    BY <2>2, DoingIs, RunStepsAre, CleanupStepsAre
  <2>4. /\ DOMAIN then = ProcessFields /\ then.doing = process.doing /\ then.i = process.i + 1
        /\ then.policy = process.policy /\ then.request = process.request
        /\ then.amount = process.amount /\ then.tokens \in [Holder -> Int]
    BY <2>2, AdvancedIs DEF ProcessFields
  <2> HIDE DEF then
  <2>5. RunProgress' /\ CleanupProgress'
    BY <2>2, <2>3, <2>4, RunLooks
  <2> QED  BY <2>2, <2>4, <2>5, LookKeeps
<1>3. CASE Observes("after", [Advanced EXCEPT !.after = account, !.amount = account.available])
  <2> DEFINE then == [Advanced EXCEPT !.after = account, !.amount = account.available]
  <2>2. /\ Doing("after") /\ process # NoProcess /\ process' = then
        /\ UNCHANGED <<ownerVars, recovery, gas, token, slips>>
    BY <1>3, ObservesIs
  <2>3. process.doing = "run" /\ process.i = 14
    BY <2>2, DoingIs, RunStepsAre, CleanupStepsAre
  <2>4. /\ DOMAIN then = ProcessFields /\ then.doing = process.doing /\ then.i = process.i + 1
        /\ then.policy = process.policy /\ then.request = process.request
        /\ then.amount = account.available /\ then.tokens \in [Holder -> Int]
    BY <2>2, AdvancedIs DEF ProcessFields
  <2> HIDE DEF then
  <2>5. RunProgress' /\ CleanupProgress'
    BY <2>2, <2>3, <2>4, RunLooks
  <2> QED  BY <2>2, <2>4, <2>5, LookKeeps
<1>4. CASE Observes("readAccount", [Advanced EXCEPT !.amount = account.available])
  <2> DEFINE then == [Advanced EXCEPT !.amount = account.available]
  <2>2. /\ Doing("readAccount") /\ Proceeds("readAccount") /\ process # NoProcess
        /\ process' = then /\ UNCHANGED <<ownerVars, recovery, gas, token, slips>>
    BY <1>4, ObservesIs
  <2>3. process.doing = "cleanup" /\ process.i = 2
    <3>1. ~(process.doing = "run" /\ process.i \in 1..29 /\ runSteps[process.i] = "readAccount")
      BY RunStepsAre
    <3> QED  BY <2>2, <3>1, DoingIs, CleanupStepsAre
  <2>4. /\ DOMAIN then = ProcessFields /\ then.doing = process.doing /\ then.i = process.i + 1
        /\ then.policy = process.policy /\ then.amount = account.available /\ then.tokens \in [Holder -> Int]
    BY <2>2, AdvancedIs DEF ProcessFields
  <2> HIDE DEF then
  <2>6. Allowed = {}
    BY <2>2, NothingReserved DEF Proceeds, Withdrawable, FundsInv
  <2>5. RunProgress' /\ CleanupProgress'
    BY <2>2, <2>3, <2>4, <2>6, CleanupLooks
  <2> QED  BY <2>2, <2>4, <2>5, LookKeeps
<1>5. CASE Observes("readTokens", [Advanced EXCEPT !.tokens = token])
  <2> DEFINE then == [Advanced EXCEPT !.tokens = token]
  <2>2. /\ Doing("readTokens") /\ process # NoProcess /\ process' = then
        /\ UNCHANGED <<ownerVars, recovery, gas, token, slips>>
    BY <1>5, ObservesIs
  <2>3. \/ process.doing = "run" /\ process.i = 24
        \/ process.doing = "cleanup" /\ process.i \in {4, 6}
    BY <2>2, DoingIs, RunStepsAre, CleanupStepsAre
  <2>4. /\ DOMAIN then = ProcessFields /\ then.doing = process.doing /\ then.i = process.i + 1
        /\ then.policy = process.policy /\ then.request = process.request
        /\ then.amount = process.amount /\ then.tokens = token /\ then.tokens \in [Holder -> Int]
    BY <2>2, AdvancedIs DEF ProcessFields, FundsInv
  <2> HIDE DEF then
  <2>5. RunProgress' /\ CleanupProgress'
    <3>1. CASE process.doing = "run" /\ process.i = 24
      BY <2>2, <2>4, <3>1, RunLooks
    <3>2. CASE process.doing = "cleanup" /\ process.i \in {4, 6}
      BY <2>2, <2>4, <3>2, CleanupLooks
    <3> QED  BY <2>3, <3>1, <3>2
  <2> QED  BY <2>2, <2>4, <2>5, LookKeeps
<1> QED  BY <1>1, <1>2, <1>3, <1>4, <1>5 DEF Read

\* Gas and tokens of the accounts, before anything is frozen.
LEMMA TopUpGasKeeps ==
    ASSUME FundsInv, NEW h \in Holder, TopUpGas(h)
    PROVE  FundsInv'
<1>1. /\ Doing(GasStep[h]) /\ gas' = [gas EXCEPT ![h] = TRUE] /\ process' = Advanced
      /\ UNCHANGED <<ownerVars, recovery, token, slips>>
  BY DEF TopUpGas, Ready
<1>2. /\ process.doing = "run" /\ process.i \in 1..2
      /\ (h = "owner" => process.i = 1) /\ (h = "requester" => process.i = 2)
  <2>1. CASE h = "owner"
    <3>2. GasStep[h] = "gas owner"  BY <2>1 DEF GasStep
    <3>1. Doing("gas owner")  BY <1>1, <3>2 DEF Doing
    <3>3. ~(/\ process.doing = "cleanup" /\ process.i \in 1..10
            /\ cleanupSteps[process.i] = "gas owner")
      BY CleanupStepsAre
    <3>4. process.doing = "run" /\ process.i = 1
      BY <3>1, <3>3, DoingIs, RunStepsAre
    <3> QED  BY <2>1, <3>4
  <2>2. CASE h = "requester"
    <3>2. GasStep[h] = "gas requester"  BY <2>2 DEF GasStep
    <3>1. Doing("gas requester")  BY <1>1, <3>2 DEF Doing
    <3>3. ~(/\ process.doing = "cleanup" /\ process.i \in 1..10
            /\ cleanupSteps[process.i] = "gas requester")
      BY CleanupStepsAre
    <3>4. process.doing = "run" /\ process.i = 2
      BY <3>1, <3>3, DoingIs, RunStepsAre
    <3> QED  BY <2>2, <3>4
  <2> QED  BY <2>1, <2>2 DEF Holder
<1>3. /\ process'.i = process.i + 1 /\ process'.doing = "run" /\ DOMAIN process' = ProcessFields
      /\ process'.tokens \in [Holder -> Int] /\ process # NoProcess
  BY <1>1, <1>2, AdvancedIs, DoingIs
<1>4. Settled /\ (process.i = 2 => gas["owner"]) /\ gas \in [Holder -> BOOLEAN]
  BY <1>2 DEF FundsInv, RunProgress
<1>5. /\ OwnerInv' /\ EarlierSettled' /\ Settled' /\ token' \in [Holder -> Int]
  BY <1>1, <1>4 DEF FundsInv, ownerVars, OwnerInv, Executed, EarlierSettled, Settled, Latest, Allowed
<1>6. /\ gas' \in [Holder -> BOOLEAN] /\ gas'["owner"]
      /\ process.i = 2 => gas'["requester"]
  BY <1>1, <1>2, <1>4 DEF Holder
<1>7. RunProgress' /\ CleanupProgress'
  <2>1. process'.i \in 2..3 /\ (process'.i = 3 => process.i = 2)
    BY <1>2, <1>3
  <2>2. /\ process'.i \in 1..29 /\ ~(process'.i > 4) /\ ~(process'.i \in 5..8)
        /\ ~(process'.i >= 9) /\ ~(process'.i >= 14) /\ ~(process'.i >= 23)
        /\ ~(process'.i \in 15..23) /\ ~(process'.i >= 24) /\ ~(process'.i >= 28)
        /\ process'.i # 29 /\ (process'.i \in 3..27 => process'.i = 3)
    BY <2>1
  <2> QED  BY <1>3, <1>5, <1>6, <2>1, <2>2 DEF RunProgress, CleanupProgress, HasGas
<1> QED  BY <1>1, <1>2, <1>3, <1>5, <1>6, <1>7, ProcessKeeps

LEMMA TopUpTokenKeeps ==
    ASSUME FundsInv, TopUpToken
    PROVE  FundsInv'
<1>1. /\ Doing("token") /\ process' = Advanced
      /\ token' = [token EXCEPT !["owner"] = IF @ < TokenTarget THEN TokenTarget ELSE @]
      /\ UNCHANGED <<ownerVars, recovery, gas, slips>>
  BY DEF TopUpToken, Ready
<1>2. process.doing = "run" /\ process.i = 3
  BY <1>1, DoingIs, RunStepsAre, CleanupStepsAre
<1>3. /\ process'.i = 4 /\ process'.doing = "run" /\ DOMAIN process' = ProcessFields
      /\ process'.tokens \in [Holder -> Int] /\ process # NoProcess
  BY <1>1, <1>2, AdvancedIs, DoingIs
<1>4. Settled /\ HasGas
  BY <1>2 DEF FundsInv, RunProgress
<1>5. OwnerInv' /\ EarlierSettled' /\ Settled' /\ HasGas' /\ gas' \in [Holder -> BOOLEAN]
  BY <1>1, <1>4 DEF FundsInv, ownerVars, OwnerInv, Executed, EarlierSettled, Settled, Latest, Allowed, HasGas
<1>6. token' \in [Holder -> Int]
  BY <1>1 DEF FundsInv, Holder, TokenTarget
<1>7. RunProgress' /\ CleanupProgress'
  BY <1>3, <1>5 DEF RunProgress, CleanupProgress
<1> QED  BY <1>1, <1>2, <1>3, <1>5, <1>6, <1>7, ProcessKeeps

\* Where each step that changes something is.
LEMMA StepsAre ==
    ASSUME FundsInv
    PROVE  /\ Doing("freeze") => process.doing = "run" /\ process.i = 4
           /\ Doing("deposit") => process.doing = "run" /\ process.i = 6
           /\ Doing("create") => process.doing = "run" /\ process.i = 8
           /\ Doing("ask") => process.doing = "run" /\ process.i = 10
           /\ Doing("execute") => process.doing = "run" /\ process.i = 13
           /\ Doing("stop") => process.doing = "run" /\ process.i = 19
           /\ Doing("resume") => process.doing = "run" /\ process.i = 21
           /\ Doing("revoke") => process.doing = "run" /\ process.i = 22
           /\ Doing("readPolicy") => process.doing = "cleanup" /\ process.i = 1
           /\ Doing("withdraw") => \/ process.doing = "run" /\ process.i = 23
                                   \/ process.doing = "cleanup" /\ process.i = 3
           /\ Doing("token back owner") => \/ process.doing = "run" /\ process.i = 25
                                           \/ process.doing = "cleanup" /\ process.i = 5
           /\ Doing("token back requester") => \/ process.doing = "run" /\ process.i = 26
                                               \/ process.doing = "cleanup" /\ process.i = 7
           /\ Doing("gas back owner") => \/ process.doing = "run" /\ process.i = 27
                                         \/ process.doing = "cleanup" /\ process.i = 8
           /\ Doing("gas back requester") => \/ process.doing = "run" /\ process.i = 28
                                             \/ process.doing = "cleanup" /\ process.i = 9
           /\ Doing("unlink") => \/ process.doing = "run" /\ process.i = 29
                                 \/ process.doing = "cleanup" /\ process.i = 10
<1>1. Doing("freeze") => process.doing = "run" /\ process.i = 4
  <2>1. ~(process.doing = "cleanup" /\ process.i \in 1..10 /\ cleanupSteps[process.i] = "freeze")
    BY CleanupStepsAre
  <2> QED  BY <2>1, DoingIs, RunStepsAre
<1>2. Doing("deposit") => process.doing = "run" /\ process.i = 6
  <2>1. ~(process.doing = "cleanup" /\ process.i \in 1..10 /\ cleanupSteps[process.i] = "deposit")
    BY CleanupStepsAre
  <2> QED  BY <2>1, DoingIs, RunStepsAre
<1>3. Doing("create") => process.doing = "run" /\ process.i = 8
  <2>1. ~(process.doing = "cleanup" /\ process.i \in 1..10 /\ cleanupSteps[process.i] = "create")
    BY CleanupStepsAre
  <2> QED  BY <2>1, DoingIs, RunStepsAre
<1>4. Doing("ask") => process.doing = "run" /\ process.i = 10
  <2>1. ~(process.doing = "cleanup" /\ process.i \in 1..10 /\ cleanupSteps[process.i] = "ask")
    BY CleanupStepsAre
  <2> QED  BY <2>1, DoingIs, RunStepsAre, ZenonT(30)
<1>5. Doing("execute") => process.doing = "run" /\ process.i = 13
  <2>1. ~(process.doing = "cleanup" /\ process.i \in 1..10 /\ cleanupSteps[process.i] = "execute")
    BY CleanupStepsAre
  <2> QED  BY <2>1, DoingIs, RunStepsAre, ZenonT(30)
<1>6. Doing("stop") => process.doing = "run" /\ process.i = 19
  <2>1. ~(process.doing = "cleanup" /\ process.i \in 1..10 /\ cleanupSteps[process.i] = "stop")
    BY CleanupStepsAre
  <2> QED  BY <2>1, DoingIs, RunStepsAre, ZenonT(30)
<1>7. Doing("resume") => process.doing = "run" /\ process.i = 21
  <2>1. ~(process.doing = "cleanup" /\ process.i \in 1..10 /\ cleanupSteps[process.i] = "resume")
    BY CleanupStepsAre
  <2> QED  BY <2>1, DoingIs, RunStepsAre, ZenonT(30)
<1>8. Doing("revoke") => process.doing = "run" /\ process.i = 22
  <2>1. ~(process.doing = "cleanup" /\ process.i \in 1..10 /\ cleanupSteps[process.i] = "revoke")
    BY CleanupStepsAre
  <2> QED  BY <2>1, DoingIs, RunStepsAre, ZenonT(30)
<1>9. Doing("readPolicy") => process.doing = "cleanup" /\ process.i = 1
  <2>1. ~(process.doing = "run" /\ process.i \in 1..29 /\ runSteps[process.i] = "readPolicy")
    BY RunStepsAre
  <2> QED  BY <2>1, DoingIs, CleanupStepsAre
<1>10. Doing("withdraw") => \/ process.doing = "run" /\ process.i = 23
                            \/ process.doing = "cleanup" /\ process.i = 3
  <2>1. process.i \in 1..29 /\ runSteps[process.i] = "withdraw" => process.i = 23
    BY RunStepsAre
  <2>2. process.i \in 1..10 /\ cleanupSteps[process.i] = "withdraw" => process.i = 3
    BY CleanupStepsAre
  <2> QED  BY <2>1, <2>2, DoingIs
<1>11. Doing("token back owner") => \/ process.doing = "run" /\ process.i = 25
                                    \/ process.doing = "cleanup" /\ process.i = 5
  <2>1. process.i \in 1..29 /\ runSteps[process.i] = "token back owner" => process.i = 25
    BY RunStepsAre
  <2>2. process.i \in 1..10 /\ cleanupSteps[process.i] = "token back owner" => process.i = 5
    BY CleanupStepsAre
  <2> QED  BY <2>1, <2>2, DoingIs
<1>12. Doing("token back requester") => \/ process.doing = "run" /\ process.i = 26
                                        \/ process.doing = "cleanup" /\ process.i = 7
  <2>1. process.i \in 1..29 /\ runSteps[process.i] = "token back requester" => process.i = 26
    BY RunStepsAre
  <2>2. process.i \in 1..10 /\ cleanupSteps[process.i] = "token back requester" => process.i = 7
    BY CleanupStepsAre
  <2> QED  BY <2>1, <2>2, DoingIs
<1>13. Doing("gas back owner") => \/ process.doing = "run" /\ process.i = 27
                                  \/ process.doing = "cleanup" /\ process.i = 8
  <2>1. process.i \in 1..29 /\ runSteps[process.i] = "gas back owner" => process.i = 27
    BY RunStepsAre
  <2>2. process.i \in 1..10 /\ cleanupSteps[process.i] = "gas back owner" => process.i = 8
    BY CleanupStepsAre
  <2> QED  BY <2>1, <2>2, DoingIs
<1>14. Doing("gas back requester") => \/ process.doing = "run" /\ process.i = 28
                                      \/ process.doing = "cleanup" /\ process.i = 9
  <2>1. process.i \in 1..29 /\ runSteps[process.i] = "gas back requester" => process.i = 28
    BY RunStepsAre
  <2>2. process.i \in 1..10 /\ cleanupSteps[process.i] = "gas back requester" => process.i = 9
    BY CleanupStepsAre
  <2> QED  BY <2>1, <2>2, DoingIs
<1>15. Doing("unlink") => \/ process.doing = "run" /\ process.i = 29
                          \/ process.doing = "cleanup" /\ process.i = 10
  <2>1. process.i \in 1..29 /\ runSteps[process.i] = "unlink" => process.i = 29
    BY RunStepsAre
  <2>2. process.i \in 1..10 /\ cleanupSteps[process.i] = "unlink" => process.i = 10
    BY CleanupStepsAre
  <2> QED  BY <2>1, <2>2, DoingIs
<1> QED  BY <1>1, <1>2, <1>3, <1>4, <1>5, <1>6, <1>7, <1>8, <1>9, <1>10, <1>11, <1>12, <1>13, <1>14, <1>15

\* What a run from its fifth step on rests on.
LEMMA RunHas ==
    ASSUME FundsInv, process.doing = "run", process.i \in 5..29
    PROVE  /\ process.policy = Latest /\ Latest \in DOMAIN policies
           /\ process.i \in 3..27 => HasGas
           /\ process.i >= 9 =>
                /\ process.request \in DOMAIN actionRequests
                /\ \A r \in DOMAIN actionRequests : actionRequests[r].policy = Latest => r = process.request
           /\ process.i >= 14 => actionRequests[process.request].status = "Executed"
           /\ process.i >= 23 => Settled
BY DEF FundsInv, RunProgress

FreezeSent == Sends("freeze", registerPolicy, [Advanced EXCEPT !.policy = Len(policies) + 1])

LEMMA FreezeKeeps ==
    ASSUME FundsInv, FreezeSent
    PROVE  FundsInv'
<1> DEFINE then == [Advanced EXCEPT !.policy = Len(policies) + 1]
<1>1. /\ Doing("freeze") /\ registerPolicy /\ process' = then
      /\ UNCHANGED <<recovery, gas, token, slips>>
  BY DEF FreezeSent, Sends, Ready
<1>2. process.doing = "run" /\ process.i = 4 /\ process # NoProcess
  BY <1>1, StepsAre, DoingIs
<1>3. /\ DOMAIN then = ProcessFields /\ then.doing = "run" /\ then.i = 5
      /\ then.policy = Len(policies) + 1 /\ then.tokens \in [Holder -> Int]
  BY <1>1, <1>2, AdvancedIs DEF ProcessFields
<1> HIDE DEF then
<1>4. Settled /\ HasGas
  BY <1>2 DEF FundsInv, RunProgress
<1>5. /\ OwnerInv' /\ Allowed' = Allowed /\ UNCHANGED <<account, actionRequests>>
      /\ Len(policies') = Len(policies) + 1
      /\ \A p \in DOMAIN policies : policies'[p] = policies[p]
      /\ DOMAIN policies = 1..Len(policies) /\ Len(policies) \in Nat
  BY <1>1, RegistrationOfPolicyKeeps DEF FundsInv
<1>6. DOMAIN policies' = 1..Len(policies')
  BY <1>5 DEF OwnerInv
<1>7. HasGas' /\ gas' \in [Holder -> BOOLEAN] /\ token' \in [Holder -> Int]
  BY <1>1, <1>4 DEF HasGas, FundsInv
<1>8. EarlierSettled'
  BY <1>4, <1>5, <1>6 DEF EarlierSettled, Settled, Latest
<1>9. Latest' \in DOMAIN policies' /\ Latest' = Len(policies) + 1
      /\ \A r \in DOMAIN actionRequests' : actionRequests'[r].policy # Latest'
  BY <1>5, <1>6 DEF Latest, FundsInv, OwnerInv
<1>10. RunProgress' /\ CleanupProgress'
  BY <1>1, <1>3, <1>7, <1>9 DEF RunProgress, CleanupProgress
<1> QED  BY <1>1, <1>2, <1>3, <1>5, <1>7, <1>8, <1>10, ProcessKeeps

CreateSent ==
    Sends("create", createRequest(process.policy, "ALLOW"),
          [Advanced EXCEPT !.request = Len(actionRequests) + 1])

LEMMA CreateKeeps ==
    ASSUME FundsInv, CreateSent
    PROVE  FundsInv'
<1> DEFINE then == [Advanced EXCEPT !.request = Len(actionRequests) + 1]
<1>1. /\ Doing("create") /\ createRequest(process.policy, "ALLOW") /\ process' = then
      /\ UNCHANGED <<recovery, gas, token, slips>>
  BY DEF CreateSent, Sends, Ready
<1>2. process.doing = "run" /\ process.i = 8 /\ process # NoProcess
  BY <1>1, StepsAre, DoingIs
<1>3. /\ DOMAIN then = ProcessFields /\ then.doing = "run" /\ then.i = 9
      /\ then.policy = process.policy /\ then.request = Len(actionRequests) + 1
      /\ then.tokens \in [Holder -> Int]
  BY <1>1, <1>2, AdvancedIs DEF ProcessFields
<1> HIDE DEF then
<1>4. /\ process.policy = Latest /\ Latest \in DOMAIN policies /\ HasGas
      /\ \A r \in DOMAIN actionRequests : actionRequests[r].policy # Latest
  BY <1>2 DEF FundsInv, RunProgress
<1>5. /\ OwnerInv' /\ Allowed' = Allowed /\ UNCHANGED <<account, policies>>
      /\ Len(actionRequests) \in Nat /\ DOMAIN actionRequests = 1..Len(actionRequests)
      /\ Len(actionRequests') = Len(actionRequests) + 1
      /\ \A r \in DOMAIN actionRequests : actionRequests'[r] = actionRequests[r]
  BY <1>1, <1>4, CreationKeeps DEF FundsInv
<1>6. DOMAIN actionRequests' = 1..Len(actionRequests')
  BY <1>5 DEF OwnerInv
<1>7. /\ HasGas' /\ gas' \in [Holder -> BOOLEAN] /\ token' \in [Holder -> Int] /\ Latest' = Latest
  BY <1>1, <1>4, <1>5 DEF HasGas, FundsInv, Latest
<1>8. EarlierSettled'
  BY <1>5, <1>7 DEF FundsInv, EarlierSettled, Allowed
<1>9. /\ process'.request \in DOMAIN actionRequests'
      /\ \A r \in DOMAIN actionRequests' : actionRequests'[r].policy = Latest => r = process'.request
  BY <1>1, <1>3, <1>4, <1>5, <1>6
<1>10. RunProgress' /\ CleanupProgress'
  BY <1>1, <1>3, <1>4, <1>5, <1>7, <1>9 DEF RunProgress, CleanupProgress
<1> QED  BY <1>1, <1>2, <1>3, <1>5, <1>7, <1>8, <1>10, ProcessKeeps

AskSent == Sends("ask", AskMachines(process.request), Advanced)

LEMMA AskSentKeeps ==
    ASSUME FundsInv, AskSent
    PROVE  FundsInv'
<1>1. /\ Doing("ask") /\ AskMachines(process.request) /\ process' = Advanced
      /\ UNCHANGED <<recovery, gas, token, slips>>
  BY DEF AskSent, Sends, Ready
<1>2. process.doing = "run" /\ process.i = 10 /\ process # NoProcess
  BY <1>1, StepsAre, DoingIs
<1>3. /\ DOMAIN process' = ProcessFields /\ process'.doing = "run" /\ process'.i = 11
      /\ process'.policy = process.policy /\ process'.request = process.request
      /\ process'.tokens \in [Holder -> Int]
  BY <1>1, <1>2, AdvancedIs
<1>4. /\ process.policy = Latest /\ Latest \in DOMAIN policies /\ HasGas
      /\ process.request \in DOMAIN actionRequests
      /\ \A r \in DOMAIN actionRequests : actionRequests[r].policy = Latest => r = process.request
  BY <1>2, RunHas
<1>5. /\ OwnerInv' /\ Allowed' = Allowed /\ UNCHANGED <<account, policies>>
      /\ DOMAIN actionRequests' = DOMAIN actionRequests
      /\ \A q \in DOMAIN actionRequests : actionRequests'[q].policy = actionRequests[q].policy
  BY <1>1, <1>4, AskKeeps DEF FundsInv
<1>7. /\ HasGas' /\ gas' \in [Holder -> BOOLEAN] /\ token' \in [Holder -> Int] /\ Latest' = Latest
  BY <1>1, <1>4, <1>5 DEF HasGas, FundsInv, Latest
<1>8. EarlierSettled'
  BY <1>5, <1>7 DEF FundsInv, EarlierSettled, Allowed
<1>10. RunProgress' /\ CleanupProgress'
  BY <1>3, <1>4, <1>5, <1>7 DEF RunProgress, CleanupProgress
<1> QED  BY <1>1, <1>2, <1>3, <1>5, <1>7, <1>8, <1>10, ProcessKeeps

\* The latest policy is stopped, resumed or revoked by its run.
LEMMA GovernedKeeps ==
    ASSUME FundsInv, process.doing = "run", process.i \in {19, 21, 22}, NEW from,
           NEW to \in {"Active", "Stopped", "Revoked"}, Moves(process.policy, from, to),
           process.i = 22 => to = "Revoked",
           process' = Advanced, DOMAIN Advanced = ProcessFields, Advanced.doing = process.doing,
           Advanced.i = process.i + 1, Advanced.policy = process.policy,
           Advanced.request = process.request, Advanced.amount = process.amount,
           Advanced.tokens \in [Holder -> Int], process # NoProcess,
           UNCHANGED <<recovery, gas, token, slips>>
    PROVE  FundsInv'
<1>1. /\ process.policy = Latest /\ Latest \in DOMAIN policies /\ HasGas
      /\ process.request \in DOMAIN actionRequests
      /\ \A r \in DOMAIN actionRequests : actionRequests[r].policy = Latest => r = process.request
      /\ actionRequests[process.request].status = "Executed"
  BY RunHas
<1>2. process.amount = account.available
  BY DEF FundsInv, RunProgress
<1>3. /\ OwnerInv' /\ Allowed' = Allowed /\ UNCHANGED <<account, actionRequests>>
      /\ Len(policies') = Len(policies) /\ policies'[Latest] = to
      /\ \A q \in DOMAIN policies : q # Latest => policies'[q] = policies[q]
  BY <1>1, GovernanceKeeps DEF FundsInv
<1>4. DOMAIN policies' = DOMAIN policies /\ Latest' = Latest
  BY <1>3 DEF FundsInv, OwnerInv, Latest
<1>5. HasGas' /\ gas' \in [Holder -> BOOLEAN] /\ token' \in [Holder -> Int]
  BY <1>1 DEF HasGas, FundsInv
<1>6. EarlierSettled'
  BY <1>3, <1>4 DEF FundsInv, EarlierSettled
<1>7. Allowed = {}
  BY <1>1 DEF FundsInv, EarlierSettled, Allowed
<1>8. to = "Revoked" => Settled'
  BY <1>3, <1>4, <1>6, <1>7 DEF EarlierSettled, Settled
<1>9. /\ process'.doing = "run" /\ process'.i \in {20, 22, 23} /\ process'.policy = Latest
      /\ process'.request = process.request /\ process'.amount = account.available
      /\ process'.i = 23 => to = "Revoked"
  BY <1>1, <1>2
<1>10. RunProgress'
  <2>1. /\ ~(process'.i <= 4) /\ process'.i # 2 /\ ~(process'.i \in 5..8) /\ process'.i \in 1..29
        /\ ~(process'.i >= 24) /\ ~(process'.i >= 28) /\ process'.i # 29
        /\ process'.i >= 23 => process'.i = 23
    BY <1>9
  <2> QED  BY <1>1, <1>3, <1>4, <1>5, <1>8, <1>9, <2>1 DEF RunProgress
<1>11. CleanupProgress'  BY <1>9 DEF CleanupProgress
<1>12. DOMAIN process' = ProcessFields /\ process'.tokens \in [Holder -> Int]  OBVIOUS
<1> QED  BY <1>3, <1>5, <1>6, <1>9, <1>10, <1>11, <1>12, ProcessKeeps

StopSent == Sends("stop", stopPolicy(process.policy), Advanced)
ResumeSent == Sends("resume", resumePolicy(process.policy), Advanced)
RevokeSent == Sends("revoke", revokePolicy(process.policy), Advanced)

LEMMA StopKeeps ==
    ASSUME FundsInv, StopSent
    PROVE  FundsInv'
<1>1. /\ Doing("stop") /\ Moves(process.policy, {"Active"}, "Stopped") /\ process' = Advanced
      /\ UNCHANGED <<recovery, gas, token, slips>>
  BY DEF StopSent, Sends, Ready, stopPolicy
<1>2. process.doing = "run" /\ process.i = 19 /\ process # NoProcess
  BY <1>1, StepsAre, DoingIs
<1> QED  BY <1>1, <1>2, AdvancedIs, GovernedKeeps

LEMMA ResumeKeeps ==
    ASSUME FundsInv, ResumeSent
    PROVE  FundsInv'
<1>1. /\ Doing("resume") /\ Moves(process.policy, {"Stopped"}, "Active") /\ process' = Advanced
      /\ UNCHANGED <<recovery, gas, token, slips>>
  BY DEF ResumeSent, Sends, Ready, resumePolicy
<1>2. process.doing = "run" /\ process.i = 21 /\ process # NoProcess
  BY <1>1, StepsAre, DoingIs
<1> QED  BY <1>1, <1>2, AdvancedIs, GovernedKeeps

LEMMA RevokeKeeps ==
    ASSUME FundsInv, RevokeSent
    PROVE  FundsInv'
<1>1. /\ Doing("revoke") /\ Moves(process.policy, {"Active", "Stopped"}, "Revoked")
      /\ process' = Advanced /\ UNCHANGED <<recovery, gas, token, slips>>
  BY DEF RevokeSent, Sends, Ready, revokePolicy
<1>2. process.doing = "run" /\ process.i = 22 /\ process # NoProcess
  BY <1>1, StepsAre, DoingIs
<1> QED  BY <1>1, <1>2, AdvancedIs, GovernedKeeps

ReadPolicySent ==
    Sends("readPolicy", IF NeedsRevoke(process.policy) THEN revokePolicy(process.policy)
                        ELSE UNCHANGED ownerVars, Advanced)

LEMMA ReadPolicyKeeps ==
    ASSUME FundsInv, ReadPolicySent
    PROVE  FundsInv'
<1>1. /\ Doing("readPolicy") /\ process' = Advanced
      /\ IF NeedsRevoke(process.policy) THEN revokePolicy(process.policy) ELSE UNCHANGED ownerVars
      /\ UNCHANGED <<recovery, gas, token, slips>>
  BY DEF ReadPolicySent, Sends, Ready
<1>2. process.doing = "cleanup" /\ process.i = 1 /\ process # NoProcess
  BY <1>1, StepsAre, DoingIs
<1>3. /\ DOMAIN process' = ProcessFields /\ process'.doing = "cleanup" /\ process'.i = 2
      /\ process'.policy = process.policy /\ process'.tokens \in [Holder -> Int]
  BY <1>1, <1>2, AdvancedIs
<1>4. process.policy = Latest /\ Latest \in DOMAIN policies
  BY <1>2 DEF FundsInv, CleanupProgress
<1>5. CASE NeedsRevoke(process.policy)
  <2>1. Moves(Latest, {"Active", "Stopped"}, "Revoked") /\ policies[Latest] # "Revoked"
    BY <1>1, <1>4, <1>5 DEF revokePolicy, NeedsRevoke
  <2>2. HasGas
    BY <1>4, <2>1 DEF FundsInv, Settled
  <2>3. /\ OwnerInv' /\ Allowed' = Allowed /\ UNCHANGED <<account, actionRequests>>
        /\ Len(policies') = Len(policies) /\ policies'[Latest] = "Revoked"
        /\ \A q \in DOMAIN policies : q # Latest => policies'[q] = policies[q]
    BY <1>4, <2>1, GovernanceKeeps DEF FundsInv
  <2>4. DOMAIN policies' = DOMAIN policies /\ Latest' = Latest
    BY <2>3 DEF FundsInv, OwnerInv, Latest
  <2>5. HasGas' /\ gas' \in [Holder -> BOOLEAN] /\ token' \in [Holder -> Int]
    BY <1>1, <2>2 DEF HasGas, FundsInv
  <2>6. EarlierSettled'
    BY <2>3, <2>4 DEF FundsInv, EarlierSettled
  <2>7. RunProgress' /\ CleanupProgress'
    BY <1>3, <1>4, <2>3, <2>4 DEF RunProgress, CleanupProgress
  <2> QED  BY <1>1, <1>2, <1>3, <2>3, <2>5, <2>6, <2>7, ProcessKeeps
<1>6. CASE ~NeedsRevoke(process.policy)
  <2>1. policies[Latest] = "Revoked"  BY <1>4, <1>6 DEF NeedsRevoke
  <2>2. RunProgress' /\ CleanupProgress'
    <3>1. UNCHANGED <<ownerVars, gas, token>>  BY <1>1, <1>6
    <3>2. process'.i = process.i + 1  BY <1>2, <1>3
    <3> QED  BY <1>2, <1>3, <2>1, <3>1, <3>2, CleanupLooks
  <2>3. UNCHANGED <<ownerVars, recovery, gas, token, slips>>  BY <1>1, <1>6
  <2> QED  BY <1>2, <1>3, <2>2, <2>3, LookKeeps
<1> QED  BY <1>5, <1>6

LEMMA GovernsKeeps ==
    ASSUME FundsInv, Governs
    PROVE  FundsInv'
<1>1. FreezeSent \/ CreateSent \/ AskSent \/ StopSent \/ ResumeSent \/ RevokeSent \/ ReadPolicySent
  BY DEF Governs, FreezeSent, CreateSent, AskSent, StopSent, ResumeSent, RevokeSent, ReadPolicySent
<1> QED
  BY <1>1, FreezeKeeps, CreateKeeps, AskSentKeeps, StopKeeps, ResumeKeeps, RevokeKeeps,
     ReadPolicyKeeps

LEMMA DepositsKeeps ==
    ASSUME FundsInv, Deposits
    PROVE  FundsInv'
<1>1. /\ Doing("deposit") /\ deposit(DepositAmount) /\ process' = Advanced
      /\ token' = [token EXCEPT !["owner"] = @ - DepositAmount]
      /\ UNCHANGED <<recovery, gas, slips>>
  BY DEF Deposits, Ready
<1>2. process.doing = "run" /\ process.i = 6 /\ process # NoProcess
  BY <1>1, StepsAre, DoingIs
<1>3. /\ DOMAIN process' = ProcessFields /\ process'.doing = "run" /\ process'.i = 7
      /\ process'.policy = process.policy /\ process'.tokens \in [Holder -> Int]
  BY <1>1, <1>2, AdvancedIs
<1>4. /\ process.policy = Latest /\ Latest \in DOMAIN policies /\ HasGas
      /\ \A r \in DOMAIN actionRequests : actionRequests[r].policy # Latest
  BY <1>2 DEF FundsInv, RunProgress
<1>5. OwnerInv' /\ Allowed' = Allowed /\ UNCHANGED <<policies, actionRequests>>
  BY <1>1, DepositKeeps DEF FundsInv, DepositAmount
<1>6. token' \in [Holder -> Int]  BY <1>1 DEF FundsInv, Holder, DepositAmount
<1>7. /\ HasGas' /\ gas' \in [Holder -> BOOLEAN] /\ Latest' = Latest
  BY <1>1, <1>4, <1>5 DEF HasGas, FundsInv, Latest
<1>8. EarlierSettled'
  BY <1>5, <1>7 DEF FundsInv, EarlierSettled
<1>10. RunProgress' /\ CleanupProgress'
  BY <1>3, <1>4, <1>5, <1>7 DEF RunProgress, CleanupProgress
<1> QED  BY <1>1, <1>2, <1>3, <1>5, <1>6, <1>7, <1>8, <1>10, ProcessKeeps

LEMMA ExecutesKeeps ==
    ASSUME FundsInv, Executes
    PROVE  FundsInv'
<1>1. /\ Doing("execute") /\ execute(process.request, "run") /\ process' = Advanced
      /\ token' = [token EXCEPT !["requester"] = @ + 1]
      /\ UNCHANGED <<recovery, gas, slips>>
  BY DEF Executes, Ready, Pays
<1>2. process.doing = "run" /\ process.i = 13 /\ process # NoProcess
  BY <1>1, StepsAre, DoingIs
<1>3. /\ DOMAIN process' = ProcessFields /\ process'.doing = "run" /\ process'.i = 14
      /\ process'.policy = process.policy /\ process'.request = process.request
      /\ process'.tokens \in [Holder -> Int]
  BY <1>1, <1>2, AdvancedIs
<1>4. /\ process.policy = Latest /\ Latest \in DOMAIN policies /\ HasGas
      /\ process.request \in DOMAIN actionRequests
      /\ \A r \in DOMAIN actionRequests : actionRequests[r].policy = Latest => r = process.request
  BY <1>2, RunHas
<1>5. Moved(process.request, "Executed")
  BY <1>1, <1>4, ExecutionKeeps DEF FundsInv, Party
<1>6. /\ OwnerInv' /\ UNCHANGED policies /\ Allowed' \subseteq Allowed
      /\ DOMAIN actionRequests' = DOMAIN actionRequests
      /\ actionRequests'[process.request].status = "Executed"
      /\ \A q \in DOMAIN actionRequests : actionRequests'[q].policy = actionRequests[q].policy
  BY <1>5 DEF Moved
<1>7. token' \in [Holder -> Int]  BY <1>1 DEF FundsInv, Holder
<1>8. /\ HasGas' /\ gas' \in [Holder -> BOOLEAN] /\ Latest' = Latest
  BY <1>1, <1>4, <1>6 DEF HasGas, FundsInv, Latest
<1>9. EarlierSettled'
  BY <1>6, <1>8 DEF FundsInv, EarlierSettled, Allowed
<1>10. RunProgress' /\ CleanupProgress'
  BY <1>3, <1>4, <1>6, <1>8 DEF RunProgress, CleanupProgress
<1> QED  BY <1>1, <1>2, <1>3, <1>6, <1>7, <1>8, <1>9, <1>10, ProcessKeeps

-----------------------------------------------------------------------------
(* Taking everything back.                                                  *)

\* What a run and a cleanup that return things rest on.
LEMMA ReturnHas ==
    ASSUME FundsInv, \/ process.doing = "run" /\ process.i \in 23..29
                     \/ process.doing = "cleanup" /\ process.i \in 3..10
    PROVE  /\ Settled /\ process.policy = Latest /\ Latest \in DOMAIN policies
           /\ process.doing = "run" =>
                /\ process.request \in DOMAIN actionRequests
                /\ \A r \in DOMAIN actionRequests : actionRequests[r].policy = Latest => r = process.request
                /\ actionRequests[process.request].status = "Executed"
<1>1. CASE process.doing = "run" /\ process.i \in 23..29
  BY <1>1, RunHas
<1>2. CASE process.doing = "cleanup" /\ process.i \in 3..10
  <2>1. /\ process.policy = Latest /\ Latest \in DOMAIN policies
        /\ policies[Latest] = "Revoked" /\ Allowed = {}
    BY <1>2 DEF FundsInv, CleanupProgress
  <2>2. Settled  BY <2>1 DEF FundsInv, EarlierSettled, Settled
  <2> QED  BY <1>2, <2>1, <2>2
<1> QED  BY <1>1, <1>2

\* What such a step must do: the contracts keep their policies and requests,
\* and the vault's account, the tokens and the gas are as the next step needs.
LEMMA ReturnKeeps ==
    ASSUME FundsInv, OwnerInv', UNCHANGED <<policies, actionRequests, recovery, slips>>,
           \/ process.doing = "run" /\ process.i \in 23..28
           \/ process.doing = "cleanup" /\ process.i \in 3..9,
           process'.doing = process.doing, process'.i = process.i + 1,
           process'.policy = process.policy, process'.request = process.request,
           DOMAIN process' = ProcessFields, process'.tokens \in [Holder -> Int],
           gas' \in [Holder -> BOOLEAN], token' \in [Holder -> Int], account'.available = 0,
           process.doing = "run" =>
             /\ process.i <= 26 => gas' = gas
             /\ process.i >= 27 => ~gas'["owner"]
             /\ process.i = 28 => ~gas'["requester"],
           process.doing = "cleanup" =>
             /\ process.i = 4 => process'.tokens["owner"] = token'["owner"]
             /\ process.i >= 5 => token'["owner"] = 0
             /\ process.i = 6 => process'.tokens["requester"] = token'["requester"]
             /\ process.i >= 7 => token'["requester"] = 0
             /\ process.i >= 8 => ~gas'["owner"]
             /\ process.i = 9 => ~gas'["requester"]
    PROVE  FundsInv'
<1>1. /\ Settled /\ process.policy = Latest /\ Latest \in DOMAIN policies
      /\ process.doing = "run" =>
           /\ process.request \in DOMAIN actionRequests
           /\ \A r \in DOMAIN actionRequests : actionRequests[r].policy = Latest => r = process.request
           /\ actionRequests[process.request].status = "Executed"
  BY ReturnHas
<1>2. Settled' /\ EarlierSettled' /\ Latest' = Latest /\ Allowed' = Allowed
  BY <1>1 DEF Settled, EarlierSettled, Latest, Allowed
<1>3. process # NoProcess
  BY DEF NoProcess
<1>4. CASE process.doing = "run" /\ process.i \in 23..28
  <2>1. /\ process'.i \in 24..29 /\ process'.i \in 1..29 /\ ~(process'.i <= 4) /\ process'.i # 2
        /\ ~(process'.i \in 5..8) /\ ~(process'.i \in 15..23)
        /\ process'.i \in 3..27 => process.i <= 26 /\ process.i \in 3..27
        /\ process'.i >= 28 => process.i >= 27
        /\ process'.i = 29 => process.i = 28
    BY <1>4
  <2>2. process'.i \in 3..27 => HasGas'
    BY <1>4, <2>1 DEF FundsInv, RunProgress, HasGas
  <2>3. RunProgress'
    BY <1>1, <1>2, <1>4, <2>1, <2>2 DEF RunProgress
  <2>4. CleanupProgress'  BY <1>4 DEF CleanupProgress
  <2> QED  BY <1>2, <1>3, <2>3, <2>4, ProcessKeeps
<1>5. CASE process.doing = "cleanup" /\ process.i \in 3..9
  <2>1. /\ process'.i \in 4..10 /\ process'.i \in 1..10 /\ process'.i # 3
        /\ process'.i = 5 => process.i = 4
        /\ process'.i >= 6 => process.i >= 5
        /\ process'.i = 7 => process.i = 6
        /\ process'.i >= 8 => process.i >= 7
        /\ process'.i >= 9 => process.i >= 8
        /\ process'.i = 10 => process.i = 9
    BY <1>5
  <2>2. policies'[Latest'] = "Revoked" /\ Allowed' = {}
    BY <1>1, <1>2 DEF Settled
  <2>3. CleanupProgress'
    BY <1>1, <1>2, <1>5, <2>1, <2>2 DEF CleanupProgress
  <2>4. RunProgress'  BY <1>5 DEF RunProgress
  <2> QED  BY <1>2, <1>3, <2>3, <2>4, ProcessKeeps
<1> QED  BY <1>4, <1>5

LEMMA WithdrawsKeeps ==
    ASSUME FundsInv, Withdraws
    PROVE  FundsInv'
<1> DEFINE then == [Advanced EXCEPT !.after = account']
<1>1. /\ Doing("withdraw") /\ process' = then
      /\ IF process.amount = 0 THEN UNCHANGED ownerVars ELSE withdraw(process.amount)
      /\ token' = [token EXCEPT !["owner"] = @ + process.amount]
      /\ UNCHANGED <<recovery, gas, slips>>
  BY DEF Withdraws, Ready
<1>2. \/ process.doing = "run" /\ process.i = 23
      \/ process.doing = "cleanup" /\ process.i = 3
  BY <1>1, StepsAre
<1>3. /\ DOMAIN then = ProcessFields /\ then.doing = process.doing /\ then.i = process.i + 1
      /\ then.policy = process.policy /\ then.request = process.request
      /\ then.tokens \in [Holder -> Int]
  BY <1>1, AdvancedIs DEF ProcessFields
<1> HIDE DEF then
<1>4. process.amount = account.available
  BY <1>2 DEF FundsInv, RunProgress, CleanupProgress
<1>5. account.available \in Nat  BY DEF FundsInv, OwnerInv
<1>6. OwnerInv' /\ UNCHANGED <<policies, actionRequests>> /\ account'.available = 0
  <2>1. CASE process.amount = 0
    BY <1>1, <1>4, <2>1 DEF FundsInv, ownerVars, OwnerInv, Allowed, Executed
  <2>2. CASE process.amount # 0
    <3>1. withdraw(account.available)  BY <1>1, <1>4, <2>2
    <3> QED  BY <1>5, <3>1, WithdrawalKeeps DEF FundsInv
  <2> QED  BY <2>1, <2>2
<1>7. token' \in [Holder -> Int] /\ gas' \in [Holder -> BOOLEAN]
  BY <1>1, <1>4, <1>5 DEF FundsInv, Holder
<1> QED  BY <1>1, <1>2, <1>3, <1>6, <1>7, ReturnKeeps

LEMMA NothingInVault ==
    ASSUME FundsInv, \/ process.doing = "run" /\ process.i >= 24
                     \/ process.doing = "cleanup" /\ process.i >= 4
    PROVE  account.available = 0
BY DEF FundsInv, RunProgress, CleanupProgress

LEMMA ReturnTokensKeeps ==
    ASSUME FundsInv, NEW h \in Holder, ReturnTokens(h)
    PROVE  FundsInv'
<1>1. /\ Doing(TokenBackStep[h]) /\ process' = Advanced
      /\ token' = [token EXCEPT ![h] = @ - process.tokens[h]]
      /\ UNCHANGED <<ownerVars, recovery, gas, slips>>
  BY DEF ReturnTokens, Ready
<1>2. \/ h = "owner" /\ \/ process.doing = "run" /\ process.i = 25
                        \/ process.doing = "cleanup" /\ process.i = 5
      \/ h = "requester" /\ \/ process.doing = "run" /\ process.i = 26
                            \/ process.doing = "cleanup" /\ process.i = 7
  <2>1. CASE h = "owner"
    <3>1. TokenBackStep[h] = "token back owner"  BY <2>1 DEF TokenBackStep
    <3>2. Doing("token back owner")  BY <1>1, <3>1 DEF Doing
    <3> QED  BY <2>1, <3>2, StepsAre
  <2>2. CASE h = "requester"
    <3>1. TokenBackStep[h] = "token back requester"  BY <2>2 DEF TokenBackStep
    <3>2. Doing("token back requester")  BY <1>1, <3>1 DEF Doing
    <3> QED  BY <2>2, <3>2, StepsAre
  <2> QED  BY <2>1, <2>2 DEF Holder
<1>3. /\ DOMAIN process' = ProcessFields /\ process'.doing = process.doing /\ process'.i = process.i + 1
      /\ process'.policy = process.policy /\ process'.request = process.request
      /\ process'.tokens = process.tokens /\ process'.tokens \in [Holder -> Int]
  BY <1>1, AdvancedIs
<1>4. account'.available = 0
  BY <1>1, <1>2, NothingInVault DEF ownerVars
<1>5. OwnerInv' /\ UNCHANGED <<policies, actionRequests>>
  BY <1>1 DEF FundsInv, ownerVars, OwnerInv, Allowed, Executed
<1>6. /\ token' \in [Holder -> Int] /\ gas' \in [Holder -> BOOLEAN]
      /\ token'[h] = token[h] - process.tokens[h] /\ token[h] \in Int
      /\ \A g \in Holder : g # h => token'[g] = token[g]
  BY <1>1, <1>3 DEF FundsInv, Holder
<1>7. process.doing = "cleanup" /\ process.i \in {5, 7} =>
        /\ token'["owner"] = 0
        /\ process.i = 7 => token'["requester"] = 0
  BY <1>2, <1>6 DEF FundsInv, CleanupProgress, Holder
<1> QED  BY <1>1, <1>2, <1>3, <1>4, <1>5, <1>6, <1>7, ReturnKeeps

LEMMA ReturnGasKeeps ==
    ASSUME FundsInv, NEW h \in Holder, returnNativeGas(h)
    PROVE  FundsInv'
<1>1. /\ Doing(GasBackStep[h]) /\ process' = Advanced
      /\ gas' = [gas EXCEPT ![h] = FALSE]
      /\ UNCHANGED <<ownerVars, recovery, token, slips>>
  BY DEF returnNativeGas, Ready
<1>2. \/ h = "owner" /\ \/ process.doing = "run" /\ process.i = 27
                        \/ process.doing = "cleanup" /\ process.i = 8
      \/ h = "requester" /\ \/ process.doing = "run" /\ process.i = 28
                            \/ process.doing = "cleanup" /\ process.i = 9
  <2>1. CASE h = "owner"
    <3>1. GasBackStep[h] = "gas back owner"  BY <2>1 DEF GasBackStep
    <3>2. Doing("gas back owner")  BY <1>1, <3>1 DEF Doing
    <3> QED  BY <2>1, <3>2, StepsAre
  <2>2. CASE h = "requester"
    <3>1. GasBackStep[h] = "gas back requester"  BY <2>2 DEF GasBackStep
    <3>2. Doing("gas back requester")  BY <1>1, <3>1 DEF Doing
    <3> QED  BY <2>2, <3>2, StepsAre
  <2> QED  BY <2>1, <2>2 DEF Holder
<1>3. /\ DOMAIN process' = ProcessFields /\ process'.doing = process.doing /\ process'.i = process.i + 1
      /\ process'.policy = process.policy /\ process'.request = process.request
      /\ process'.tokens \in [Holder -> Int]
  BY <1>1, AdvancedIs
<1>4. account'.available = 0
  BY <1>1, <1>2, NothingInVault DEF ownerVars
<1>5. OwnerInv' /\ UNCHANGED <<policies, actionRequests>>
  BY <1>1 DEF FundsInv, ownerVars, OwnerInv, Allowed, Executed
<1>6. /\ token' \in [Holder -> Int] /\ gas' \in [Holder -> BOOLEAN]
      /\ ~gas'[h] /\ \A g \in Holder : g # h => gas'[g] = gas[g]
  BY <1>1 DEF FundsInv, Holder
<1>7. h = "requester" => ~gas["owner"]
  BY <1>2 DEF FundsInv, RunProgress, CleanupProgress
<1>8. process.doing = "cleanup" => token'["owner"] = 0 /\ token'["requester"] = 0
  BY <1>1, <1>2 DEF FundsInv, CleanupProgress
<1>9. ~gas'["owner"] /\ (h = "requester" => ~gas'["requester"])
  BY <1>2, <1>6, <1>7 DEF Holder
<1> QED  BY <1>1, <1>2, <1>3, <1>4, <1>5, <1>6, <1>8, <1>9, ReturnKeeps

LEMMA UnlinkKeeps ==
    ASSUME FundsInv, Unlink
    PROVE  FundsInv'
<1>1. /\ Doing("unlink") /\ Proceeds("unlink") /\ recovery' = "removed" /\ process' = NoProcess
      /\ UNCHANGED <<ownerVars, gas, token, slips>>
  BY DEF Unlink, Ready
<1>2. \/ process.doing = "run" /\ process.i = 29
      \/ process.doing = "cleanup" /\ process.i = 10
  BY <1>1, StepsAre
<1>3. Settled /\ account.available = 0
  BY <1>2, ReturnHas, NothingInVault
<1>4. ~gas["owner"] /\ ~gas["requester"]
  BY <1>2 DEF FundsInv, RunProgress, CleanupProgress
<1>5. token["owner"] = 0 /\ token["requester"] = 0
  <2>1. CASE process.doing = "run"
    <3>1. Emptied  BY <1>1, <2>1 DEF Proceeds
    <3> QED  BY <3>1 DEF Emptied, Holder
  <2>2. CASE process.doing = "cleanup" /\ process.i = 10
    BY <2>2 DEF FundsInv, CleanupProgress
  <2> QED  BY <1>2, <2>1, <2>2
<1>6. OwnerInv' /\ EarlierSettled' /\ Settled' /\ account'.available = 0
  BY <1>1, <1>3 DEF FundsInv, ownerVars, OwnerInv, Executed, EarlierSettled, Settled, Latest, Allowed
<1>7. NothingLeft'
  BY <1>1, <1>4, <1>5, <1>6 DEF NothingLeft, Holder
<1>8. RunProgress' /\ CleanupProgress' /\ ProcessIs'
  BY <1>1 DEF RunProgress, CleanupProgress, ProcessIs, NoProcess
<1> QED  BY <1>1, <1>6, <1>7, <1>8 DEF FundsInv

-----------------------------------------------------------------------------
(* Every step.                                                              *)

LEMMA ProcessGoesOnKeeps ==
    ASSUME FundsInv, ProcessGoesOn
    PROVE  FundsInv'
<1>1. Throws => FundsInv'
  BY ProcessEnds DEF Throws
<1>2. ASSUME NEW h \in Holder, TopUpGas(h) \/ ReturnTokens(h) \/ returnNativeGas(h)
      PROVE  FundsInv'
  BY <1>2, TopUpGasKeeps, ReturnTokensKeeps, ReturnGasKeeps
<1> QED
  BY <1>1, <1>2, ReadKeeps, TopUpTokenKeeps, GovernsKeeps, DepositsKeeps, ExecutesKeeps,
     WithdrawsKeeps, UnlinkKeeps DEF ProcessGoesOn

LEMMA FundsStep ==
    ASSUME FundsInv, MaxSlips = 0, [MultiOwnerNext]_multiOwnerAll
    PROVE  FundsInv'
<1>1. CASE UNCHANGED multiOwnerAll
  BY <1>1 DEF FundsInv, multiOwnerAll, multiOwnerVars, ownerVars, OwnerInv, Executed, Allowed, EarlierSettled,
     Settled, HasGas, Latest, NothingLeft, ProcessIs, RunProgress, CleanupProgress
<1>2. CASE Dies
  BY <1>2, ProcessEnds DEF Dies, Mishap
<1>3. ASSUME NEW r \in DOMAIN actionRequests, RelayDecides(r) \/ Expires(r) \/ PaysElsewhere(r)
      PROVE  FundsInv'
  BY <1>3, RelayDecisionKeeps, ExpiryKeeps, PaymentElsewhereKeeps
<1> QED
  BY <1>1, <1>2, <1>3, StartRunKeeps, TearKeeps, StartCleanupKeeps, ProcessGoesOnKeeps
     DEF MultiOwnerNext

\* With an operator who makes no slip, whatever dies, fails or comes late: the
\* recovery file stays as long as the accounts or the vault hold anything.
THEOREM FundsAreKept ==
    MaxSlips = 0 /\ MultiOwnerSpec => []FundsKept
<1>1. ASSUME FundsInv
      PROVE  FundsKept
  <2>1. recovery \in {"absent", "torn", "removed"} => NothingLeft
    BY <1>1 DEF FundsInv
  <2>2. Allowed = {} => account.reserved = 0
    BY <1>1, NothingReserved DEF FundsInv
  <2> QED  BY <2>1, <2>2 DEF FundsKept, NothingLeft, Settled
<1>2. MaxSlips = 0 /\ FundsInv /\ [MultiOwnerNext]_multiOwnerAll => FundsInv'
  BY FundsStep
<1>3. CASE MaxSlips = 0
  <2>1. FundsInv /\ [MultiOwnerNext]_multiOwnerAll => FundsInv'
    BY <1>2, <1>3
  <2>2. FundsInv => FundsKept  BY <1>1
  <2> QED  BY <2>1, <2>2, FundsStart, PTL DEF MultiOwnerSpec
<1> QED  BY <1>3

-----------------------------------------------------------------------------
(* The lifecycle runs: what others and the run itself do to the contracts.   *)

\* A request that is executed or denied stays so, and a policy revoked.
FinalStays ==
    /\ DOMAIN actionRequests \subseteq DOMAIN actionRequests'
    /\ \A r \in DOMAIN actionRequests :
         actionRequests[r].status \in {"Denied", "Executed"} => actionRequests'[r] = actionRequests[r]
    /\ \A p \in DOMAIN policies :
         p \in DOMAIN policies' /\ (policies[p] = "Revoked" => policies'[p] = "Revoked")

Governed(p) == stopPolicy(p) \/ resumePolicy(p) \/ revokePolicy(p)

Requested(r) ==
    \/ AskMachines(r) \/ End(r)
    \/ \E by \in Party : submitEvaluation(r, by) \/ execute(r, by)

OwnerStep ==
    \/ UNCHANGED ownerVars \/ registerPolicy
    \/ \E amount \in Nat : deposit(amount) \/ withdraw(amount)
    \/ \E p \in DOMAIN policies :
         Governed(p) \/ \E verdict \in {"ALLOW", "DENY"} : createRequest(p, verdict)
    \/ \E r \in DOMAIN actionRequests : Requested(r)

LEMMA OneMoves ==
    ASSUME OwnerInv, NEW r \in DOMAIN actionRequests, NEW status, Moved(r, status),
           actionRequests[r].status \notin {"Denied", "Executed"}
    PROVE  OwnerInv' /\ FinalStays
BY DEF Moved, FinalStays

LEMMA OwnerMoves ==
    ASSUME OwnerInv, OwnerStep
    PROVE  OwnerInv' /\ FinalStays
<1>1. CASE UNCHANGED ownerVars
  BY <1>1 DEF ownerVars, OwnerInv, Allowed, Executed, FinalStays
<1>2. CASE registerPolicy
  BY <1>2, RegistrationOfPolicyKeeps DEF FinalStays, OwnerInv
<1>3. ASSUME NEW amount \in Nat, deposit(amount) \/ withdraw(amount)
      PROVE  OwnerInv' /\ FinalStays
  <2>1. OwnerInv' /\ UNCHANGED <<policies, actionRequests>>
    BY <1>3, DepositKeeps, WithdrawalKeeps
  <2> QED  BY <2>1 DEF FinalStays
<1>4. ASSUME NEW p \in DOMAIN policies, Governed(p)
      PROVE  OwnerInv' /\ FinalStays
  <2>1. PICK from \in {{"Active"}, {"Stopped"}, {"Active", "Stopped"}},
             to \in {"Active", "Stopped", "Revoked"} : Moves(p, from, to)
    BY <1>4 DEF Governed, stopPolicy, resumePolicy, revokePolicy
  <2>2. /\ OwnerInv' /\ UNCHANGED actionRequests /\ Len(policies') = Len(policies)
        /\ \A q \in DOMAIN policies : q # p => policies'[q] = policies[q]
    BY <2>1, GovernanceKeeps
  <2>3. policies[p] # "Revoked"  BY <2>1 DEF Moves
  <2>4. DOMAIN policies' = DOMAIN policies  BY <2>2 DEF OwnerInv
  <2> QED  BY <2>2, <2>3, <2>4 DEF FinalStays
<1>5. ASSUME NEW p \in DOMAIN policies, NEW verdict \in {"ALLOW", "DENY"}, createRequest(p, verdict)
      PROVE  OwnerInv' /\ FinalStays
  <2>1. /\ OwnerInv' /\ UNCHANGED policies /\ DOMAIN actionRequests = 1..Len(actionRequests)
        /\ Len(actionRequests) \in Nat /\ Len(actionRequests') = Len(actionRequests) + 1
        /\ \A r \in DOMAIN actionRequests : actionRequests'[r] = actionRequests[r]
    BY <1>5, CreationKeeps
  <2>2. DOMAIN actionRequests \subseteq DOMAIN actionRequests'
    BY <2>1 DEF OwnerInv
  <2> QED  BY <2>1, <2>2 DEF FinalStays
<1>6. ASSUME NEW r \in DOMAIN actionRequests, Requested(r)
      PROVE  OwnerInv' /\ FinalStays
  <2>1. CASE AskMachines(r)
    <3>1. /\ OwnerInv' /\ UNCHANGED policies /\ DOMAIN actionRequests' = DOMAIN actionRequests
          /\ \A q \in DOMAIN actionRequests : q # r => actionRequests'[q] = actionRequests[q]
          /\ actionRequests[r].status = "Pending"
      BY <2>1, AskKeeps
    <3> QED  BY <3>1 DEF FinalStays
  <2>2. CASE End(r)
    BY <2>2, EndKeeps, OneMoves
  <2>3. ASSUME NEW by \in Party, submitEvaluation(r, by)
        PROVE  OwnerInv' /\ FinalStays
    <3>1. /\ actionRequests[r].status = "Pending"
          /\ \E status \in {"Allowed", "Denied"} : Moved(r, status)
      BY <2>3, DecisionKeeps
    <3> QED  BY <3>1, OneMoves
  <2>4. ASSUME NEW by \in Party, execute(r, by)
        PROVE  OwnerInv' /\ FinalStays
    <3>1. r \in Allowed /\ Moved(r, "Executed")
      BY <2>4, ExecutionKeeps
    <3>2. actionRequests[r].status = "Allowed"  BY <3>1 DEF Allowed
    <3> QED  BY <3>1, <3>2, OneMoves
  <2> QED  BY <1>6, <2>1, <2>2, <2>3, <2>4 DEF Requested
<1> QED  BY <1>1, <1>2, <1>3, <1>4, <1>5, <1>6 DEF OwnerStep

-----------------------------------------------------------------------------
(* Where the steps of a run are.                                            *)

Landmark ==
    {"freeze", "before", "createAllow", "execute", "afterAllow", "createDeny", "afterDeny",
     "conserved", "readRevoked", "evidence"}

At == CASE profile = "simulated" ->
             [freeze |-> 5, before |-> 1, createAllow |-> 8, execute |-> 11, afterAllow |-> 12,
              createDeny |-> 14, afterDeny |-> 17, conserved |-> 26, readRevoked |-> 25,
              evidence |-> 27]
        [] profile = "live" ->
             [freeze |-> 5, before |-> 8, createAllow |-> 9, execute |-> 15, afterAllow |-> 16,
              createDeny |-> 17, afterDeny |-> 22, conserved |-> 23, readRevoked |-> 29,
              evidence |-> 30]
        [] profile = "hosted" ->
             [freeze |-> 5, before |-> 9, createAllow |-> 10, execute |-> 13, afterAllow |-> 14,
              createDeny |-> 15, afterDeny |-> 18, conserved |-> 19, readRevoked |-> 23,
              evidence |-> 24]

LEMMA OrderOfSteps ==
    ASSUME profile \in {"simulated", "live", "hosted"}
    PROVE  /\ At.freeze = 5 /\ At.before \in 1..9 /\ At.createAllow \in 8..10
           /\ At.execute \in 11..15 /\ At.afterAllow \in 12..16 /\ At.createDeny \in 14..17
           /\ At.afterDeny \in 17..22 /\ At.conserved \in 19..26 /\ At.readRevoked \in 23..29
           /\ At.evidence \in 24..30
           /\ At.before < At.createAllow /\ At.createAllow < At.execute
           /\ At.execute < At.afterAllow /\ At.afterAllow < At.createDeny
           /\ At.createDeny < At.afterDeny /\ At.afterDeny < At.conserved
           /\ At.conserved < At.evidence /\ At.readRevoked < At.evidence
           /\ At.afterDeny < At.readRevoked /\ At.before # 5
           /\ At.conserved # At.readRevoked
<1>1. CASE profile = "simulated"  BY <1>1 DEF At
<1>2. CASE profile = "live"  BY <1>2 DEF At
<1>3. CASE profile = "hosted"  BY <1>3 DEF At
<1> QED  BY <1>1, <1>2, <1>3

LEMMA LengthOfRun ==
    ASSUME profile \in {"simulated", "live", "hosted"}
    PROVE  /\ DOMAIN LifecycleSteps = 1..At.evidence
           /\ Len(LifecycleSteps) = At.evidence
<1>1. CASE profile = "simulated"
  BY <1>1 DEF At, LifecycleSteps, runSimulatedLifecycle, Governance
<1>2. CASE profile = "live"
  BY <1>2 DEF At, LifecycleSteps, runLive, executeLiveCustody
<1>3. CASE profile = "hosted"
  BY <1>3 DEF At, LifecycleSteps, runHosted, executeLiveCustody
<1> QED  BY <1>1, <1>2, <1>3

LEMMA SimulatedStepsAre ==
    \A i \in 1..27 :
        /\ runSimulatedLifecycle[i] = "freeze" <=> i = 5
        /\ runSimulatedLifecycle[i] = "before" <=> i = 1
        /\ runSimulatedLifecycle[i] = "createAllow" <=> i = 8
        /\ runSimulatedLifecycle[i] = "execute" <=> i = 11
        /\ runSimulatedLifecycle[i] = "afterAllow" <=> i = 12
        /\ runSimulatedLifecycle[i] = "createDeny" <=> i = 14
        /\ runSimulatedLifecycle[i] = "afterDeny" <=> i = 17
        /\ runSimulatedLifecycle[i] = "conserved" <=> i = 26
        /\ runSimulatedLifecycle[i] = "readRevoked" <=> i = 25
        /\ runSimulatedLifecycle[i] = "evidence" <=> i = 27
        /\ runSimulatedLifecycle[i] \in {"machine", "receipt"} => i < 5
        /\ runSimulatedLifecycle[i] \in {"dispatch", "decide"} => i > 8
        /\ runSimulatedLifecycle[i] \in {"stop", "resume", "revoke"} => i > 5
<1>1. /\ runSimulatedLifecycle[1] = "before" /\ runSimulatedLifecycle[2] = "machine"
      /\ runSimulatedLifecycle[3] = "machine" /\ runSimulatedLifecycle[4] = "machine"
      /\ runSimulatedLifecycle[5] = "freeze" /\ runSimulatedLifecycle[6] = "readActive"
      /\ runSimulatedLifecycle[7] = "sign" /\ runSimulatedLifecycle[8] = "createAllow"
      /\ runSimulatedLifecycle[9] = "submit" /\ runSimulatedLifecycle[10] = "decide"
      /\ runSimulatedLifecycle[11] = "execute"
      /\ runSimulatedLifecycle[12] = "afterAllow" /\ runSimulatedLifecycle[13] = "sign"
      /\ runSimulatedLifecycle[14] = "createDeny" /\ runSimulatedLifecycle[15] = "submit"
      /\ runSimulatedLifecycle[16] = "decide" /\ runSimulatedLifecycle[17] = "afterDeny"
      /\ runSimulatedLifecycle[18] = "stop" /\ runSimulatedLifecycle[19] = "readStopped"
      /\ runSimulatedLifecycle[20] = "probe" /\ runSimulatedLifecycle[21] = "resume"
      /\ runSimulatedLifecycle[22] = "readActive" /\ runSimulatedLifecycle[23] = "revoke"
      /\ runSimulatedLifecycle[24] = "probe" /\ runSimulatedLifecycle[25] = "readRevoked"
      /\ runSimulatedLifecycle[26] = "conserved"
      /\ runSimulatedLifecycle[27] = "evidence"
  BY DEF runSimulatedLifecycle, Governance
<1> TAKE i \in 1..27
<1>2. CASE i = 1 \/ i = 2 \/ i = 3 \/ i = 4 \/ i = 5 \/ i = 6
  BY <1>1, <1>2
<1>3. CASE i = 7 \/ i = 8 \/ i = 9 \/ i = 10 \/ i = 11 \/ i = 12
  BY <1>1, <1>3
<1>4. CASE i = 13 \/ i = 14 \/ i = 15 \/ i = 16 \/ i = 17 \/ i = 18
  BY <1>1, <1>4
<1>5. CASE i = 19 \/ i = 20 \/ i = 21 \/ i = 22 \/ i = 23 \/ i = 24
  BY <1>1, <1>5
<1>6. CASE i = 25 \/ i = 26 \/ i = 27
  BY <1>1, <1>6
<1> QED  BY <1>2, <1>3, <1>4, <1>5, <1>6

LEMMA LiveStepsAre ==
    \A i \in 1..30 :
        /\ runLive[i] = "freeze" <=> i = 5
        /\ runLive[i] = "before" <=> i = 8
        /\ runLive[i] = "createAllow" <=> i = 9
        /\ runLive[i] = "execute" <=> i = 15
        /\ runLive[i] = "afterAllow" <=> i = 16
        /\ runLive[i] = "createDeny" <=> i = 17
        /\ runLive[i] = "afterDeny" <=> i = 22
        /\ runLive[i] = "conserved" <=> i = 23
        /\ runLive[i] = "readRevoked" <=> i = 29
        /\ runLive[i] = "evidence" <=> i = 30
        /\ runLive[i] \in {"machine", "receipt"} => i < 5
        /\ runLive[i] \in {"dispatch", "decide"} => i > 9
        /\ runLive[i] \in {"stop", "resume", "revoke"} => i > 5
<1>1. /\ runLive[1] = "machines" /\ runLive[2] = "receipt" /\ runLive[3] = "receipt"
      /\ runLive[4] = "receipt" /\ runLive[5] = "freeze" /\ runLive[6] = "readActive"
      /\ runLive[7] = "custody" /\ runLive[8] = "before" /\ runLive[9] = "createAllow"
      /\ runLive[10] = "dispatch" /\ runLive[11] = "collect" /\ runLive[12] = "pause"
      /\ runLive[13] = "submit" /\ runLive[14] = "decide" /\ runLive[15] = "execute"
      /\ runLive[16] = "afterAllow" /\ runLive[17] = "createDeny"
      /\ runLive[18] = "dispatch" /\ runLive[19] = "collect" /\ runLive[20] = "submit"
      /\ runLive[21] = "decide" /\ runLive[22] = "afterDeny" /\ runLive[23] = "conserved"
      /\ runLive[24] = "stop" /\ runLive[25] = "readStopped" /\ runLive[26] = "resume"
      /\ runLive[27] = "readActive" /\ runLive[28] = "revoke"
      /\ runLive[29] = "readRevoked" /\ runLive[30] = "evidence"
  BY DEF runLive, executeLiveCustody
<1> TAKE i \in 1..30
<1>2. CASE i = 1 \/ i = 2 \/ i = 3 \/ i = 4 \/ i = 5 \/ i = 6
  BY <1>1, <1>2
<1>3. CASE i = 7 \/ i = 8 \/ i = 9 \/ i = 10 \/ i = 11 \/ i = 12
  BY <1>1, <1>3
<1>4. CASE i = 13 \/ i = 14 \/ i = 15 \/ i = 16 \/ i = 17 \/ i = 18
  BY <1>1, <1>4
<1>5. CASE i = 19 \/ i = 20 \/ i = 21 \/ i = 22 \/ i = 23 \/ i = 24
  BY <1>1, <1>5
<1>6. CASE i = 25 \/ i = 26 \/ i = 27 \/ i = 28 \/ i = 29 \/ i = 30
  BY <1>1, <1>6
<1> QED  BY <1>2, <1>3, <1>4, <1>5, <1>6

LEMMA HostedStepsAre ==
    \A i \in 1..24 :
        /\ runHosted[i] = "freeze" <=> i = 5
        /\ runHosted[i] = "before" <=> i = 9
        /\ runHosted[i] = "createAllow" <=> i = 10
        /\ runHosted[i] = "execute" <=> i = 13
        /\ runHosted[i] = "afterAllow" <=> i = 14
        /\ runHosted[i] = "createDeny" <=> i = 15
        /\ runHosted[i] = "afterDeny" <=> i = 18
        /\ runHosted[i] = "conserved" <=> i = 19
        /\ runHosted[i] = "readRevoked" <=> i = 23
        /\ runHosted[i] = "evidence" <=> i = 24
        /\ runHosted[i] \in {"machine", "receipt"} => i < 5
        /\ runHosted[i] \in {"dispatch", "decide"} => i > 10
        /\ runHosted[i] \in {"stop", "resume", "revoke"} => i > 5
<1>1. /\ runHosted[1] = "machines" /\ runHosted[2] = "receipt"
      /\ runHosted[3] = "receipt" /\ runHosted[4] = "receipt" /\ runHosted[5] = "freeze"
      /\ runHosted[6] = "readActive" /\ runHosted[7] = "custody" /\ runHosted[8] = "fund"
      /\ runHosted[9] = "before" /\ runHosted[10] = "createAllow"
      /\ runHosted[11] = "dispatch" /\ runHosted[12] = "answer"
      /\ runHosted[13] = "execute" /\ runHosted[14] = "afterAllow"
      /\ runHosted[15] = "createDeny" /\ runHosted[16] = "dispatch"
      /\ runHosted[17] = "answer" /\ runHosted[18] = "afterDeny"
      /\ runHosted[19] = "conserved" /\ runHosted[20] = "stop"
      /\ runHosted[21] = "resume" /\ runHosted[22] = "revoke"
      /\ runHosted[23] = "readRevoked" /\ runHosted[24] = "evidence"
  BY DEF runHosted, executeLiveCustody
<1> TAKE i \in 1..24
<1>2. CASE i = 1 \/ i = 2 \/ i = 3 \/ i = 4 \/ i = 5 \/ i = 6
  BY <1>1, <1>2
<1>3. CASE i = 7 \/ i = 8 \/ i = 9 \/ i = 10 \/ i = 11 \/ i = 12
  BY <1>1, <1>3
<1>4. CASE i = 13 \/ i = 14 \/ i = 15 \/ i = 16 \/ i = 17 \/ i = 18
  BY <1>1, <1>4
<1>5. CASE i = 19 \/ i = 20 \/ i = 21 \/ i = 22 \/ i = 23 \/ i = 24
  BY <1>1, <1>5
<1> QED  BY <1>2, <1>3, <1>4, <1>5

LEMMA LifecycleStepsAre ==
    ASSUME profile \in {"simulated", "live", "hosted"}, NEW i \in 1..At.evidence
    PROVE  /\ LifecycleSteps[i] = "freeze" <=> i = At.freeze
           /\ LifecycleSteps[i] = "before" <=> i = At.before
           /\ LifecycleSteps[i] = "createAllow" <=> i = At.createAllow
           /\ LifecycleSteps[i] = "execute" <=> i = At.execute
           /\ LifecycleSteps[i] = "afterAllow" <=> i = At.afterAllow
           /\ LifecycleSteps[i] = "createDeny" <=> i = At.createDeny
           /\ LifecycleSteps[i] = "afterDeny" <=> i = At.afterDeny
           /\ LifecycleSteps[i] = "conserved" <=> i = At.conserved
           /\ LifecycleSteps[i] = "readRevoked" <=> i = At.readRevoked
           /\ LifecycleSteps[i] = "evidence" <=> i = At.evidence
           /\ LifecycleSteps[i] \in {"machine", "receipt"} => i < At.freeze
           /\ LifecycleSteps[i] \in {"dispatch", "decide"} => i > At.createAllow
           /\ LifecycleSteps[i] \in {"stop", "resume", "revoke"} => i > At.freeze
<1>1. CASE profile = "simulated"
  <2>1. i \in 1..27  BY <1>1 DEF At
  <2> QED  BY <1>1, <2>1, SimulatedStepsAre DEF At, LifecycleSteps
<1>2. CASE profile = "live"
  <2>1. i \in 1..30  BY <1>2 DEF At
  <2> QED  BY <1>2, <2>1, LiveStepsAre DEF At, LifecycleSteps
<1>3. CASE profile = "hosted"
  <2>1. i \in 1..24  BY <1>3 DEF At
  <2> QED  BY <1>3, <2>1, HostedStepsAre DEF At, LifecycleSteps
<1> QED  BY <1>1, <1>2, <1>3

-----------------------------------------------------------------------------
(* What a run has by then.                                                  *)

LifecycleFields == {"i", "ours", "allow", "deny", "before", "afterAllow", "afterDeny"}

\* A reading counts the requests that are executed, and they stay executed.
Counts(reading) ==
    /\ IsFiniteSet(reading.includes) /\ reading.includes \subseteq Executed
    /\ reading.accounting.spent = Cardinality(reading.includes)

HasFrozen == receipts = 3 /\ lifecycle.ours \in DOMAIN policies

HasBefore == Counts(lifecycle.before)

\* The first reading is older than the request that is allowed.
HasAllow ==
    lifecycle.allow \in DOMAIN actionRequests /\ lifecycle.allow \notin lifecycle.before.includes

HasExecuted ==
    /\ lifecycle.allow \in Executed
    /\ actionRequests[lifecycle.allow].executedBy = "run"

HasAfterAllow ==
    /\ Counts(lifecycle.afterAllow) /\ lifecycle.allow \in lifecycle.afterAllow.includes
    /\ lifecycle.before.includes \subseteq lifecycle.afterAllow.includes

HasDeny == lifecycle.deny \in DOMAIN actionRequests

HasAfterDeny ==
    /\ Counts(lifecycle.afterDeny) /\ actionRequests[lifecycle.deny].status = "Denied"
    /\ lifecycle.afterAllow.includes \subseteq lifecycle.afterDeny.includes

HasConserved ==
    /\ PaidOnce(lifecycle.before, lifecycle.afterAllow)
    /\ sameAccounting(lifecycle.afterAllow, lifecycle.afterDeny)

HasRevoked == policies[lifecycle.ours] = "Revoked"

LifecycleProgress ==
    /\ lifecycle.i > At.freeze => HasFrozen
    /\ lifecycle.i > At.before => HasBefore
    /\ lifecycle.i > At.createAllow => HasAllow
    /\ lifecycle.i > At.execute => HasExecuted
    /\ lifecycle.i > At.afterAllow => HasAfterAllow
    /\ IF lifecycle.i > At.createDeny THEN HasDeny ELSE lifecycle.deny = 0
    /\ lifecycle.i > At.afterDeny => HasAfterDeny
    /\ lifecycle.i > At.conserved => HasConserved
    /\ lifecycle.i > At.readRevoked => HasRevoked

LifecycleInv ==
    /\ OwnerInv
    /\ profile \in {"simulated", "live", "hosted"}
    /\ DOMAIN lifecycle = LifecycleFields /\ lifecycle.i \in 1..(At.evidence + 2)
    /\ lifecycle.i <= At.evidence + 1 => LifecycleProgress
    /\ proof.written =>
         /\ lifecycle.i = At.evidence + 1
         /\ proof.before = lifecycle.before /\ proof.afterDeny = lifecycle.afterDeny

LEMMA LifecycleStarts == OwnerInit(3) /\ LifecycleInit => LifecycleInv
<1> SUFFICES ASSUME OwnerInit(3), LifecycleInit PROVE LifecycleInv  OBVIOUS
<1>1. policies = <<>> /\ actionRequests = <<>>  BY DEF OwnerInit
<1>2. DOMAIN policies = {} /\ DOMAIN actionRequests = {} /\ Allowed = {} /\ Executed = {}
  BY <1>1 DEF Allowed, Executed
<1>3. /\ DOMAIN account = {"deposited", "available", "reserved", "spent", "withdrawn"}
      /\ account.available = 3 /\ account.spent = 0 /\ account.reserved = 0
  BY DEF OwnerInit, NoAccount
<1>4. OwnerInv
  BY <1>1, <1>2, <1>3, FS_EmptySet DEF OwnerInv
<1>5. profile \in {"simulated", "live", "hosted"}
  BY LifecycleAssumption DEF LifecycleInit
<1>6. lifecycle.i = 1 /\ lifecycle.deny = 0 /\ DOMAIN lifecycle = LifecycleFields /\ ~proof.written
  BY DEF LifecycleInit, LifecycleFields, NoProof
<1>7. LifecycleProgress
  BY <1>5, <1>6, OrderOfSteps DEF LifecycleProgress
<1> QED  BY <1>4, <1>5, <1>6, <1>7, OrderOfSteps DEF LifecycleInv

\* What it has stays, as long as the fields of the run that it is about do.
LEMMA ItStays ==
    ASSUME OwnerInv, FinalStays, UNCHANGED receipts
    PROVE  /\ lifecycle'.ours = lifecycle.ours => (HasFrozen => HasFrozen')
           /\ lifecycle'.before = lifecycle.before => (HasBefore => HasBefore')
           /\ lifecycle'.allow = lifecycle.allow /\ lifecycle'.before = lifecycle.before
                => (HasAllow => HasAllow')
           /\ lifecycle'.allow = lifecycle.allow => (HasExecuted => HasExecuted')
           /\ /\ lifecycle'.before = lifecycle.before /\ lifecycle'.afterAllow = lifecycle.afterAllow
              /\ lifecycle'.allow = lifecycle.allow
              => (HasAfterAllow => HasAfterAllow')
           /\ lifecycle'.deny = lifecycle.deny => (HasDeny => HasDeny')
           /\ /\ lifecycle'.deny = lifecycle.deny /\ lifecycle'.afterDeny = lifecycle.afterDeny
              /\ lifecycle'.afterAllow = lifecycle.afterAllow
              => (HasDeny /\ HasAfterDeny => HasAfterDeny')
           /\ /\ lifecycle'.before = lifecycle.before /\ lifecycle'.afterAllow = lifecycle.afterAllow
              /\ lifecycle'.afterDeny = lifecycle.afterDeny
              => (HasConserved => HasConserved')
           /\ lifecycle'.ours = lifecycle.ours => (HasFrozen /\ HasRevoked => HasRevoked')
<1>1. Executed \subseteq Executed'
  BY DEF Executed, FinalStays
<1>2. \A r \in Executed : r \in DOMAIN actionRequests /\ actionRequests'[r] = actionRequests[r]
  BY DEF Executed, FinalStays
<1>3. HasFrozen /\ lifecycle'.ours = lifecycle.ours => HasFrozen'
  BY DEF HasFrozen, FinalStays
<1>4. HasBefore /\ lifecycle'.before = lifecycle.before => HasBefore'
  BY <1>1 DEF HasBefore, Counts
<1>5. HasAllow /\ lifecycle'.allow = lifecycle.allow /\ lifecycle'.before = lifecycle.before => HasAllow'
  BY DEF HasAllow, FinalStays
<1>6. HasExecuted /\ lifecycle'.allow = lifecycle.allow => HasExecuted'
  BY <1>1, <1>2 DEF HasExecuted
<1>7. /\ HasAfterAllow /\ lifecycle'.before = lifecycle.before
      /\ lifecycle'.afterAllow = lifecycle.afterAllow /\ lifecycle'.allow = lifecycle.allow
      => HasAfterAllow'
  BY <1>1 DEF HasAfterAllow, Counts
<1>8. HasDeny /\ lifecycle'.deny = lifecycle.deny => HasDeny'
  BY DEF HasDeny, FinalStays
<1>9. /\ HasDeny /\ HasAfterDeny /\ lifecycle'.deny = lifecycle.deny
      /\ lifecycle'.afterDeny = lifecycle.afterDeny /\ lifecycle'.afterAllow = lifecycle.afterAllow
      => HasAfterDeny'
  BY <1>1 DEF HasDeny, HasAfterDeny, Counts, FinalStays
<1>10. /\ HasConserved /\ lifecycle'.before = lifecycle.before
       /\ lifecycle'.afterAllow = lifecycle.afterAllow /\ lifecycle'.afterDeny = lifecycle.afterDeny
       => HasConserved'
  BY DEF HasConserved, PaidOnce, sameAccounting
<1>11. HasFrozen /\ HasRevoked /\ lifecycle'.ours = lifecycle.ours => HasRevoked'
  BY DEF HasFrozen, HasRevoked, FinalStays
<1> QED  BY <1>3, <1>4, <1>5, <1>6, <1>7, <1>8, <1>9, <1>10, <1>11

\* A step is at its place, and nothing is published yet.
LEMMA PerformsIs ==
    ASSUME LifecycleInv, NEW step, Performs(step)
    PROVE  /\ lifecycle.i \in 1..At.evidence /\ LifecycleSteps[lifecycle.i] = step
           /\ LifecycleProgress /\ ~proof.written
<1>1. lifecycle.i \in 1..At.evidence /\ LifecycleSteps[lifecycle.i] = step
  BY LengthOfRun DEF LifecycleInv, Performs
<1>2. At.evidence \in 24..30  BY OrderOfSteps DEF LifecycleInv
<1> QED  BY <1>1, <1>2 DEF LifecycleInv

\* The run goes on when it has what the next step needs.
LEMMA GoesOn ==
    ASSUME LifecycleInv, NEW step, Performs(step), UNCHANGED <<profile, proof>>, OwnerInv',
           lifecycle'.i = lifecycle.i + 1, DOMAIN lifecycle' = LifecycleFields, LifecycleProgress'
    PROVE  LifecycleInv'
<1>1. lifecycle.i \in 1..At.evidence /\ ~proof.written  BY PerformsIs
<1>2. At' = At  BY DEF At
<1>3. At.evidence \in 24..30  BY OrderOfSteps DEF LifecycleInv
<1>4. lifecycle'.i \in 1..(At.evidence + 2)  BY <1>1, <1>3
<1> QED  BY <1>1, <1>2, <1>4 DEF LifecycleInv

LEMMA OnIs ==
    ASSUME NEW run, DOMAIN run = LifecycleFields, On(run)
    PROVE  /\ DOMAIN lifecycle' = LifecycleFields /\ lifecycle'.i = run.i + 1
           /\ lifecycle'.ours = run.ours /\ lifecycle'.allow = run.allow /\ lifecycle'.deny = run.deny
           /\ lifecycle'.before = run.before /\ lifecycle'.afterAllow = run.afterAllow
           /\ lifecycle'.afterDeny = run.afterDeny
BY DEF On, LifecycleFields

\* The steps that are no landmark.
LEMMA QuietStepKeeps ==
    ASSUME LifecycleInv, NEW step, Performs(step), step \notin Landmark, On(lifecycle), OwnerStep,
           UNCHANGED <<profile, receipts, proof>>
    PROVE  LifecycleInv'
<1>1. /\ lifecycle.i \in 1..At.evidence /\ LifecycleSteps[lifecycle.i] = step
      /\ LifecycleProgress
  BY PerformsIs
<1>2. /\ lifecycle.i # At.freeze /\ lifecycle.i # At.before /\ lifecycle.i # At.createAllow
      /\ lifecycle.i # At.execute /\ lifecycle.i # At.afterAllow /\ lifecycle.i # At.createDeny
      /\ lifecycle.i # At.afterDeny /\ lifecycle.i # At.conserved /\ lifecycle.i # At.readRevoked
  BY <1>1, LifecycleStepsAre DEF Landmark, LifecycleInv
<1>3. /\ DOMAIN lifecycle' = LifecycleFields /\ lifecycle'.i = lifecycle.i + 1
      /\ lifecycle'.ours = lifecycle.ours /\ lifecycle'.allow = lifecycle.allow
      /\ lifecycle'.deny = lifecycle.deny /\ lifecycle'.before = lifecycle.before
      /\ lifecycle'.afterAllow = lifecycle.afterAllow /\ lifecycle'.afterDeny = lifecycle.afterDeny
  BY OnIs DEF LifecycleInv
<1>4. OwnerInv' /\ FinalStays
  BY OwnerMoves DEF LifecycleInv
<1>5. At' = At  BY DEF At
<1>6. LifecycleProgress'
  <2>1. /\ lifecycle'.i > At.freeze => lifecycle.i > At.freeze
        /\ lifecycle'.i > At.before => lifecycle.i > At.before
        /\ lifecycle'.i > At.createAllow => lifecycle.i > At.createAllow
        /\ lifecycle'.i > At.execute => lifecycle.i > At.execute
        /\ lifecycle'.i > At.afterAllow => lifecycle.i > At.afterAllow
        /\ lifecycle'.i > At.createDeny <=> lifecycle.i > At.createDeny
        /\ lifecycle'.i > At.afterDeny => lifecycle.i > At.afterDeny /\ lifecycle.i > At.createDeny
        /\ lifecycle'.i > At.conserved => lifecycle.i > At.conserved
        /\ lifecycle'.i > At.readRevoked => lifecycle.i > At.readRevoked /\ lifecycle.i > At.freeze
    BY <1>1, <1>2, <1>3, OrderOfSteps DEF LifecycleInv
  <2> QED  BY <1>1, <1>3, <1>4, <1>5, <2>1, ItStays DEF LifecycleProgress, LifecycleInv
<1> QED  BY <1>3, <1>4, <1>6, GoesOn

LEMMA OthersKeep ==
    ASSUME LifecycleInv, OwnerStep, UNCHANGED <<profile, lifecycle, receipts, proof>>
    PROVE  LifecycleInv'
<1>1. OwnerInv' /\ FinalStays
  BY OwnerMoves DEF LifecycleInv
<1>2. At' = At  BY DEF At
<1>3. ASSUME lifecycle.i <= At.evidence + 1
      PROVE  LifecycleProgress'
  <2>1. LifecycleProgress  BY <1>3 DEF LifecycleInv
  <2>2. /\ lifecycle.i > At.afterDeny => lifecycle.i > At.createDeny
        /\ lifecycle.i > At.readRevoked => lifecycle.i > At.freeze
    BY OrderOfSteps DEF LifecycleInv
  <2> QED  BY <1>1, <1>2, <2>1, <2>2, ItStays DEF LifecycleProgress, LifecycleInv
<1> QED  BY <1>1, <1>2, <1>3 DEF LifecycleInv

LEMMA FailureKeepsRun ==
    ASSUME LifecycleInv, LifecycleFails
    PROVE  LifecycleInv'
<1>1. /\ lifecycle.i \in 1..At.evidence /\ lifecycle'.i = At.evidence + 2
      /\ DOMAIN lifecycle' = LifecycleFields
      /\ UNCHANGED <<ownerVars, profile, receipts, proof>>
  BY LengthOfRun DEF LifecycleFails, LifecycleInv, LifecycleFields
<1>2. At' = At /\ At.evidence \in 24..30  BY <1>1, OrderOfSteps DEF At, LifecycleInv
<1>3. OwnerInv'
  BY <1>1, OwnerMoves DEF OwnerStep, LifecycleInv
<1>4. ~proof.written
  BY <1>1, <1>2 DEF LifecycleInv
<1>5. lifecycle'.i \in 1..(At.evidence + 2) /\ ~(lifecycle'.i <= At.evidence + 1)
  BY <1>1, <1>2
<1> QED  BY <1>1, <1>2, <1>3, <1>4, <1>5 DEF LifecycleInv

-----------------------------------------------------------------------------
(* The landmarks.                                                           *)

\* Before the policy is frozen.
LEMMA ReceiptKeeps ==
    ASSUME LifecycleInv, Receipt
    PROVE  LifecycleInv'
<1>1. /\ Performs("receipt") \/ Performs("machine")
      /\ On(lifecycle) /\ UNCHANGED <<ownerVars, profile, proof>>
  BY DEF Receipt
<1>2. PICK step \in {"receipt", "machine"} : Performs(step)
  BY <1>1
<1>3. /\ lifecycle.i \in 1..At.evidence /\ LifecycleSteps[lifecycle.i] = step /\ LifecycleProgress
  BY <1>2, PerformsIs
<1>4. lifecycle.i < At.freeze /\ lifecycle.i # At.before
  BY <1>2, <1>3, LifecycleStepsAre DEF LifecycleInv
<1>5. /\ DOMAIN lifecycle' = LifecycleFields /\ lifecycle'.i = lifecycle.i + 1
      /\ lifecycle'.deny = lifecycle.deny /\ lifecycle'.before = lifecycle.before
  BY <1>1, OnIs DEF LifecycleInv
<1>6. OwnerInv' /\ Executed' = Executed /\ At' = At
  BY <1>1, OwnerMoves DEF OwnerStep, LifecycleInv, Executed, ownerVars, At
<1>7. LifecycleProgress'
  <2>1. /\ ~(lifecycle'.i > At.freeze) /\ ~(lifecycle'.i > At.createAllow)
        /\ ~(lifecycle'.i > At.execute) /\ ~(lifecycle'.i > At.afterAllow)
        /\ ~(lifecycle'.i > At.createDeny) /\ ~(lifecycle.i > At.createDeny)
        /\ ~(lifecycle'.i > At.afterDeny) /\ ~(lifecycle'.i > At.conserved)
        /\ ~(lifecycle'.i > At.readRevoked) /\ (lifecycle'.i > At.before => lifecycle.i > At.before)
    BY <1>3, <1>4, <1>5, OrderOfSteps DEF LifecycleInv
  <2>2. HasBefore => HasBefore'  BY <1>5, <1>6 DEF HasBefore, Counts
  <2> QED  BY <1>3, <1>5, <1>6, <2>1, <2>2 DEF LifecycleProgress
<1> QED  BY <1>1, <1>2, <1>5, <1>6, <1>7, GoesOn

\* A landmark is at its place: what was before it is had, what comes after it
\* is not asked for yet.
LEMMA LandmarkIs ==
    ASSUME LifecycleInv, NEW step \in Landmark, Performs(step), lifecycle'.i = lifecycle.i + 1,
           UNCHANGED profile
    PROVE  /\ At' = At /\ LifecycleProgress
           /\ step = "freeze" => lifecycle.i = At.freeze
           /\ step = "before" => lifecycle.i = At.before
           /\ step = "createAllow" => lifecycle.i = At.createAllow
           /\ step = "execute" => lifecycle.i = At.execute
           /\ step = "afterAllow" => lifecycle.i = At.afterAllow
           /\ step = "createDeny" => lifecycle.i = At.createDeny
           /\ step = "afterDeny" => lifecycle.i = At.afterDeny
           /\ step = "conserved" => lifecycle.i = At.conserved
           /\ step = "readRevoked" => lifecycle.i = At.readRevoked
           /\ step = "evidence" => lifecycle.i = At.evidence
<1>1. /\ lifecycle.i \in 1..At.evidence /\ LifecycleSteps[lifecycle.i] = step /\ LifecycleProgress
  BY PerformsIs
<1> QED  BY <1>1, LifecycleStepsAre DEF LifecycleInv, At

LEMMA FrozenKeeps ==
    ASSUME LifecycleInv, freezePolicyOnchain
    PROVE  LifecycleInv'
<1> DEFINE run == [lifecycle EXCEPT !.ours = Len(policies) + 1]
<1>1. /\ receipts = 3 /\ Performs("freeze") /\ registerPolicy /\ On(run)
      /\ UNCHANGED <<profile, receipts, proof>>
  BY DEF freezePolicyOnchain, Writes
<1>2. /\ DOMAIN run = LifecycleFields /\ run.i = lifecycle.i /\ run.ours = Len(policies) + 1
      /\ run.deny = lifecycle.deny /\ run.before = lifecycle.before
  BY DEF LifecycleInv, LifecycleFields
<1> HIDE DEF run
<1>3. /\ DOMAIN lifecycle' = LifecycleFields /\ lifecycle'.i = lifecycle.i + 1
      /\ lifecycle'.ours = Len(policies) + 1 /\ lifecycle'.deny = lifecycle.deny
      /\ lifecycle'.before = lifecycle.before
  BY <1>1, <1>2, OnIs
<1>4. At' = At /\ LifecycleProgress /\ lifecycle.i = At.freeze
  BY <1>1, <1>3, LandmarkIs DEF Landmark
<1>5. OwnerInv' /\ FinalStays
  BY <1>1, OwnerMoves DEF OwnerStep, LifecycleInv
<1>6. HasFrozen'
  <2>1. OwnerInv /\ Len(policies') = Len(policies) + 1 /\ Len(policies) \in Nat
    BY <1>1, RegistrationOfPolicyKeeps DEF LifecycleInv
  <2> QED  BY <1>1, <1>3, <1>5, <2>1 DEF HasFrozen, OwnerInv
<1>7. LifecycleProgress'
  <2>1. /\ ~(lifecycle'.i > At.createAllow) /\ ~(lifecycle'.i > At.execute)
        /\ ~(lifecycle'.i > At.afterAllow) /\ ~(lifecycle'.i > At.createDeny)
        /\ ~(lifecycle.i > At.createDeny) /\ ~(lifecycle'.i > At.afterDeny)
        /\ ~(lifecycle'.i > At.conserved) /\ ~(lifecycle'.i > At.readRevoked)
        /\ lifecycle'.i > At.before => lifecycle.i > At.before
    <3>1. lifecycle.i = At.freeze /\ lifecycle'.i = At.freeze + 1  BY <1>3, <1>4
    <3>2. profile \in {"simulated", "live", "hosted"}  BY DEF LifecycleInv
    <3> QED  BY <3>1, <3>2, OrderOfSteps
  <2> QED  BY <1>1, <1>3, <1>4, <1>5, <1>6, <2>1, ItStays DEF LifecycleProgress, LifecycleInv
<1> QED  BY <1>1, <1>3, <1>5, <1>7, GoesOn

LEMMA BeforeKeeps ==
    ASSUME LifecycleInv, ReadBefore
    PROVE  LifecycleInv'
<1> DEFINE run == [lifecycle EXCEPT !.before = Reading]
<1>1. /\ Performs("before") /\ On(run) /\ UNCHANGED <<ownerVars, profile, receipts, proof>>
  BY DEF ReadBefore, Reads
<1>2. /\ DOMAIN run = LifecycleFields /\ run.i = lifecycle.i /\ run.before = Reading
      /\ run.deny = lifecycle.deny /\ run.ours = lifecycle.ours
  BY DEF LifecycleInv, LifecycleFields
<1> HIDE DEF run
<1>3. /\ DOMAIN lifecycle' = LifecycleFields /\ lifecycle'.i = lifecycle.i + 1
      /\ lifecycle'.ours = lifecycle.ours /\ lifecycle'.deny = lifecycle.deny
      /\ lifecycle'.before = Reading
  BY <1>1, <1>2, OnIs
<1>4. At' = At /\ LifecycleProgress /\ lifecycle.i = At.before
  BY <1>1, <1>3, LandmarkIs DEF Landmark
<1>5. OwnerInv' /\ FinalStays /\ Executed' = Executed
  BY <1>1, OwnerMoves DEF OwnerStep, LifecycleInv, Executed, ownerVars
<1>6. HasBefore'
  BY <1>3, <1>5, AllowedIsFinite DEF HasBefore, Counts, Reading, LifecycleInv, OwnerInv
<1>7. LifecycleProgress'
  <2>1. /\ ~(lifecycle'.i > At.createAllow) /\ ~(lifecycle'.i > At.execute)
        /\ ~(lifecycle'.i > At.afterAllow) /\ ~(lifecycle'.i > At.createDeny)
        /\ ~(lifecycle.i > At.createDeny) /\ ~(lifecycle'.i > At.afterDeny)
        /\ ~(lifecycle'.i > At.conserved) /\ ~(lifecycle'.i > At.readRevoked)
        /\ lifecycle'.i > At.freeze => lifecycle.i > At.freeze
    BY <1>3, <1>4, OrderOfSteps DEF LifecycleInv
  <2> QED  BY <1>1, <1>3, <1>4, <1>5, <1>6, <2>1, ItStays DEF LifecycleProgress, LifecycleInv
<1> QED  BY <1>1, <1>3, <1>5, <1>7, GoesOn

LEMMA CreateAllowKeeps ==
    ASSUME LifecycleInv, CreateAllow
    PROVE  LifecycleInv'
<1> DEFINE run == [lifecycle EXCEPT !.allow = Len(actionRequests) + 1]
<1>1. /\ Performs("createAllow") /\ createRequest(lifecycle.ours, "ALLOW") /\ On(run)
      /\ UNCHANGED <<profile, receipts, proof>>
  BY DEF CreateAllow, Writes
<1>2. /\ DOMAIN run = LifecycleFields /\ run.i = lifecycle.i /\ run.before = lifecycle.before
      /\ run.deny = lifecycle.deny /\ run.ours = lifecycle.ours
      /\ run.allow = Len(actionRequests) + 1
  BY DEF LifecycleInv, LifecycleFields
<1> HIDE DEF run
<1>3. /\ DOMAIN lifecycle' = LifecycleFields /\ lifecycle'.i = lifecycle.i + 1
      /\ lifecycle'.ours = lifecycle.ours /\ lifecycle'.deny = lifecycle.deny
      /\ lifecycle'.before = lifecycle.before /\ lifecycle'.allow = Len(actionRequests) + 1
  BY <1>1, <1>2, OnIs
<1>4. At' = At /\ LifecycleProgress /\ lifecycle.i = At.createAllow
  BY <1>1, <1>3, LandmarkIs DEF Landmark
<1>5. HasFrozen /\ HasBefore
  BY <1>4, OrderOfSteps DEF LifecycleProgress, LifecycleInv
<1>6. OwnerInv' /\ FinalStays
  BY <1>1, <1>5, OwnerMoves DEF OwnerStep, LifecycleInv, HasFrozen
<1>7. HasAllow'
  <2>1. /\ Len(actionRequests') = Len(actionRequests) + 1 /\ Len(actionRequests) \in Nat
        /\ DOMAIN actionRequests = 1..Len(actionRequests)
    BY <1>1, <1>5, CreationKeeps DEF HasFrozen, LifecycleInv
  <2>2. Executed \subseteq 1..Len(actionRequests)  BY <2>1 DEF Executed
  <2> QED  BY <1>3, <1>5, <1>6, <2>1, <2>2 DEF HasAllow, HasBefore, Counts, OwnerInv
<1>8. LifecycleProgress'
  <2>1. /\ ~(lifecycle'.i > At.execute)
        /\ ~(lifecycle'.i > At.afterAllow) /\ ~(lifecycle'.i > At.createDeny)
        /\ ~(lifecycle.i > At.createDeny) /\ ~(lifecycle'.i > At.afterDeny)
        /\ ~(lifecycle'.i > At.conserved) /\ ~(lifecycle'.i > At.readRevoked)
    <3>1. lifecycle.i = At.createAllow /\ lifecycle'.i = At.createAllow + 1  BY <1>3, <1>4
    <3>2. profile \in {"simulated", "live", "hosted"}  BY DEF LifecycleInv
    <3> QED  BY <3>1, <3>2, OrderOfSteps
  <2> QED  BY <1>1, <1>3, <1>4, <1>5, <1>6, <1>7, <2>1, ItStays DEF LifecycleProgress, LifecycleInv
<1> QED  BY <1>1, <1>3, <1>6, <1>8, GoesOn

LEMMA ExecuteAllowedKeeps ==
    ASSUME LifecycleInv, ExecuteAllowed
    PROVE  LifecycleInv'
<1>1. /\ Performs("execute") /\ execute(lifecycle.allow, "run") /\ On(lifecycle)
      /\ UNCHANGED <<profile, receipts, proof>>
  BY DEF ExecuteAllowed, Writes
<1>3. /\ DOMAIN lifecycle' = LifecycleFields /\ lifecycle'.i = lifecycle.i + 1
      /\ lifecycle'.ours = lifecycle.ours /\ lifecycle'.deny = lifecycle.deny
      /\ lifecycle'.before = lifecycle.before /\ lifecycle'.allow = lifecycle.allow
  BY <1>1, OnIs DEF LifecycleInv
<1>4. At' = At /\ LifecycleProgress /\ lifecycle.i = At.execute
  BY <1>1, <1>3, LandmarkIs DEF Landmark
<1>5. HasFrozen /\ HasBefore /\ HasAllow
  BY <1>4, OrderOfSteps DEF LifecycleProgress, LifecycleInv
<1>6. OwnerInv' /\ FinalStays
  BY <1>1, <1>5, OwnerMoves DEF OwnerStep, Requested, Party, LifecycleInv, HasAllow
<1>7. HasExecuted'
  <2>1. lifecycle.allow \in DOMAIN actionRequests  BY <1>5 DEF HasAllow
  <2>2. /\ DOMAIN actionRequests' = DOMAIN actionRequests
        /\ actionRequests'[lifecycle.allow].status = "Executed"
    BY <1>1, <2>1, ExecutionKeeps DEF LifecycleInv, Party, Moved
  <2>3. actionRequests'[lifecycle.allow].executedBy = "run"
    <3>1. actionRequests[lifecycle.allow] \in ActionRequest  BY <2>1 DEF LifecycleInv, OwnerInv
    <3>2. actionRequests' = [actionRequests EXCEPT ![lifecycle.allow].status = "Executed",
                                                   ![lifecycle.allow].executedBy = "run"]
      BY <1>1 DEF execute
    <3> QED  BY <2>1, <3>1, <3>2 DEF ActionRequest
  <2> QED  BY <1>3, <2>1, <2>2, <2>3 DEF HasExecuted, Executed
<1>8. LifecycleProgress'
  <2>1. /\ ~(lifecycle'.i > At.afterAllow) /\ ~(lifecycle'.i > At.createDeny)
        /\ ~(lifecycle.i > At.createDeny) /\ ~(lifecycle'.i > At.afterDeny)
        /\ ~(lifecycle'.i > At.conserved) /\ ~(lifecycle'.i > At.readRevoked)
    BY <1>3, <1>4, OrderOfSteps DEF LifecycleInv
  <2> QED  BY <1>1, <1>3, <1>4, <1>5, <1>6, <1>7, <2>1, ItStays DEF LifecycleProgress, LifecycleInv
<1> QED  BY <1>1, <1>3, <1>6, <1>8, GoesOn
LEMMA AfterAllowKeeps ==
    ASSUME LifecycleInv, ReadAfterAllow
    PROVE  LifecycleInv'
<1> DEFINE run == [lifecycle EXCEPT !.afterAllow = Reading]
<1>1. /\ Performs("afterAllow") /\ UNCHANGED ownerVars /\ On(run)
      /\ UNCHANGED <<profile, receipts, proof>>
  BY DEF ReadAfterAllow, Reads
<1>2. /\ DOMAIN run = LifecycleFields /\ run.i = lifecycle.i
      /\ run.afterAllow = Reading
      /\ run.ours = lifecycle.ours /\ run.allow = lifecycle.allow /\ run.deny = lifecycle.deny
      /\ run.before = lifecycle.before /\ run.afterDeny = lifecycle.afterDeny
  BY DEF LifecycleInv, LifecycleFields
<1> HIDE DEF run
<1>3. /\ DOMAIN lifecycle' = LifecycleFields /\ lifecycle'.i = lifecycle.i + 1
      /\ lifecycle'.afterAllow = Reading
      /\ lifecycle'.ours = lifecycle.ours /\ lifecycle'.allow = lifecycle.allow
      /\ lifecycle'.deny = lifecycle.deny /\ lifecycle'.before = lifecycle.before
      /\ lifecycle'.afterDeny = lifecycle.afterDeny
  BY <1>1, <1>2, OnIs
<1>4. At' = At /\ LifecycleProgress /\ lifecycle.i = At.afterAllow
  BY <1>1, <1>3, LandmarkIs DEF Landmark
<1>5. HasFrozen /\ HasBefore /\ HasAllow /\ HasExecuted
  BY <1>4, OrderOfSteps DEF LifecycleProgress, LifecycleInv
<1>6. OwnerInv' /\ FinalStays /\ Executed' = Executed
  BY <1>1, OwnerMoves DEF OwnerStep, LifecycleInv, Executed, ownerVars
<1>7. HasAfterAllow'
  BY <1>3, <1>5, <1>6, AllowedIsFinite
     DEF HasAfterAllow, HasBefore, HasExecuted, Counts, Reading, LifecycleInv, OwnerInv
<1>8. LifecycleProgress'
  <2>1. /\ ~(lifecycle'.i > At.createDeny)
        /\ ~(lifecycle'.i > At.afterDeny)
        /\ ~(lifecycle'.i > At.conserved)
        /\ ~(lifecycle'.i > At.readRevoked)
        /\ ~(lifecycle.i > At.createDeny)
    <3>1. lifecycle.i = At.afterAllow /\ lifecycle'.i = At.afterAllow + 1  BY <1>3, <1>4
    <3>2. profile \in {"simulated", "live", "hosted"}  BY DEF LifecycleInv
    <3> QED  BY <3>1, <3>2, OrderOfSteps
  <2> QED  BY <1>1, <1>3, <1>4, <1>5, <1>6, <1>7, <2>1, ItStays DEF LifecycleProgress, LifecycleInv
<1> QED  BY <1>1, <1>3, <1>6, <1>8, GoesOn

LEMMA CreateDenyKeeps ==
    ASSUME LifecycleInv, CreateDeny
    PROVE  LifecycleInv'
<1> DEFINE run == [lifecycle EXCEPT !.deny = Len(actionRequests) + 1]
<1>1. /\ Performs("createDeny") /\ createRequest(lifecycle.ours, "DENY") /\ On(run)
      /\ UNCHANGED <<profile, receipts, proof>>
  BY DEF CreateDeny, Writes
<1>2. /\ DOMAIN run = LifecycleFields /\ run.i = lifecycle.i
      /\ run.deny = Len(actionRequests) + 1
      /\ run.ours = lifecycle.ours /\ run.allow = lifecycle.allow /\ run.before = lifecycle.before
      /\ run.afterAllow = lifecycle.afterAllow /\ run.afterDeny = lifecycle.afterDeny
  BY DEF LifecycleInv, LifecycleFields
<1> HIDE DEF run
<1>3. /\ DOMAIN lifecycle' = LifecycleFields /\ lifecycle'.i = lifecycle.i + 1
      /\ lifecycle'.deny = Len(actionRequests) + 1
      /\ lifecycle'.ours = lifecycle.ours /\ lifecycle'.allow = lifecycle.allow
      /\ lifecycle'.before = lifecycle.before /\ lifecycle'.afterAllow = lifecycle.afterAllow
      /\ lifecycle'.afterDeny = lifecycle.afterDeny
  BY <1>1, <1>2, OnIs
<1>4. At' = At /\ LifecycleProgress /\ lifecycle.i = At.createDeny
  BY <1>1, <1>3, LandmarkIs DEF Landmark
<1>5. HasFrozen /\ HasBefore /\ HasAllow /\ HasExecuted /\ HasAfterAllow
  BY <1>4, OrderOfSteps DEF LifecycleProgress, LifecycleInv
<1>6. OwnerInv' /\ FinalStays
  BY <1>1, <1>5, OwnerMoves DEF OwnerStep, LifecycleInv, HasFrozen
<1>7. HasDeny'
  <2>1. /\ Len(actionRequests') = Len(actionRequests) + 1 /\ Len(actionRequests) \in Nat
    BY <1>1, <1>5, CreationKeeps DEF HasFrozen, LifecycleInv
  <2> QED  BY <1>3, <1>6, <2>1 DEF HasDeny, OwnerInv
<1>8. LifecycleProgress'
  <2>1. /\ ~(lifecycle'.i > At.afterDeny)
        /\ ~(lifecycle'.i > At.conserved)
        /\ ~(lifecycle'.i > At.readRevoked)
        /\ lifecycle'.i > At.createDeny
    <3>1. lifecycle.i = At.createDeny /\ lifecycle'.i = At.createDeny + 1  BY <1>3, <1>4
    <3>2. profile \in {"simulated", "live", "hosted"}  BY DEF LifecycleInv
    <3> QED  BY <3>1, <3>2, OrderOfSteps
  <2> QED  BY <1>1, <1>3, <1>4, <1>5, <1>6, <1>7, <2>1, ItStays DEF LifecycleProgress, LifecycleInv
<1> QED  BY <1>1, <1>3, <1>6, <1>8, GoesOn

LEMMA AfterDenyKeeps ==
    ASSUME LifecycleInv, ReadAfterDeny
    PROVE  LifecycleInv'
<1> DEFINE run == [lifecycle EXCEPT !.afterDeny = Reading]
<1>1. /\ Performs("afterDeny") /\ UNCHANGED ownerVars /\ On(run)
      /\ UNCHANGED <<profile, receipts, proof>>
  BY DEF ReadAfterDeny, Reads
<1>2. /\ DOMAIN run = LifecycleFields /\ run.i = lifecycle.i
      /\ run.afterDeny = Reading
      /\ run.ours = lifecycle.ours /\ run.allow = lifecycle.allow /\ run.deny = lifecycle.deny
      /\ run.before = lifecycle.before /\ run.afterAllow = lifecycle.afterAllow
  BY DEF LifecycleInv, LifecycleFields
<1> HIDE DEF run
<1>3. /\ DOMAIN lifecycle' = LifecycleFields /\ lifecycle'.i = lifecycle.i + 1
      /\ lifecycle'.afterDeny = Reading
      /\ lifecycle'.ours = lifecycle.ours /\ lifecycle'.allow = lifecycle.allow
      /\ lifecycle'.deny = lifecycle.deny /\ lifecycle'.before = lifecycle.before
      /\ lifecycle'.afterAllow = lifecycle.afterAllow
  BY <1>1, <1>2, OnIs
<1>4. At' = At /\ LifecycleProgress /\ lifecycle.i = At.afterDeny
  BY <1>1, <1>3, LandmarkIs DEF Landmark
<1>5. HasFrozen /\ HasBefore /\ HasAllow /\ HasExecuted /\ HasAfterAllow /\ HasDeny
  BY <1>4, OrderOfSteps DEF LifecycleProgress, LifecycleInv
<1>6. OwnerInv' /\ FinalStays /\ Executed' = Executed
  BY <1>1, OwnerMoves DEF OwnerStep, LifecycleInv, Executed, ownerVars
<1>7. HasAfterDeny'
  <2>1. actionRequests[lifecycle.deny].status = "Denied" /\ UNCHANGED actionRequests
    BY <1>1 DEF ReadAfterDeny, ownerVars
  <2> QED  BY <1>3, <1>5, <1>6, <2>1, AllowedIsFinite
           DEF HasAfterDeny, HasAfterAllow, Counts, Reading, LifecycleInv, OwnerInv
<1>8. LifecycleProgress'
  <2>1. /\ ~(lifecycle'.i > At.conserved)
        /\ ~(lifecycle'.i > At.readRevoked)
        /\ lifecycle'.i > At.createDeny /\ lifecycle.i > At.createDeny
    <3>1. lifecycle.i = At.afterDeny /\ lifecycle'.i = At.afterDeny + 1  BY <1>3, <1>4
    <3>2. profile \in {"simulated", "live", "hosted"}  BY DEF LifecycleInv
    <3> QED  BY <3>1, <3>2, OrderOfSteps
  <2> QED  BY <1>1, <1>3, <1>4, <1>5, <1>6, <1>7, <2>1, ItStays DEF LifecycleProgress, LifecycleInv
<1> QED  BY <1>1, <1>3, <1>6, <1>8, GoesOn

LEMMA ConservedKeeps ==
    ASSUME LifecycleInv, Conserved
    PROVE  LifecycleInv'
<1>1. /\ Performs("conserved") /\ UNCHANGED ownerVars /\ On(lifecycle)
      /\ UNCHANGED <<profile, receipts, proof>>
  BY DEF Conserved, Reads
<1>3. /\ DOMAIN lifecycle' = LifecycleFields /\ lifecycle'.i = lifecycle.i + 1
      /\ lifecycle'.ours = lifecycle.ours /\ lifecycle'.allow = lifecycle.allow
      /\ lifecycle'.deny = lifecycle.deny /\ lifecycle'.before = lifecycle.before
      /\ lifecycle'.afterAllow = lifecycle.afterAllow /\ lifecycle'.afterDeny = lifecycle.afterDeny
  BY <1>1, OnIs DEF LifecycleInv
<1>4. At' = At /\ LifecycleProgress /\ lifecycle.i = At.conserved
  BY <1>1, <1>3, LandmarkIs DEF Landmark
<1>5. HasFrozen /\ HasBefore /\ HasAllow /\ HasExecuted /\ HasAfterAllow /\ HasDeny /\ HasAfterDeny
  BY <1>4, OrderOfSteps DEF LifecycleProgress, LifecycleInv
<1>6. OwnerInv' /\ FinalStays /\ Executed' = Executed
  BY <1>1, OwnerMoves DEF OwnerStep, LifecycleInv, Executed, ownerVars
<1>7. HasConserved'
  <2>1. /\ OnePayment(lifecycle.before, lifecycle.afterAllow)
        /\ sameAccounting(lifecycle.afterAllow, lifecycle.afterDeny)
    BY DEF Conserved
  <2> QED  BY <1>3, <2>1 DEF HasConserved, OnePayment, PaidOnce, sameAccounting
<1>8. LifecycleProgress'
  <2>1. /\ lifecycle'.i > At.createDeny /\ lifecycle.i > At.createDeny
        /\ lifecycle'.i > At.readRevoked => lifecycle.i > At.readRevoked
    <3>1. lifecycle.i = At.conserved /\ lifecycle'.i = At.conserved + 1  BY <1>3, <1>4
    <3>2. profile \in {"simulated", "live", "hosted"}  BY DEF LifecycleInv
    <3> QED  BY <3>1, <3>2, OrderOfSteps
  <2> QED  BY <1>1, <1>3, <1>4, <1>5, <1>6, <1>7, <2>1, ItStays DEF LifecycleProgress, LifecycleInv
<1> QED  BY <1>1, <1>3, <1>6, <1>8, GoesOn

RevokedRead == StatusRead("readRevoked", "Revoked")

LEMMA RevokedReadKeeps ==
    ASSUME LifecycleInv, RevokedRead
    PROVE  LifecycleInv'
<1>1. /\ Performs("readRevoked") /\ UNCHANGED ownerVars /\ On(lifecycle)
      /\ UNCHANGED <<profile, receipts, proof>>
  BY DEF RevokedRead, StatusRead, Reads
<1>3. /\ DOMAIN lifecycle' = LifecycleFields /\ lifecycle'.i = lifecycle.i + 1
      /\ lifecycle'.ours = lifecycle.ours /\ lifecycle'.allow = lifecycle.allow
      /\ lifecycle'.deny = lifecycle.deny /\ lifecycle'.before = lifecycle.before
      /\ lifecycle'.afterAllow = lifecycle.afterAllow /\ lifecycle'.afterDeny = lifecycle.afterDeny
  BY <1>1, OnIs DEF LifecycleInv
<1>4. At' = At /\ LifecycleProgress /\ lifecycle.i = At.readRevoked
  BY <1>1, <1>3, LandmarkIs DEF Landmark
<1>5. HasFrozen /\ HasBefore /\ HasAllow /\ HasExecuted /\ HasAfterAllow /\ HasDeny /\ HasAfterDeny
  BY <1>4, OrderOfSteps DEF LifecycleProgress, LifecycleInv
<1>6. OwnerInv' /\ FinalStays /\ Executed' = Executed
  BY <1>1, OwnerMoves DEF OwnerStep, LifecycleInv, Executed, ownerVars
<1>7. HasRevoked'
  BY <1>1, <1>3 DEF RevokedRead, StatusRead, HasRevoked, ownerVars
<1>8. LifecycleProgress'
  <2>1. /\ lifecycle'.i > At.createDeny /\ lifecycle.i > At.createDeny
        /\ lifecycle'.i > At.conserved => lifecycle.i > At.conserved
    <3>1. lifecycle.i = At.readRevoked /\ lifecycle'.i = At.readRevoked + 1  BY <1>3, <1>4
    <3>2. profile \in {"simulated", "live", "hosted"}  BY DEF LifecycleInv
    <3> QED  BY <3>1, <3>2, OrderOfSteps
  <2> QED  BY <1>1, <1>3, <1>4, <1>5, <1>6, <1>7, <2>1, ItStays DEF LifecycleProgress, LifecycleInv
<1> QED  BY <1>1, <1>3, <1>6, <1>8, GoesOn

LEMMA EvidenceKeeps ==
    ASSUME LifecycleInv, writeEvidence
    PROVE  LifecycleInv'
<1>1. /\ Performs("evidence") /\ On(lifecycle) /\ UNCHANGED <<ownerVars, profile, receipts>>
      /\ proof'.before = lifecycle.before /\ proof'.afterDeny = lifecycle.afterDeny
  BY DEF writeEvidence
<1>2. /\ DOMAIN lifecycle' = LifecycleFields /\ lifecycle'.i = lifecycle.i + 1
      /\ lifecycle'.ours = lifecycle.ours /\ lifecycle'.allow = lifecycle.allow
      /\ lifecycle'.deny = lifecycle.deny /\ lifecycle'.before = lifecycle.before
      /\ lifecycle'.afterAllow = lifecycle.afterAllow /\ lifecycle'.afterDeny = lifecycle.afterDeny
  BY <1>1, OnIs DEF LifecycleInv
<1>3. At' = At /\ LifecycleProgress /\ lifecycle.i = At.evidence
  BY <1>1, <1>2, LandmarkIs DEF Landmark
<1>4. OwnerInv' /\ FinalStays
  BY <1>1, OwnerMoves DEF OwnerStep, LifecycleInv
<1>5. /\ HasFrozen /\ HasBefore /\ HasAllow /\ HasExecuted /\ HasAfterAllow /\ HasDeny
      /\ HasAfterDeny /\ HasConserved /\ HasRevoked
  <2>1. profile \in {"simulated", "live", "hosted"}  BY DEF LifecycleInv
  <2>2. /\ At.evidence > At.freeze /\ At.evidence > At.before /\ At.evidence > At.createAllow
        /\ At.evidence > At.execute /\ At.evidence > At.afterAllow /\ At.evidence > At.createDeny
        /\ At.evidence > At.afterDeny /\ At.evidence > At.conserved /\ At.evidence > At.readRevoked
    BY <2>1, OrderOfSteps
  <2> QED  BY <1>3, <2>2 DEF LifecycleProgress
<1>6. /\ HasFrozen' /\ HasBefore' /\ HasAllow' /\ HasExecuted' /\ HasAfterAllow' /\ HasDeny'
      /\ HasAfterDeny' /\ HasConserved' /\ HasRevoked'
  BY <1>1, <1>2, <1>4, <1>5, ItStays DEF LifecycleInv
<1>7. LifecycleProgress'
  <2>1. lifecycle'.i > At.createDeny
    BY <1>2, <1>3, OrderOfSteps DEF LifecycleInv
  <2> QED  BY <1>3, <1>6, <2>1 DEF LifecycleProgress
<1>8. lifecycle'.i = At.evidence + 1 /\ lifecycle'.i \in 1..(At.evidence + 2)
  BY <1>2, <1>3, OrderOfSteps DEF LifecycleInv
<1> QED  BY <1>1, <1>2, <1>3, <1>4, <1>7, <1>8 DEF LifecycleInv

-----------------------------------------------------------------------------
(* Every step.                                                              *)

LEMMA QuestionedIs ==
    ASSUME LifecycleInv, NEW step \in {"dispatch", "decide"}, Performs(step)
    PROVE  Questioned \in DOMAIN actionRequests
<1>1. /\ lifecycle.i \in 1..At.evidence /\ LifecycleSteps[lifecycle.i] = step
      /\ LifecycleProgress
  BY PerformsIs
<1>2. lifecycle.i > At.createAllow
  BY <1>1, LifecycleStepsAre DEF LifecycleInv
<1> QED  BY <1>1, <1>2 DEF LifecycleProgress, HasAllow, HasDeny, Questioned

LEMMA OursIs ==
    ASSUME LifecycleInv, NEW step \in {"stop", "resume", "revoke"}, Performs(step)
    PROVE  lifecycle.ours \in DOMAIN policies
<1>1. /\ lifecycle.i \in 1..At.evidence /\ LifecycleSteps[lifecycle.i] = step
      /\ LifecycleProgress
  BY PerformsIs
<1>2. lifecycle.i > At.freeze
  BY <1>1, LifecycleStepsAre DEF LifecycleInv
<1> QED  BY <1>1, <1>2 DEF LifecycleProgress, HasFrozen

LEMMA QuietReadKeeps ==
    ASSUME LifecycleInv, NEW step, step \notin Landmark, Reads(step, lifecycle)
    PROVE  LifecycleInv'
BY QuietStepKeeps DEF Reads, OwnerStep

LEMMA QuietStepsKeep ==
    ASSUME LifecycleInv,
           \/ machineFor \/ buildSanitizedCustodyEvidence \/ Fund \/ Sign \/ Dispatch
           \/ pollEvaluation \/ ExecutorPause \/ SubmitFirst \/ SubmitSecond
           \/ requestRelayEvaluation
    PROVE  LifecycleInv'
<1>1. CASE \E step \in {"machines", "custody", "fund", "sign", "collect", "pause", "submit", "answer"} :
             Reads(step, lifecycle)
  BY <1>1, QuietReadKeeps DEF Landmark
<1>2. CASE Writes("fund", deposit(3), lifecycle)
  <2>1. Performs("fund") /\ deposit(3) /\ On(lifecycle) /\ UNCHANGED <<profile, receipts, proof>>
    BY <1>2 DEF Writes
  <2>2. OwnerStep  BY <2>1 DEF OwnerStep
  <2> QED  BY <2>1, <2>2, QuietStepKeeps DEF Landmark
<1>3. CASE Dispatch
  <2>1. /\ Performs("dispatch") /\ AskMachines(Questioned) /\ On(lifecycle)
        /\ UNCHANGED <<profile, receipts, proof>>
    BY <1>3 DEF Dispatch, Writes
  <2>2. OwnerStep  BY <2>1, QuestionedIs DEF OwnerStep, Requested
  <2> QED  BY <2>1, <2>2, QuietStepKeeps DEF Landmark
<1>4. CASE SubmitSecond
  <2>1. /\ Performs("decide") /\ submitEvaluation(Questioned, "run") /\ On(lifecycle)
        /\ UNCHANGED <<profile, receipts, proof>>
    BY <1>4 DEF SubmitSecond, Writes
  <2>2. OwnerStep  BY <2>1, QuestionedIs DEF OwnerStep, Requested, Party
  <2> QED  BY <2>1, <2>2, QuietStepKeeps DEF Landmark
<1> QED
  BY <1>1, <1>2, <1>3, <1>4 DEF machineFor, buildSanitizedCustodyEvidence, Fund, Sign,
     pollEvaluation, ExecutorPause, SubmitFirst, requestRelayEvaluation

LEMMA GovernanceStepKeeps ==
    ASSUME LifecycleInv, GovernanceStep
    PROVE  LifecycleInv'
<1>1. CASE \E step \in {"readStopped", "probe", "readActive"} : Reads(step, lifecycle)
  BY <1>1, QuietReadKeeps DEF Landmark
<1>2. ASSUME NEW step \in {"stop", "resume", "revoke"}, Performs(step), Governed(lifecycle.ours),
             On(lifecycle), UNCHANGED <<profile, receipts, proof>>
      PROVE  LifecycleInv'
  <2>1. OwnerStep  BY <1>2, OursIs DEF OwnerStep
  <2> QED  BY <1>2, <2>1, QuietStepKeeps DEF Landmark
<1>3. CASE RevokedRead
  BY <1>3, RevokedReadKeeps
<1> QED
  BY <1>1, <1>2, <1>3 DEF GovernanceStep, Writes, Governed, StatusRead, expectCreateRejected,
     RevokedRead

LEMMA OthersNextKeeps ==
    ASSUME LifecycleInv, OthersNext
    PROVE  LifecycleInv'
<1>1. UNCHANGED <<profile, lifecycle, receipts, proof>>
  BY DEF OthersNext, Elsewhere, OwnerElsewhere, lifecycleVars
<1>2. CASE Elsewhere(OtherPolicy)
  BY <1>1, <1>2, OthersKeep DEF Elsewhere, OtherPolicy, OwnerStep
<1>3. CASE OwnerElsewhere
  BY <1>1, <1>3, OthersKeep DEF OwnerElsewhere, OwnerStep
<1>4. ASSUME NEW r \in DOMAIN actionRequests,
             \/ Elsewhere(Decide(r, "relay")) \/ Elsewhere(Decide(r, "other"))
             \/ Elsewhere(execute(r, "other")) \/ Elsewhere(End(r)) \/ Elsewhere(AskMachines(r))
      PROVE  LifecycleInv'
  <2>1. Requested(r)  BY <1>4 DEF Elsewhere, Decide, Requested, Party
  <2> QED  BY <1>1, <2>1, OthersKeep DEF OwnerStep
<1>5. ASSUME NEW p \in DOMAIN policies,
             Elsewhere(stopPolicy(p)) \/ Elsewhere(resumePolicy(p)) \/ Elsewhere(revokePolicy(p))
      PROVE  LifecycleInv'
  <2>1. Governed(p)  BY <1>5 DEF Elsewhere, Governed
  <2> QED  BY <1>1, <2>1, OthersKeep DEF OwnerStep
<1> QED  BY <1>2, <1>3, <1>4, <1>5 DEF OthersNext

LEMMA LifecycleKeeps == LifecycleInv /\ [LifecycleNext]_lifecycleRunVars => LifecycleInv'
<1> SUFFICES ASSUME LifecycleInv, [LifecycleNext]_lifecycleRunVars PROVE LifecycleInv'  OBVIOUS
<1>1. CASE UNCHANGED lifecycleRunVars
  BY <1>1, OthersKeep DEF lifecycleRunVars, lifecycleVars, OwnerStep
<1>2. CASE LifecycleNext
  BY <1>2, ReceiptKeeps, FrozenKeeps, BeforeKeeps, CreateAllowKeeps, ExecuteAllowedKeeps,
     AfterAllowKeeps, CreateDenyKeeps, AfterDenyKeeps, ConservedKeeps, EvidenceKeeps,
     FailureKeepsRun, QuietStepsKeep, GovernanceStepKeeps, OthersNextKeeps DEF LifecycleNext
<1> QED  BY <1>1, <1>2

\* One payment between two counts is the request that was executed between them.
LEMMA OnePaymentIsOurs ==
    ASSUME LifecycleInv, HasBefore, HasAllow, HasAfterAllow, HasAfterDeny, HasConserved
    PROVE  lifecycle.afterDeny.includes \ lifecycle.before.includes = {lifecycle.allow}
<1> DEFINE B == lifecycle.before.includes
           A == lifecycle.afterAllow.includes
           D == lifecycle.afterDeny.includes
           r == lifecycle.allow
<1>1. /\ IsFiniteSet(B) /\ IsFiniteSet(A) /\ IsFiniteSet(D) /\ B \subseteq A /\ A \subseteq D
      /\ r \notin B /\ r \in A
  BY DEF HasBefore, HasAllow, HasAfterAllow, HasAfterDeny, Counts
<1>2. Cardinality(A) = Cardinality(B) + 1 /\ Cardinality(D) = Cardinality(A)
  BY DEF HasBefore, HasAfterAllow, HasAfterDeny, HasConserved, Counts, PaidOnce, sameAccounting
<1> HIDE DEF A, B, D, r
<1>3. IsFiniteSet(B \cup {r}) /\ Cardinality(B \cup {r}) = Cardinality(B) + 1
  BY <1>1, FS_AddElement
<1>4. B \cup {r} = A
  BY <1>1, <1>2, <1>3, FS_Subset
<1>5. A = D
  BY <1>1, <1>2, FS_Subset
<1>6. D \ B = {r}  BY <1>1, <1>4, <1>5
<1> QED  BY <1>6 DEF B, D, r

LEMMA EvidenceHolds == LifecycleInv => LifecycleEvidenceIsTrue
<1> SUFFICES ASSUME LifecycleInv, proof.written PROVE LifecycleEvidenceIsTrue
  BY DEF LifecycleEvidenceIsTrue
<1>1. /\ lifecycle.i = At.evidence + 1 /\ LifecycleProgress
      /\ proof.before = lifecycle.before /\ proof.afterDeny = lifecycle.afterDeny
  BY OrderOfSteps DEF LifecycleInv
<1>2. /\ HasFrozen /\ HasBefore /\ HasAllow /\ HasExecuted /\ HasAfterAllow /\ HasDeny
      /\ HasAfterDeny /\ HasConserved /\ HasRevoked
  <2>1. profile \in {"simulated", "live", "hosted"}  BY DEF LifecycleInv
  <2>2. /\ At.evidence + 1 > At.freeze /\ At.evidence + 1 > At.before
        /\ At.evidence + 1 > At.createAllow /\ At.evidence + 1 > At.execute
        /\ At.evidence + 1 > At.afterAllow /\ At.evidence + 1 > At.createDeny
        /\ At.evidence + 1 > At.afterDeny /\ At.evidence + 1 > At.conserved
        /\ At.evidence + 1 > At.readRevoked
    BY <2>1, OrderOfSteps
  <2> QED  BY <1>1, <2>2 DEF LifecycleProgress
<1> QED
  BY <1>1, <1>2, OnePaymentIsOurs
     DEF LifecycleEvidenceIsTrue, HasFrozen, HasExecuted, HasAfterDeny, HasRevoked

\* Whichever of the three scripts ran, and whatever the owner, the relay and
\* others did to the same account meanwhile: what its evidence asserts is so.
THEOREM EvidenceIsTrue == LifecycleSpec => []LifecycleEvidenceIsTrue
BY LifecycleStarts, LifecycleKeeps, EvidenceHolds, PTL DEF LifecycleSpec
=============================================================================
