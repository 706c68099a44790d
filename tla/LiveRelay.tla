------------------------------ MODULE LiveRelay ------------------------------
(***************************************************************************)
(* The hosted relay, apps/relay/src/live-runtime.ts.  A requester asks for   *)
(* the evaluation of a request that is on chain; the relay memoizes the      *)
(* operation, reads router, vault and history one await after the other,     *)
(* pays for the dispatch to the three machines, polls them, and submits the  *)
(* matching envelopes.  Meanwhile the chain moves: the owner deposits and    *)
(* withdraws, other executors submit, requests execute, expire, are cancelled.*)
(*                                                                         *)
(* The requests are requests of one policy, one unit of its owner's asset    *)
(* each, all created on the same chain state: their first occurrence.        *)
(***************************************************************************)
EXTENDS Integers, FiniteSets, Sequences

CONSTANTS
    Request,
    Requester,        \* who may claim to have created a request
    Creator,          \* who did
    Opinions,         \* what the machines' private policies may say, per machine
    InitialDeposit, MaxDeposit,
    MaxCached,        \* 2,048 in the code
    MaxOperations     \* bound: operations ever started

ASSUME LiveRelayAssumption ==
    /\ Creator \in Requester
    /\ {InitialDeposit, MaxDeposit, MaxCached, MaxOperations} \subseteq Nat
    /\ MaxCached > 0

Machine == 1..3
Digest == {"ALLOW", "DENY_POLICY", "DENY_BALANCE"}
Envelope == [request: Request, machine: Machine, digest: Digest]

ASSUME OpinionAssumption == Opinions \subseteq [Machine -> {"ALLOW", "DENY_POLICY"}]

\* An instance of it: every machine would allow.
Unanimous == {[m \in Machine |-> "ALLOW"]}

VARIABLES
    status,       \* status[r]: the router's status of the request
    votes,        \* envelopes the router accepted
    deposited,    \* what the owner has deposited in the vault
    withdrawn,    \* and withdrawn from it
    opinion,      \* opinion[r][m]: what m's private policy says of the request
    signed,       \* envelopes the machines have signed
    operations,   \* every operation started, in order
    evaluations   \* the memo: operations, each under its own key and, as it is put
                  \* there when it starts, in the order of their numbers

chainVars == <<status, votes, deposited, withdrawn>>
vars == <<status, votes, deposited, withdrawn, opinion, signed, operations, evaluations>>

Status == {"Pending", "Allowed", "Denied", "Executed", "Expired", "Cancelled"}

Place == {"read", "spend", "balance", "dispatch", "poll", "submit", "write",
          "reread", "final", "done"}

Operation ==
    [request: Request, requester: Requester, valid: BOOLEAN, expired: BOOLEAN,
     at: Place, dispatched: BOOLEAN, available: Int, queue: SUBSET Envelope,
     answer: {"none", "error", "threshold-submitted", "already-finalized"},
     decision: {"none", "ALLOW", "DENY"}]

-----------------------------------------------------------------------------
(* The chain.                                                               *)

With(s) == {r \in Request : status[r] = s}

\* The vault's accounting of the owner, with every request one unit.
accounting ==
    [deposited |-> deposited,
     available |-> deposited - withdrawn - Cardinality(With("Allowed") \cup With("Executed")),
     reserved  |-> Cardinality(With("Allowed")),
     spent     |-> Cardinality(With("Executed")),
     withdrawn |-> withdrawn]

\* What the requests froze when they were created.
balanceCheckpoint ==
    [deposited |-> InitialDeposit, available |-> InitialDeposit, reserved |-> 0,
     spent |-> 0, withdrawn |-> 0]

Voted(r, m) == \E v \in votes : v.request = r /\ v.machine = m

SameVotes(r, d) == Cardinality({v \in votes : v.request = r /\ v.digest = d})

Decided(r, decision) ==
    \E d \in Digest : SameVotes(r, d) >= 2 /\ (d = "ALLOW") = (decision = "ALLOW")

CanReserve == accounting.available >= 1

Deciding(e) == SameVotes(e.request, e.digest) = 1

Accepts(e) ==
    /\ status[e.request] = "Pending" /\ ~Voted(e.request, e.machine)
    /\ Deciding(e) /\ e.digest = "ALLOW" => CanReserve

Vote(e) ==
    /\ votes' = votes \cup {e}
    /\ status' = [status EXCEPT ![e.request] =
         IF ~Deciding(e) THEN @ ELSE IF e.digest = "ALLOW" THEN "Allowed" ELSE "Denied"]
    /\ UNCHANGED <<deposited, withdrawn>>

-----------------------------------------------------------------------------
(* evaluate and its memo                                                    *)

SameKey(i, j) ==
    /\ operations[i].request = operations[j].request
    /\ operations[i].requester = operations[j].requester

Init ==
    /\ status = [r \in Request |-> "Pending"]
    /\ votes = {} /\ signed = {}
    /\ deposited = InitialDeposit /\ withdrawn = 0
    /\ opinion \in [Request -> Opinions]
    /\ operations = <<>> /\ evaluations = {}

Started(r, requester, valid) ==
    [request |-> r, requester |-> requester, valid |-> valid, expired |-> FALSE,
     at |-> "read", dispatched |-> FALSE, available |-> 0, queue |-> {},
     answer |-> "none", decision |-> "none"]

Unexpired == {i \in evaluations : ~operations[i].expired}

Oldest(memo) == {i \in memo : \A j \in memo : i <= j}

Evicted(memo) == IF Cardinality(memo) >= MaxCached THEN memo \ Oldest(memo) ELSE memo

Evaluate(r, requester, valid) ==
    /\ IF \E i \in Unexpired :
             operations[i].request = r /\ operations[i].requester = requester
         THEN evaluations' = Unexpired /\ UNCHANGED operations
         ELSE /\ Len(operations) < MaxOperations
              /\ operations' = Append(operations, Started(r, requester, valid))
              /\ evaluations' = Evicted(Unexpired) \cup {Len(operations) + 1}
    /\ UNCHANGED <<chainVars, opinion, signed>>

\* (A mutant: whichever operation is memoized under the key is forgotten.)
Forget_ByKey(i) == {j \in evaluations : ~SameKey(i, j)}
\* A failure removes its own memo only: the key may hold a newer operation.
Forget(i) == evaluations \ {i}

\* An operation that is over keeps nothing but its answer.
Over(operation, answer, decision) ==
    [operation EXCEPT !.at = "done", !.available = 0, !.queue = {},
                      !.answer = answer, !.decision = decision]

\* Any await may fail: the RPC, a policy that is no longer active, a machine
\* set that changed, a transaction whose receipt does not come in time.
Fail(i) ==
    /\ operations' = [operations EXCEPT ![i] = Over(@, "error", "none")]
    /\ evaluations' = Forget(i)

Finish(i, kind, decision) ==
    /\ operations' = [operations EXCEPT ![i] = Over(@, kind, decision)]
    /\ UNCHANGED evaluations

GoTo(i, place) ==
    operations' = [operations EXCEPT ![i].at = place] /\ UNCHANGED evaluations

At(i, place) == i \in DOMAIN operations /\ operations[i].at = place

-----------------------------------------------------------------------------
(* evaluateOnce, one action per await                                       *)

Authorized(i) ==
    operations[i].requester = Creator /\ operations[i].valid /\ ~operations[i].expired

\* (A mutant: a cancelled request counts as finalized.)
Finalized_Cancelled == {"Allowed", "Denied", "Executed", "Cancelled"}

Finalized == {"Allowed", "Denied", "Executed"}

ReadRequest(i) ==
    LET s == status[operations[i].request] IN
    /\ At(i, "read")
    /\ \/ Authorized(i) /\ s \in Finalized
          /\ Finish(i, "already-finalized", IF s = "Denied" THEN "DENY" ELSE "ALLOW")
       \/ Authorized(i) /\ s = "Pending" /\ GoTo(i, "spend")
       \/ ~(Authorized(i) /\ s \in Finalized \cup {"Pending"}) /\ Fail(i)
    /\ UNCHANGED <<chainVars, opinion, signed>>

\* spendState: every request continues the genesis checkpoint, occurrence 1.
ReadSpendState(i) ==
    /\ At(i, "spend")
    /\ IF With("Executed") = {} THEN GoTo(i, "balance") ELSE Fail(i)
    /\ UNCHANGED <<chainVars, opinion, signed>>

\* (A mutant: any accounting will do.)
MatchesCheckpoint_Any == TRUE

MatchesCheckpoint == accounting = balanceCheckpoint

ReadAccounting(i) ==
    /\ At(i, "balance")
    /\ IF MatchesCheckpoint
         THEN /\ operations' = [operations EXCEPT ![i].at = "dispatch",
                                                  ![i].available = accounting.available]
              /\ UNCHANGED evaluations
         ELSE Fail(i)
    /\ UNCHANGED <<chainVars, opinion, signed>>

\* What a machine signs of the request and the state it is sent.
Evaluated(r, m, available) ==
    [request |-> r, machine |-> m,
     digest |-> IF opinion[r][m] = "ALLOW" /\ available < 1 THEN "DENY_BALANCE" ELSE opinion[r][m]]

Results(i) ==
    {Evaluated(operations[i].request, m, operations[i].available) : m \in Machine}

\* The history is read last; then the dispatch transaction, which may reach
\* the machines although its receipt does not reach the relay.
Dispatch(i) ==
    /\ At(i, "dispatch") /\ With("Executed") = {}
    /\ signed' = signed \cup Results(i)
    /\ \/ /\ operations' = [operations EXCEPT ![i].at = "poll", ![i].dispatched = TRUE]
          /\ UNCHANGED evaluations
       \/ /\ operations' = [operations EXCEPT ![i] =
                 [Over(@, "error", "none") EXCEPT !.dispatched = TRUE]]
          /\ evaluations' = Forget(i)
    /\ UNCHANGED <<chainVars, opinion>>

DispatchNothing(i) ==
    /\ At(i, "dispatch") /\ Fail(i)
    /\ UNCHANGED <<chainVars, opinion, signed>>

Matching(answered) ==
    {e \in answered : Cardinality({f \in answered : f.digest = e.digest}) >= 2}

\* The matching envelopes are submitted in the order of their machines.
First(queue) == CHOOSE e \in queue : \A f \in queue : e.machine <= f.machine

\* The three polls have settled; some machines answered in time.
Poll(i) ==
    /\ At(i, "poll")
    /\ \E answered \in SUBSET Results(i) :
         LET matching == Matching(answered) IN
         IF matching = {} THEN Fail(i)
         ELSE /\ operations' = [operations EXCEPT ![i].at = "submit", ![i].queue = matching,
                ![i].decision = IF First(matching).digest = "ALLOW" THEN "ALLOW" ELSE "DENY"]
              /\ UNCHANGED evaluations
    /\ UNCHANGED <<chainVars, opinion, signed>>

\* (A mutant: the loop does not move on.)
Rest_Same(queue) == queue

Rest(queue) == queue \ {First(queue)}

\* machineSubmitted: an envelope the router has already is skipped.
Submit(i) ==
    LET queue == operations[i].queue IN
    /\ At(i, "submit")
    /\ IF queue = {} THEN GoTo(i, "final")
       ELSE IF Voted(operations[i].request, First(queue).machine)
            THEN operations' = [operations EXCEPT ![i].queue = Rest(queue)] /\ UNCHANGED evaluations
            ELSE GoTo(i, "write")
    /\ UNCHANGED <<chainVars, opinion, signed>>

\* submitEvaluation succeeds, or succeeds unseen, or is refused.
Write(i) ==
    LET e == First(operations[i].queue) IN
    /\ At(i, "write")
    /\ \/ Accepts(e) /\ Vote(e) /\ (GoTo(i, "reread") \/ Fail(i))
       \/ ~Accepts(e) /\ Fail(i) /\ UNCHANGED chainVars
    /\ UNCHANGED <<opinion, signed>>

Reread(i) ==
    /\ At(i, "reread")
    /\ operations' = [operations EXCEPT
         ![i].at = IF status[operations[i].request] \in {"Allowed", "Denied"} THEN "final" ELSE "submit",
         ![i].queue = Rest(@)]
    /\ UNCHANGED <<chainVars, opinion, signed, evaluations>>

PostCondition(i) ==
    status[operations[i].request] = IF operations[i].decision = "ALLOW" THEN "Allowed" ELSE "Denied"

Conclude(i) ==
    /\ At(i, "final")
    /\ IF PostCondition(i) THEN Finish(i, "threshold-submitted", operations[i].decision) ELSE Fail(i)
    /\ UNCHANGED <<chainVars, opinion, signed>>

\* Any other await that fails.
AwaitFails(i) ==
    /\ i \in DOMAIN operations /\ operations[i].at \notin {"done", "dispatch"}
    /\ Fail(i)
    /\ UNCHANGED <<chainVars, opinion, signed>>

-----------------------------------------------------------------------------
(* Time and the other users of the chain.                                   *)

ExpireAuthorization(i) ==
    /\ i \in DOMAIN operations /\ ~operations[i].expired
    /\ operations' = [operations EXCEPT ![i].expired = TRUE]
    /\ UNCHANGED <<chainVars, opinion, signed, evaluations>>

Compete(e) ==
    e \in signed /\ Accepts(e) /\ Vote(e) /\ UNCHANGED <<opinion, signed, operations, evaluations>>

Deposit ==
    /\ deposited < MaxDeposit
    /\ deposited' = deposited + 1
    /\ UNCHANGED <<status, votes, withdrawn, opinion, signed, operations, evaluations>>

Withdraw ==
    /\ accounting.available >= 1
    /\ withdrawn' = withdrawn + 1
    /\ UNCHANGED <<status, votes, deposited, opinion, signed, operations, evaluations>>

\* execute needs the spend chain where the request found it.
Execute(r) ==
    /\ status[r] = "Allowed" /\ With("Executed") = {}
    /\ status' = [status EXCEPT ![r] = "Executed"]
    /\ UNCHANGED <<votes, deposited, withdrawn, opinion, signed, operations, evaluations>>

Abandon(r) ==
    /\ status[r] \in {"Pending", "Allowed"}
    /\ \E s \in {"Expired", "Cancelled"} : status' = [status EXCEPT ![r] = s]
    /\ UNCHANGED <<votes, deposited, withdrawn, opinion, signed, operations, evaluations>>

ChainNext ==
    \/ Deposit \/ Withdraw
    \/ \E r \in Request : Execute(r) \/ Abandon(r)
    \/ \E e \in Envelope : Compete(e)

Step(i) ==
    \/ ReadRequest(i) \/ ReadSpendState(i) \/ ReadAccounting(i)
    \/ Dispatch(i) \/ DispatchNothing(i) \/ Poll(i)
    \/ Submit(i) \/ Write(i) \/ Reread(i) \/ Conclude(i)

Next ==
    \/ \E r \in Request, c \in Requester, valid \in BOOLEAN : Evaluate(r, c, valid)
    \/ \E i \in 1..MaxOperations : Step(i) \/ AwaitFails(i) \/ ExpireAuthorization(i)
    \/ ChainNext

Spec == Init /\ [][Next]_vars

\* Every await of evaluateOnce carries a timeout.
FairSpec == Spec /\ \A i \in 1..MaxOperations : WF_vars(Step(i))

-----------------------------------------------------------------------------
(* Properties.                                                              *)

TypeOK ==
    /\ status \in [Request -> Status]
    /\ votes \subseteq signed /\ signed \subseteq Envelope
    /\ deposited \in 0..MaxDeposit /\ withdrawn \in 0..deposited
    /\ accounting.available \in Nat
    /\ opinion \in [Request -> Opinions]
    /\ \A i \in DOMAIN operations : operations[i] \in Operation
    /\ evaluations \subseteq DOMAIN operations

\* An answer with a decision is the router's decision, although the request is
\* read several awaits before the answer is given, other executors vote in
\* between and the operation may have submitted nothing itself.
AnswerIsDecision ==
    \A i \in DOMAIN operations : operations[i].answer \notin {"none", "error"} =>
        Decided(operations[i].request, operations[i].decision)

\* Retries are deterministic: however often a request is dispatched, by
\* however many operations, a machine signs the same digest every time, so a
\* half-submitted threshold can always be completed by a retry.
RetriesAgree ==
    \A e, f \in signed : e.request = f.request /\ e.machine = f.machine => e = f

\* A running operation whose authorization has not expired leaves the memo
\* only as the oldest of a full one, to make room for another: one that fails
\* does not unlock the one that replaced it under its key, so a retry finds the
\* dispatch under way.
RunningStaysMemoized ==
    [][\A i \in evaluations \ evaluations' :
         \/ operations[i].expired \/ operations'[i].answer = "error"
         \/ /\ Len(operations') > Len(operations) /\ Cardinality(evaluations) >= MaxCached
            /\ \A j \in evaluations : operations[j].expired \/ i <= j]_vars

\* Every operation, and with it every caller that shares it, gets an answer.
OperationsEnd == \A i \in 1..MaxOperations : (i \in DOMAIN operations) ~> At(i, "done")

\* README.md: reuse of a request operation is memoized until its authorization
\* expires, so that a retry cannot trigger sponsored dispatch work repeatedly.
DispatchedOncePerAuthorization ==
    \A i, j \in DOMAIN operations :
        SameKey(i, j) /\ i # j /\ operations[i].dispatched /\ operations[j].dispatched
            => operations[i].expired \/ operations[j].expired
=============================================================================
