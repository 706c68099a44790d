-------------------------------- MODULE Relay --------------------------------
(***************************************************************************)
(* The stateless relay, apps/relay/src/relay.ts: callers ask for an         *)
(* evaluation of a public request and state, identical concurrent work is   *)
(* coalesced, distinct work is bounded, three machines are called with a    *)
(* timeout, and two matching envelopes are submitted to the router one      *)
(* after the other, while other executors submit envelopes too.             *)
(*                                                                         *)
(* One request is followed.  A Key stands for evaluationKey: two keys carry *)
(* two snapshots of the state, which machines may answer differently.  An   *)
(* envelope is its machine and its digest: it passes isValidEnvelope when   *)
(* that machine signed that digest, whichever endpoint delivered it.        *)
(***************************************************************************)
EXTENDS Naturals, FiniteSets, Sequences

CONSTANTS
    Caller,
    Key,                       \* distinct evaluation work
    Digest,                    \* what machines may sign about the request
    MaxConcurrentEvaluations,
    MaxStarts                  \* bound: evaluations and submissions ever started

ASSUME RelayAssumption ==
    /\ {MaxConcurrentEvaluations, MaxStarts} \subseteq Nat \ {0}
    /\ {"open", "closed"} \cap Digest = {}

Machine == 1..3                \* the three descriptors, in order

Envelope == [machine: Machine, digest: Digest]

\* What a call to an endpoint has brought: nothing yet, a failure (timeout,
\* transport error or an envelope that is not valid), or an envelope.
Pending == [machine |-> 0, digest |-> "pending"]
Failed == [machine |-> 0, digest |-> "failed"]

NoOperation == <<>>
Idle == [at |-> "idle"]

VARIABLES
    caller,     \* caller[c]: where a caller of the relay is
    inFlightEvaluations,    \* [Key -> the three answers, or NoOperation]
    activeEvaluations,
    inFlightSubmissions,    \* [Digest -> envelopes still to submit, or NoOperation]
    signed,     \* envelopes machines have signed
    votes,      \* envelopes the router accepted
    decided,    \* digest the router decided, or "open", or "closed" without one
    starts      \* evaluations and submissions started so far

relayVars == <<caller, inFlightEvaluations, activeEvaluations, inFlightSubmissions,
               signed, votes, decided, starts>>

CallerState ==
    {Idle} \cup [at: {"evaluating"}, key: Key]
           \cup [at: {"ready"}, matching: Envelope \X Envelope]
           \cup [at: {"submitting", "submitted"}, digest: Digest]

RelayTypeOK ==
    /\ caller \in [Caller -> CallerState]
    /\ inFlightEvaluations \in
         [Key -> {NoOperation} \cup [Machine -> Envelope \cup {Pending, Failed}]]
    /\ activeEvaluations \in Nat
    /\ inFlightSubmissions \in [Digest -> Seq(Envelope)]
    /\ signed \subseteq Envelope /\ votes \subseteq signed
    /\ decided \in Digest \cup {"open", "closed"}
    /\ starts \in 0..MaxStarts

RelayInit ==
    /\ caller = [c \in Caller |-> Idle]
    /\ inFlightEvaluations = [k \in Key |-> NoOperation]
    /\ activeEvaluations = 0
    /\ inFlightSubmissions = [d \in Digest |-> NoOperation]
    /\ signed = {} /\ votes = {} /\ decided = "open"
    /\ starts = 0

-----------------------------------------------------------------------------
(* evaluate                                                                 *)

InFlight == {k \in Key : inFlightEvaluations[k] # NoOperation}

HasCapacity == activeEvaluations < MaxConcurrentEvaluations

evaluate(c, k) ==
    /\ caller[c] = Idle
    /\ \/ k \in InFlight
          /\ UNCHANGED <<inFlightEvaluations, activeEvaluations, starts>>
       \/ k \notin InFlight /\ HasCapacity /\ starts < MaxStarts
          /\ inFlightEvaluations' =
               [inFlightEvaluations EXCEPT ![k] = [m \in Machine |-> Pending]]
          /\ activeEvaluations' = activeEvaluations + 1
          /\ starts' = starts + 1
    /\ caller' = [caller EXCEPT ![c] = [at |-> "evaluating", key |-> k]]
    /\ UNCHANGED <<inFlightSubmissions, signed, votes, decided>>

\* An endpoint answers with an envelope of its machine, signed now, or with
\* one that any machine signed before.
Answer(k, endpoint, envelope) ==
    /\ k \in InFlight /\ inFlightEvaluations[k][endpoint] = Pending
    /\ envelope \in signed \/ envelope.machine = endpoint
    /\ signed' = signed \cup {envelope}
    /\ inFlightEvaluations' = [inFlightEvaluations EXCEPT ![k][endpoint] = envelope]
    /\ UNCHANGED <<caller, activeEvaluations, inFlightSubmissions, votes, decided, starts>>

\* callMachine's timer wins the race, or the answer is worthless; an answer
\* that comes later changes nothing.
Fail(k, endpoint) ==
    /\ k \in InFlight /\ inFlightEvaluations[k][endpoint] = Pending
    /\ inFlightEvaluations' = [inFlightEvaluations EXCEPT ![k][endpoint] = Failed]
    /\ UNCHANGED <<caller, activeEvaluations, inFlightSubmissions, signed, votes, decided, starts>>

\* (A mutant: envelopes count per endpoint that delivered them.)
Valid_PerEndpoint(answers) == {i \in Machine : answers[i] # Failed}

\* Where the valid envelopes are, one per machine, the first delivered.
Valid(answers) ==
    {i \in Machine : /\ answers[i] # Failed
                     /\ \A j \in 1..(i - 1) : answers[j].machine # answers[i].machine}

Group(answers, digest) == {i \in Valid(answers) : answers[i].digest = digest}

\* Where the first two envelopes of a group are; submitThreshold uses no other.
FirstTwo(answers) ==
    {p \in Machine \X Machine :
        /\ p[1] < p[2]
        /\ Group(answers, answers[p[1]].digest) \cap 1..p[2] = {p[1], p[2]}}

Matching(answers) == {<<answers[p[1]], answers[p[2]]>> : p \in FirstTwo(answers)}

\* The operation gives its slot back, whatever came of it.
Leave == activeEvaluations' = activeEvaluations - 1

AllSettled(k) == \A m \in Machine : inFlightEvaluations[k][m] # Pending

\* All three answers have settled: every caller that shared the work learns
\* the outcome; SPLIT and UNAVAILABLE leave it with nothing to submit.
evaluateOnceEnds(k) ==
    LET matching == Matching(inFlightEvaluations[k]) IN
    /\ k \in InFlight
    /\ AllSettled(k)
    /\ caller' = [c \in Caller |->
         IF caller[c] # [at |-> "evaluating", key |-> k] THEN caller[c]
         ELSE IF matching = {} THEN Idle
         ELSE [at |-> "ready", matching |-> CHOOSE g \in matching : TRUE]]
    /\ inFlightEvaluations' = [inFlightEvaluations EXCEPT ![k] = NoOperation]
    /\ Leave
    /\ UNCHANGED <<inFlightSubmissions, signed, votes, decided, starts>>

-----------------------------------------------------------------------------
(* submitThreshold, and the router behind the submitter                     *)

SubmitThreshold(c) ==
    /\ caller[c].at = "ready"
    /\ LET d == caller[c].matching[1].digest IN
       /\ IF inFlightSubmissions[d] # NoOperation
            THEN UNCHANGED <<inFlightSubmissions, starts>>
            ELSE /\ starts < MaxStarts /\ starts' = starts + 1
                 /\ inFlightSubmissions' =
                      [inFlightSubmissions EXCEPT ![d] = caller[c].matching]
       /\ caller' = [caller EXCEPT ![c] = [at |-> "submitting", digest |-> d]]
    /\ UNCHANGED <<inFlightEvaluations, activeEvaluations, signed, votes, decided>>

\* The router takes a vote while the request is open, once per machine.
Accepts(envelope) ==
    decided = "open" /\ \A v \in votes : v.machine # envelope.machine

Vote(envelope) ==
    /\ votes' = votes \cup {envelope}
    /\ decided' = IF \E v \in votes : v.digest = envelope.digest THEN envelope.digest ELSE "open"

\* (A mutant: a failure is not passed on to those who wait for it.)
Conclude_FailsSilently(d, place) ==
    /\ inFlightSubmissions' = [inFlightSubmissions EXCEPT ![d] = NoOperation]
    /\ caller' = [c \in Caller |->
         IF caller[c] # [at |-> "submitting", digest |-> d] \/ place # "submitted"
           THEN caller[c] ELSE [at |-> "submitted", digest |-> d]]

\* Everybody who shares the submission learns how it ended.
Conclude(d, place) ==
    /\ inFlightSubmissions' = [inFlightSubmissions EXCEPT ![d] = NoOperation]
    /\ caller' = [c \in Caller |->
         IF caller[c] # [at |-> "submitting", digest |-> d] THEN caller[c]
         ELSE IF place = "submitted" THEN [at |-> "submitted", digest |-> d] ELSE Idle]

\* One awaited submitEvaluation succeeds.
SubmitOne(d) ==
    LET queue == inFlightSubmissions[d] IN
    /\ queue # NoOperation /\ Accepts(Head(queue))
    /\ Vote(Head(queue))
    /\ IF Len(queue) = 1
         THEN Conclude(d, "submitted")
         ELSE /\ inFlightSubmissions' = [inFlightSubmissions EXCEPT ![d] = Tail(queue)]
              /\ UNCHANGED caller
    /\ UNCHANGED <<inFlightEvaluations, activeEvaluations, signed, starts>>

\* It fails: the router refuses it, or the answer is lost although the vote
\* may have been taken.  The rest of the queue is not tried.
SubmitFails(d) ==
    /\ inFlightSubmissions[d] # NoOperation
    /\ \/ UNCHANGED <<votes, decided>>
       \/ Accepts(Head(inFlightSubmissions[d])) /\ Vote(Head(inFlightSubmissions[d]))
    /\ Conclude(d, "failed")
    /\ UNCHANGED <<inFlightEvaluations, activeEvaluations, signed, starts>>

\* Another executor submits an envelope it obtained; the request may expire.
Compete(envelope) ==
    /\ envelope \in signed /\ Accepts(envelope)
    /\ Vote(envelope)
    /\ UNCHANGED <<caller, inFlightEvaluations, activeEvaluations, inFlightSubmissions,
                   signed, starts>>

Close ==
    /\ decided = "open"
    /\ decided' = "closed"
    /\ UNCHANGED <<caller, inFlightEvaluations, activeEvaluations, inFlightSubmissions,
                   signed, votes, starts>>

\* A caller that has its answer comes back with the next question.
Return(c) ==
    /\ caller[c].at \in {"ready", "submitted"}
    /\ caller' = [caller EXCEPT ![c] = Idle]
    /\ UNCHANGED <<inFlightEvaluations, activeEvaluations, inFlightSubmissions,
                   signed, votes, decided, starts>>

CallerNext == \E c \in Caller : (\E k \in Key : evaluate(c, k)) \/ SubmitThreshold(c) \/ Return(c)

Progress ==
    \/ \E k \in Key : evaluateOnceEnds(k) \/ (\E m \in Machine : Fail(k, m))
    \/ \E d \in Digest : SubmitOne(d) \/ SubmitFails(d)

RelayNext ==
    \/ CallerNext
    \/ Progress
    \/ \E k \in Key, m \in Machine, e \in Envelope : Answer(k, m, e)
    \/ \E e \in Envelope : Compete(e)
    \/ Close

RelaySpec == RelayInit /\ [][RelayNext]_relayVars

-----------------------------------------------------------------------------
(* Properties.                                                              *)

\* A caller is told that the threshold is ready only for a digest that two
\* different machines signed, although one endpoint may replay the envelope of
\* another and two snapshots of the same request are evaluated side by side.
ReadyHasTwoSigners ==
    \A c \in Caller : caller[c].at = "ready" =>
        LET g == caller[c].matching IN
        /\ {g[1], g[2]} \subseteq signed
        /\ g[1].machine # g[2].machine /\ g[1].digest = g[2].digest

\* A submission that is reported successful has decided the request with its
\* digest, whatever competing executors submitted in between.
SuccessIsDecision == \A c \in Caller : caller[c].at = "submitted" => decided = caller[c].digest

\* What a caller is told is so: that the threshold is ready, or that the
\* request is decided (apps/relay/src/relay.ts).
OutcomesAreTrue == ReadyHasTwoSigners /\ SuccessIsDecision

\* Nobody waits for work that nobody does: whoever shares an evaluation or a
\* submission waits for one that is in flight, whichever way others end.
WaitersAreServed ==
    \A c \in Caller :
        /\ caller[c].at = "evaluating" => caller[c].key \in InFlight
        /\ caller[c].at = "submitting" => inFlightSubmissions[caller[c].digest] # NoOperation
=============================================================================
