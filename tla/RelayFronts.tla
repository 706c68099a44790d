----------------------------- MODULE RelayFronts -----------------------------
(***************************************************************************)
(* The HTTP fronts of the two relays: apps/relay/src/http.ts before the     *)
(* stateless relay, live-http.ts before the hosted one.  Both count the     *)
(* requests of a remote address in a window that begins with its first      *)
(* request, in a map of limited size, before they look at the body; the     *)
(* hosted one then reads the body, which takes time, and counts evaluations *)
(* of an address and requester in a second map.                             *)
(*                                                                         *)
(* A map keeps its keys in the order in which they came, also when a value  *)
(* is replaced: it is a sequence of [key, startedAt, count].  The clock     *)
(* does not go back here.  Headers, origins and the routes that only read   *)
(* are left out, and so is what an answer says.                             *)
(***************************************************************************)
EXTENDS Integers, Sequences, FiniteSets, SequencesExt

CONSTANTS
    Client, Requester,
    RateMax,            \* maxRequests of an address
    RequesterRateMax,   \* and of an address and requester
    RateWindow,         \* windowMs
    MaxTracked,         \* maxTrackedClients, and the 2,048 of live-http.ts
    MaxReading,         \* bound: requests whose body is being read
    MaxArrivals,        \* bound: requests
    MaxFrontTime        \* bound

ASSUME FrontAssumption ==
    {RateMax, RequesterRateMax, RateWindow, MaxTracked} \subseteq Nat \ {0}
    /\ MaxArrivals \in Nat /\ MaxFrontTime \in Nat

\* The maps: of each front by address, and the second of the live front.
Table == {"relay", "live", "requester"}

MaxOf(table) == IF table = "requester" THEN RequesterRateMax ELSE RateMax

VARIABLES
    front,       \* the relay of this behaviour: they share nothing
    windows,     \* windows[t], requesterWindows
    arrivals,    \* how many requests came
    reading,     \* the requests whose body is being read
    frontTime,
    passed,      \* passed[t]: what each map let pass, [key, time], in order
    dropped      \* dropped[t]: keys that a map has dropped

frontVars == <<front, windows, arrivals, reading, frontTime, passed, dropped>>

FrontInit ==
    /\ front \in {"relay", "live"}
    /\ windows = [t \in Table |-> <<>>] /\ frontTime = 0 /\ arrivals = 0 /\ reading = {}
    /\ passed = [t \in Table |-> <<>>] /\ dropped = [t \in Table |-> {}]

PlaceOf(table, key) == {i \in DOMAIN windows[table] : windows[table][i].key = key}

Ended(window) == frontTime - window.startedAt >= RateWindow

Window(key) == [key |-> key, startedAt |-> frontTime, count |-> 1]

OneMore(window) == [window EXCEPT !.count = @ + 1]

\* (A mutant: the request that makes the count too large still passes.)
Full_OneLate(table, window) == window.count > MaxOf(table)

Full(table, window) == window.count >= MaxOf(table)

Admits(table, key) == \A i \in PlaceOf(table, key) : Ended(windows[table][i]) \/ ~ Full(table, windows[table][i])

\* consumeRateLimit of http.ts, consume of live-http.ts.
consume(table, key) ==
    IF ~ Admits(table, key) THEN UNCHANGED <<windows, passed, dropped>>
    ELSE
      /\ passed' = [passed EXCEPT ![table] = Append(@, [key |-> key, time |-> frontTime])]
      /\ \/ \E i \in PlaceOf(table, key) :
              /\ windows' = [windows EXCEPT ![table][i] =
                   IF Ended(@) THEN Window(key) ELSE OneMore(@)]
              /\ UNCHANGED dropped
         \/ /\ PlaceOf(table, key) = {}
            /\ LET full == Len(windows[table]) >= MaxTracked IN
               /\ windows' = [windows EXCEPT ![table] =
                    Append(IF full THEN Tail(@) ELSE @, Window(key))]
               /\ dropped' = [dropped EXCEPT ![table] =
                    IF full THEN @ \union {Head(windows[table]).key} ELSE @]

\* A request to evaluate, well formed or not, for the domain the relay is
\* bound to or not: answered at once with 415 or 429, or its body is read.
Arrive(request) ==
    LET counted == front = "live" \/ request.form # "content type" IN
    /\ arrivals < MaxArrivals /\ arrivals' = arrivals + 1
    /\ request \notin reading /\ Cardinality(reading) < MaxReading
    /\ reading' = IF counted /\ Admits(front, request.client) THEN reading \union {request} ELSE reading
    /\ IF counted THEN consume(front, request.client) ELSE UNCHANGED <<windows, passed, dropped>>
    /\ UNCHANGED frontTime

\* The rest of the handler of http.ts: 400, 422, or what the relay says.
RelayGoesOn == front = "relay" /\ UNCHANGED <<windows, passed, dropped>>

\* That of live-http.ts: 422, 429, or what the runtime says, which knows the
\* domain.
LiveGoesOn(request) ==
    /\ front = "live"
    /\ IF request.form \in {"content type", "malformed"} THEN UNCHANGED <<windows, passed, dropped>>
       ELSE consume("requester", <<request.client, request.requester>>)

BodyRead(request) ==
    /\ reading' = reading \ {request}
    /\ RelayGoesOn \/ LiveGoesOn(request)
    /\ UNCHANGED <<arrivals, frontTime>>

FrontTick ==
    /\ frontTime < MaxFrontTime /\ frontTime' = frontTime + 1
    /\ UNCHANGED <<windows, arrivals, reading, passed, dropped>>

FrontNext ==
    /\ UNCHANGED front
    /\ \/ \E client \in Client, requester \in Requester, form \in {"content type", "malformed", "good"} :
            Arrive([client |-> client, requester |-> requester, form |-> form])
       \/ \E request \in reading : BodyRead(request)
       \/ FrontTick

FrontSpec == FrontInit /\ [][FrontNext]_frontVars

-----------------------------------------------------------------------------
(* Properties.                                                              *)

PassedSince(table, key, from, to) ==
    Cardinality({i \in DOMAIN passed[table] :
        passed[table][i].key = key /\ from <= passed[table][i].time /\ passed[table][i].time <= to})

\* The maps stay within their size and name no key twice; the count of a
\* window is what has passed since it began; and of a key that was never
\* dropped no more than twice the maximum passes in any span as long as a
\* window (http.ts:222-243, live-http.ts:151-162).
WindowsHold ==
    \A table \in Table :
        /\ Len(windows[table]) <= MaxTracked
        /\ \A i, j \in DOMAIN windows[table] : i # j => windows[table][i].key # windows[table][j].key
        /\ \A w \in ToSet(windows[table]) : w.key \notin dropped[table] =>
             /\ w.count <= MaxOf(table)
             /\ w.count = PassedSince(table, w.key, w.startedAt, frontTime)
        /\ \A k \in {passed[table][i].key : i \in DOMAIN passed[table]} \ dropped[table], t \in 0..frontTime :
             PassedSince(table, k, t, t + RateWindow - 1) <= 2 * MaxOf(table)
=============================================================================
