------------------------------- MODULE Monitor -------------------------------
(***************************************************************************)
(* The production monitor (apps/monitor/src).  A timer takes a sample: it   *)
(* probes the relay, the RPC and three machines, all at once, and when the  *)
(* last of them has answered or failed it records a snapshot and compares   *)
(* the alerts with it.  The interval may be as short as the time a probe    *)
(* may take, so that a sample can begin before the one before has ended.    *)
(* Snapshots and incidents are kept up to a limit, the oldest dropped.      *)
(***************************************************************************)
EXTENDS Integers, Sequences, FiniteSets, SequencesExt

CONSTANTS
    Dependency,        \* the relay, the RPC and the machines
    RelayTarget, RpcTarget,
    RetentionSamples,  \* retentionSamples, at least 2
    MaxIncidents,      \* MAX_INCIDENTS, 128
    MaxInFlight,       \* samples that have not ended
    MaxSamples,        \* bound
    MaxChanges         \* bound: dependencies that come or go

ASSUME MonitorAssumption ==
    /\ {RelayTarget, RpcTarget} \subseteq Dependency
    /\ IsFiniteSet(Dependency) /\ Cardinality(Dependency) = 5
    /\ RetentionSamples \in Nat /\ RetentionSamples >= 2
    /\ MaxIncidents \in Nat \ {0} /\ MaxInFlight \in Nat \ {0}
    /\ MaxSamples \in Nat /\ MaxChanges \in Nat

Machine == Dependency \ {RelayTarget, RpcTarget}

AlertKind == {"relay-unavailable", "rpc-unavailable", "fcc-quorum-unavailable",
              "fcc-custody-set-degraded"}

severityOf(kind) == IF kind = "fcc-custody-set-degraded" THEN "warning" ELSE "critical"

VARIABLES
    up,            \* the dependencies that would pass their probe
    changes,
    samples,       \* samples that have begun
    probing,       \* those in flight: [at, answers]
    history,       \* the snapshots kept
    activeAlerts,  \* activeAlerts[k]: since when, of the kinds that are active
    incidents

monitorVars == <<up, changes, samples, probing, history, activeAlerts, incidents>>

MonitorInit ==
    /\ up = Dependency /\ changes = 0 /\ samples = 0 /\ probing = {}
    /\ history = <<>> /\ activeAlerts = [k \in {} |-> 0] /\ incidents = <<>>

\* The last n of a sequence.
Latest(n, s) == SubSeq(s, Len(s) - n + 1, Len(s))
Trimmed(s, limit) == IF Len(s) > limit THEN Latest(limit, s) ELSE s

-----------------------------------------------------------------------------

\* Time is counted in samples: it begins, and is stamped, now.
BeginSample ==
    /\ samples < MaxSamples /\ Cardinality(probing) < MaxInFlight
    /\ samples' = samples + 1
    /\ probing' = probing \union {[at |-> samples', answers |-> [d \in {} |-> TRUE]]}
    /\ UNCHANGED <<up, changes, history, activeAlerts, incidents>>

\* probeRelay, probeRpc, probeMachine: what fails, in whatever way, is not up.
\* A probe that has not answered when its dependency changes answers after it.
Answer(s, d) == IF d \in DOMAIN s.answers THEN s.answers[d] ELSE d \in up

Probed(s, d) == [s EXCEPT !.answers = [e \in DOMAIN @ \union {d} |-> Answer(s, e)]]

\* The alerts that a snapshot calls for.
desired(snapshot) ==
    {k \in AlertKind :
       \/ k = "relay-unavailable" /\ ~ snapshot.relay
       \/ k = "rpc-unavailable" /\ ~ snapshot.rpc
       \/ k = "fcc-quorum-unavailable" /\ snapshot.machineReady < 2
       \/ k = "fcc-custody-set-degraded" /\ snapshot.machineReady >= 2 /\ snapshot.machineReady < 3}

Incident(kind, state, at) == [kind |-> kind, severity |-> severityOf(kind), state |-> state, at |-> at]

\* (A mutant: an alert that goes on is raised again.)
Raised_Again(snapshot) == desired(snapshot)

Raised(snapshot) == desired(snapshot) \ DOMAIN activeAlerts

Resolved(snapshot) == DOMAIN activeAlerts \ desired(snapshot)

\* Those of one snapshot are recorded in one order, raised ones first.
reconcileAlerts(snapshot) ==
    /\ activeAlerts' = [k \in desired(snapshot) |->
         IF k \in Raised(snapshot) THEN snapshot.at ELSE activeAlerts[k]]
    /\ incidents' = Trimmed(incidents
         \o [i \in 1..Cardinality(Raised(snapshot)) |->
               Incident(SetToSeq(Raised(snapshot))[i], "active", snapshot.at)]
         \o [i \in 1..Cardinality(Resolved(snapshot)) |->
               Incident(SetToSeq(Resolved(snapshot))[i], "resolved", snapshot.at)], MaxIncidents)

\* The rest of a sample, once every probe is in: another may have overtaken it.
EndSample(s) ==
    LET snapshot == [at |-> s.at, relay |-> Answer(s, RelayTarget), rpc |-> Answer(s, RpcTarget),
                     machineReady |-> Cardinality({m \in Machine : Answer(s, m)})]
    IN
    /\ probing' = probing \ {s}
    /\ history' = Trimmed(Append(history, snapshot), RetentionSamples)
    /\ reconcileAlerts(snapshot)
    /\ UNCHANGED <<up, changes, samples>>

\* A dependency goes down, or is back.
Change(d) ==
    /\ changes < MaxChanges /\ changes' = changes + 1
    /\ up' = IF d \in up THEN up \ {d} ELSE up \union {d}
    /\ \E early \in SUBSET probing :
         probing' = (probing \ early) \union {Probed(s, d) : s \in early}
    /\ UNCHANGED <<samples, history, activeAlerts, incidents>>

MonitorNext ==
    \/ BeginSample
    \/ \E s \in probing : EndSample(s)
    \/ \E d \in Dependency : Change(d)

MonitorSpec == MonitorInit /\ [][MonitorNext]_monitorVars

-----------------------------------------------------------------------------
(* Properties.                                                              *)

publicHealth ==
    IF history = <<>> THEN "starting"
    ELSE IF \E k \in DOMAIN activeAlerts : severityOf(k) = "critical" THEN "critical"
    ELSE IF DOMAIN activeAlerts # {} THEN "degraded"
    ELSE "ready"

healthOf(snapshot) ==
    IF ~ snapshot.relay \/ ~ snapshot.rpc \/ snapshot.machineReady < 2 THEN "critical"
    ELSE IF snapshot.machineReady < 3 THEN "degraded"
    ELSE "ready"

\* j is the next incident after i of the same kind.
Follows(i, j) ==
    /\ i < j /\ incidents[i].kind = incidents[j].kind
    /\ \A l \in (i + 1)..(j - 1) : incidents[l].kind # incidents[i].kind

IsLatest(i) == \A j \in DOMAIN incidents : j > i => incidents[j].kind # incidents[i].kind

\* The incidents of a kind are raised and resolved in turn, and the last, if
\* it is still kept, says what the alerts say; an active alert has stood in
\* every snapshot since it was raised; the health shown is that of the last
\* snapshot (apps/monitor/src/monitor.mjs:27-62, 165-187).
AlertsFollowSamples ==
    /\ \A i, j \in DOMAIN incidents : Follows(i, j) => incidents[i].state # incidents[j].state
    /\ \A i \in DOMAIN incidents : IsLatest(i) =>
         LET kind == incidents[i].kind IN
         /\ (incidents[i].state = "active") = (kind \in DOMAIN activeAlerts)
         /\ kind \in DOMAIN activeAlerts => incidents[i].at = activeAlerts[kind]
    /\ \A kind \in DOMAIN activeAlerts : \A i, j \in DOMAIN history :
         history[i].at = activeAlerts[kind] /\ i <= j => kind \in desired(history[j])
    /\ history # <<>> => publicHealth = healthOf(Last(history))
=============================================================================
