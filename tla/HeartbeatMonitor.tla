--------------------------- MODULE HeartbeatMonitor ---------------------------
(***************************************************************************)
(* internal/coordinator/heartbeat.go with clocks.  Times are kept as ages: *)
(* the age of a heartbeat is the time since the timestamp the worker put   *)
(* in it, as the coordinator's clock sees it.  Ages stop at MaxAge, where  *)
(* the monitor no longer tells them apart.                                 *)
(***************************************************************************)
EXTENDS Naturals

CONSTANTS Workers, DeadThreshold, ScanInterval

ASSUME MonitorAssumption == DeadThreshold \in Nat /\ ScanInterval \in Nat \ {0}

VARIABLES
    lastHeartbeat,  \* ages of the last heartbeats; its domain is the map's
    scanIn,         \* time to the next tick of the scan ticker
    deadWorkers,    \* workers of the last scan that Run has still to handle
    removing        \* the handled worker that Run has still to delete

monitorVars == <<lastHeartbeat, scanIn, deadWorkers, removing>>

MaxAge == DeadThreshold + 2
Older(age) == IF age < MaxAge THEN age + 1 ELSE age
Tracked == DOMAIN lastHeartbeat
Untracked(w) == [v \in Tracked \ {w} |-> lastHeartbeat[v]]

MonitorInit ==
    /\ lastHeartbeat = [w \in {} |-> 0]
    /\ scanIn = ScanInterval
    /\ deadWorkers = {} /\ removing = {}

\* The message's timestamp replaces the entry, also one that is younger.
UpdateHeartbeat(w, age) ==
    /\ lastHeartbeat' = [v \in Tracked \cup {w} |-> IF v = w THEN age ELSE lastHeartbeat[v]]
    /\ UNCHANGED <<scanIn, deadWorkers, removing>>

MutGetDeadWorkers == {w \in Tracked : lastHeartbeat[w] >= DeadThreshold}
LateGetDeadWorkers == {w \in Tracked : lastHeartbeat[w] > DeadThreshold + 1}
GetDeadWorkers == {w \in Tracked : lastHeartbeat[w] > DeadThreshold}

ScanDue == scanIn = 0 /\ deadWorkers = {} /\ removing = {}

\* A tick of Run: the dead workers are collected once and handled one by one.
Scan ==
    /\ ScanDue
    /\ deadWorkers' = GetDeadWorkers
    /\ scanIn' = ScanInterval
    /\ UNCHANGED <<lastHeartbeat, removing>>

\* HandleDeadWorker ends with RemoveWorker.
HandleDeadWorker(w) ==
    /\ w \in deadWorkers /\ removing = {}
    /\ deadWorkers' = deadWorkers \ {w}
    /\ removing' = {w}
    /\ lastHeartbeat' = Untracked(w)
    /\ UNCHANGED scanIn

\* Run deletes the worker once more, whatever arrived in between.
DeleteDeadWorker(w) ==
    /\ removing = {w}
    /\ removing' = {}
    /\ lastHeartbeat' = Untracked(w)
    /\ UNCHANGED <<scanIn, deadWorkers>>

\* Time passes, a tick that is due waits in the channel of the ticker.
MonitorTick ==
    /\ lastHeartbeat' = [w \in Tracked |-> Older(lastHeartbeat[w])]
    /\ scanIn' = IF scanIn = 0 THEN 0 ELSE scanIn - 1
    /\ UNCHANGED <<deadWorkers, removing>>

MonitorBusy == ScanDue \/ deadWorkers # {} \/ removing # {}
=============================================================================
