----------------------------- MODULE WorkerStream -----------------------------
(***************************************************************************)
(* A worker, its stream and handler, and the heartbeat monitor, over the   *)
(* part of the coordinator they use: which tasks are ready and which       *)
(* execution each running one is assigned to.  Handlers and messages take  *)
(* no time by themselves; what takes time is the sleep on NoTask, waiting  *)
(* for a window, the periods of the tickers, tasks, and reconnecting.      *)
(***************************************************************************)
EXTENDS WorkerLoop, HeartbeatMonitor

CONSTANTS Worker, None

VARIABLES
    ready,      \* the members of c.readyQueue
    assigned,   \* c.assignedTasks: the execution of a running task, or None
    done,       \* completed tasks
    goneFor,    \* the time since the worker crashed, up to DetectionTime + 1
    waited      \* a send has had to wait for a window

coordVars == <<ready, assigned, done>>
clockVars == <<goneFor, waited>>
vars == <<loopVars, monitorVars, coordVars, clockVars>>

\* A clock that is behind makes heartbeats look older than they are, at most
\* so old that the next scan finds them dead.
DetectionTime == ScanInterval + IF Skew < DeadThreshold THEN DeadThreshold - Skew ELSE 0

Init ==
    /\ LoopInit /\ MonitorInit
    /\ ready = {} /\ done = {}
    /\ assigned = [t \in Tasks |-> None]
    /\ goneFor = 0 /\ waited = FALSE

Waiting(t) == t \in ready
Running(t) == assigned[t] # None

\* Ids that nothing refers to any more stand for new UUIDs.
Mentioned(msgs) == {m.exec : m \in {x \in msgs : "exec" \in DOMAIN x}}
FreshExecs ==
    Execs \ ({assigned[t] : t \in Tasks} \cup {e.exec : e \in execs}
             \cup Mentioned({up[i] : i \in DOMAIN up} \cup {down[i] : i \in DOMAIN down} \cup reply))
-----------------------------------------------------------------------------
SubmitTask(t) ==
    /\ t \notin ready \cup done /\ ~Running(t)
    /\ ready' = ready \cup {t}
    /\ UNCHANGED <<loopVars, monitorVars, assigned, done, clockVars>>

\* handleTaskRequest; the capacity in the request is not used.  Execs bounds
\* the executions under way: no task is handed out while all ids are in use.
HandleRequest ==
    /\ Handling("request")
    /\ IF ready = {} \/ FreshExecs = {}
       THEN Answered(NoTask) /\ UNCHANGED <<ready, assigned>>
       ELSE \E t \in ready, x \in FreshExecs :
                /\ Answered(Assignment(t, x))
                /\ ready' = ready \ {t}
                /\ assigned' = [assigned EXCEPT ![t] = x]
    /\ UNCHANGED <<monitorVars, done, clockVars>>

HandleHeartbeat ==
    /\ Handling("heartbeat")
    /\ UpdateHeartbeat(Worker, Head(up).age)
    /\ Consumed
    /\ UNCHANGED <<coordVars, clockVars>>

\* The result of an execution that is no longer assigned is rejected.
HandleResult ==
    /\ Handling("result")
    /\ LET t == Head(up).task IN
       IF assigned[t] = Head(up).exec
       THEN done' = done \cup {t} /\ assigned' = [assigned EXCEPT ![t] = None]
       ELSE UNCHANGED <<done, assigned>>
    /\ Consumed
    /\ UNCHANGED <<monitorVars, ready, clockVars>>

StreamStep ==
    \/ HandleRequest \/ HandleHeartbeat \/ HandleResult
    \/ (SendReply \/ WorkerStep) /\ UNCHANGED <<monitorVars, coordVars, clockVars>>

\* HandleDeadWorker requeues what the worker was assigned.
RequeueDead ==
    /\ HandleDeadWorker(Worker)
    /\ ready' = ready \cup {t \in Tasks : Running(t)}
    /\ assigned' = [t \in Tasks |-> None]
    /\ UNCHANGED <<loopVars, done, clockVars>>

MonitorStep ==
    \/ RequeueDead
    \/ (Scan \/ DeleteDeadWorker(Worker)) /\ UNCHANGED <<loopVars, coordVars, clockVars>>

Fault == (BreakStream \/ CrashWorker) /\ UNCHANGED <<monitorVars, coordVars, clockVars>>

Aged(msg) == IF msg.kind = "heartbeat" THEN Heartbeat(Older(msg.age)) ELSE msg

Tick ==
    /\ ~LoopBusy /\ ~MonitorBusy
    /\ WorkerTick
    /\ up' = [i \in DOMAIN up |-> Aged(up[i])]
    /\ sending' = {Aged(msg) : msg \in sending}
    /\ MonitorTick
    /\ goneFor' = IF link = "gone" /\ goneFor <= DetectionTime THEN goneFor + 1 ELSE goneFor
    /\ waited' = (waited \/ sending # {} \/ reply # {})
    /\ UNCHANGED coordVars

Next == StreamStep \/ MonitorStep \/ Tick \/ Fault \/ \E t \in Tasks : SubmitTask(t)

StreamSpec == Init /\ [][Next]_vars

\* Goroutines go on and a disconnected worker reconnects.  That every command
\* ends is assumed of the environment: only a task with a positive
\* timeout_seconds is stopped.  A handler or a worker is not
\* delayed for ever by the other's messages.
Others == UNCHANGED <<monitorVars, coordVars, clockVars>>
FairSpec ==
    /\ StreamSpec
    /\ WF_vars(StreamStep) /\ WF_vars(MonitorStep) /\ WF_vars(Tick)
    /\ WF_vars(Reconnect /\ Others)
    /\ \A t \in Tasks, x \in Execs :
        SF_vars(\E e \in execs : e.task = t /\ e.exec = x /\ (FinishTask(e) \/ SendResult(e)) /\ Others)
-----------------------------------------------------------------------------
(* Properties. *)

\* A worker that lives, on a stream that never broke, is declared dead only
\* if some send of the worker or some reply of its handler has had to wait
\* for a full window since the start.
FalseDeathNeedsBacklog ==
    deadWorkers # {} => link = "gone" \/ breaks > 0 \/ waited

\* A crashed worker that the monitor knows of is found, and its tasks taken
\* back, within scan-interval + dead-threshold of the crash, less what its
\* clock is behind.
DetectionBound ==
    goneFor > DetectionTime => Tracked = {} /\ deadWorkers = {}

\* A slot of w.running belongs to an execution: none is kept by a result
\* that could not be sent, so the worker goes on asking for tasks.
NoSlotLeak == running \subseteq {e.task : e \in {x \in execs : x.stage # "new"}}

\* The execution of a task that is running is somewhere between the handler
\* that assigned it and the one that takes its result, or it is lost with a
\* stream or a process, where only the monitor brings the task back.
Traceable(t) ==
    \/ \E e \in execs : e.exec = assigned[t] /\ ~e.lost
    \/ assigned[t] \in Mentioned({up[i] : i \in DOMAIN up} \cup {down[i] : i \in DOMAIN down} \cup reply)

\* Full windows in both directions cannot hold everything up: a task that
\* waits is completed or taken back by the monitor, unless its assignment or
\* its result is lost with a stream or with the worker.
WaitingIsServed ==
    \A t \in Tasks :
        Waiting(t) ~> \/ t \in done
                      \/ Running(t) /\ ~Traceable(t)
                      \/ removing # {}
                      \/ link = "gone"

\* README: --capacity is the maximum of concurrent tasks.
CapacityRespected == Cardinality({e \in execs : e.stage = "run"}) <= Capacity
=============================================================================
