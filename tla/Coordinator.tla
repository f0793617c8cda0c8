----------------------------- MODULE Coordinator -----------------------------
(***************************************************************************)
(* The coordinator: internal/coordinator, the per-worker stream handler of *)
(* internal/worker, and recovery.  Goroutines are threads: one stream      *)
(* handler per worker, one thread per client call, and Daemon, which is    *)
(* the main goroutine during recovery and the heartbeat monitor after it.  *)
(*                                                                         *)
(* A step of a thread is one critical section of c.mu or one store         *)
(* transaction, the granularity at which the goroutines interleave.  Only  *)
(* SubmitWorkflow keeps c.mu over several transactions; mu names it then.  *)
(*                                                                         *)
(* Workers are the environment: they ask for tasks, report a result once   *)
(* for each assignment they hold, heartbeat, crash, and lose their stream. *)
(***************************************************************************)
EXTENDS StateStore, ReadyQueue

CONSTANTS
    Clients,        \* client calls in progress at the same time
    Daemon,         \* main goroutine, then heartbeat monitor
    Policy,         \* failure policy of a workflow
    MaxRetries,     \* max_retries of a task, 0 when the spec leaves it out
    Outcome,        \* the results a task's execution may have: "ok", "err"
    Cancels,        \* workflows a client may cancel
    Mortal,         \* workers that may crash
    Slow,           \* workers whose heartbeats may be so late that the monitor
                    \* declares them dead although they run
    Breakable,      \* workers whose stream may break
    Resubmits,      \* workflows submitted again although already stored
    CrashCoordinator,   \* the coordinator process may crash
    StoreFaults,        \* a write transaction may fail
    Overlap             \* a worker may be declared dead while the coordinator
                        \* is between two steps of a result of that worker

ASSUME CoordinatorAssumption ==
    /\ Policy \in [Workflows -> {"FAIL_FAST", "SKIP_DOWNSTREAM", "CONTINUE_INDEPENDENT"}]
    /\ MaxRetries \in [Tasks -> Int]
    /\ Outcome \in [Tasks -> SUBSET {"ok", "err"}]
    /\ Cancels \subseteq Workflows /\ Resubmits \subseteq Workflows
    /\ Mortal \subseteq Workers /\ Slow \subseteq Workers /\ Breakable \subseteq Workers
    /\ {CrashCoordinator, StoreFaults, Overlap} \subseteq BOOLEAN
    /\ Daemon \notin Workers \cup Clients /\ Workers \cap Clients = {}
    /\ Nil \notin Clients \cup {Daemon}
    /\ Nil \notin WfStates

Threads == Workers \cup Clients \cup {Daemon}

VARIABLES
    up,             \* the coordinator serves its RPCs
    mu,             \* the client call that holds c.mu between steps, or Nil
    readyQueue,     \* c.readyQueue
    runningTasks,   \* c.runningTasks: task to worker, Nil when not a key
    assignedTasks,  \* c.assignedTasks: task to execution id, Nil likewise
    cached,         \* workflows in taskSpecCache, taskWorkflowMap and
                    \* workflowFailurePolicy
    tracked,        \* keys of the heartbeat monitor's lastHeartbeat
    thr,            \* the program counter and locals of every thread
    alive,          \* workers that run
    held            \* <<worker, task, execution id>>: assignments sent whose
                    \* result has not reached the coordinator

memVars == <<up, mu, readyQueue, runningTasks, assignedTasks, cached, tracked>>
envVars == <<alive, held>>
vars == <<dbVars, memVars, thr, envVars>>

\* A thread with no call in progress, and the locals of one that has:
\*   task, eid     arguments taskID and executionID
\*   wf            workflow id
\*   who           dead worker
\*   att           local copy of AttemptCount, incremented
\*   todo, seen    tasks a loop has still to visit, and has put in its queue
\*   out           tasks the last transaction or loop returned
\*   fin           workflow state still to be written, Nil if undecided
Idle == [pc |-> "idle", task |-> Nil, eid |-> Nil, wf |-> Nil, who |-> Nil,
         att |-> 0, todo |-> {}, seen |-> {}, out |-> {}, fin |-> Nil]

PCs == {"idle",
        "ctTx", "ctClean", "chkDone", "chkStatus", "setState",
        "ftRead", "ftRequeue", "ftRequeued", "ftFail", "ftFailed",
        "cancelTx", "filter", "skip", "skipWrite",
        "sbInitWf", "sbInitTasks", "sbLock", "sbQueue",
        "dwRequeue", "dwAppend", "dwForget", "rcRequeue"}

ThreadState ==
    [pc : PCs, task : Tasks \cup {Nil}, eid : Execs \cup {Nil},
     wf : Workflows \cup {Nil}, who : Workers \cup {Nil}, att : Nat,
     todo : SUBSET Tasks, seen : SUBSET Tasks, out : SUBSET Tasks,
     fin : WfStates \cup {Nil}]

TypeOK ==
    /\ StoreTypeOK
    /\ up \in BOOLEAN
    /\ mu \in Clients \cup {Nil}
    /\ readyQueue \in Seq(Tasks)
    /\ runningTasks \in [Tasks -> Workers \cup {Nil}]
    /\ assignedTasks \in [Tasks -> Execs \cup {Nil}]
    /\ cached \in SUBSET Workflows
    /\ tracked \in SUBSET Workers
    /\ thr \in [Threads -> ThreadState]
    /\ alive \in SUBSET Workers
    /\ held \in SUBSET (Workers \X Tasks \X Execs)

Init ==
    /\ StoreInit
    /\ up = TRUE
    /\ mu = Nil
    /\ readyQueue = <<>>
    /\ runningTasks = [t \in Tasks |-> Nil]
    /\ assignedTasks = [t \in Tasks |-> Nil]
    /\ cached = {}
    /\ tracked = {}
    /\ thr = [x \in Threads |-> Idle]
    /\ alive = Workers
    /\ held = {}
-----------------------------------------------------------------------------
\* Execution ids that some record, map, thread or worker still refers to; a
\* new UUID is none of them.
ExecsInUse ==
    {execID[t] : t \in Tasks} \cup {assignedTasks[t] : t \in Tasks}
        \cup {thr[x].eid : x \in Threads} \cup {h[3] : h \in held}

\* Thread x is at label p; it goes on as record r, at label p, not at all.
At(x, p) == up /\ thr[x].pc = p
Becomes(x, r) == thr' = [thr EXCEPT ![x] = r]
Goto(x, p) == Becomes(x, [thr[x] EXCEPT !.pc = p])
Return(x) == Becomes(x, Idle)

\* delete(c.runningTasks, t) and delete(c.assignedTasks, t).
MutForget(t) ==
    /\ runningTasks' = [runningTasks EXCEPT ![t] = Nil]
    /\ UNCHANGED assignedTasks
Forget(t) ==
    /\ runningTasks' = [runningTasks EXCEPT ![t] = Nil]
    /\ assignedTasks' = [assignedTasks EXCEPT ![t] = Nil]
-----------------------------------------------------------------------------
(* The stream handler of a worker: HandleStream takes one message at a time. *)

\* GetReadyTask runs under c.mu as a whole.  The head of the queue is dropped
\* when its spec is not cached (its workflow was not RUNNING at restart) or
\* when AssignTask fails.
GetReadyTask(w) ==
    /\ At(w, "idle") /\ mu = Nil
    /\ w \in alive
    /\ readyQueue # <<>>
    /\ readyQueue' = Tail(readyQueue)
    /\ LET t == Head(readyQueue) IN
       \/ /\ WfOf[t] \in cached
          /\ \E e \in Execs \ ExecsInUse :
                /\ TxAssignTask(t, e)
                /\ runningTasks' = [runningTasks EXCEPT ![t] = w]
                /\ assignedTasks' = [assignedTasks EXCEPT ![t] = e]
                /\ held' = held \cup {<<w, t, e>>}
       \/ /\ WfOf[t] \notin cached \/ StoreFaults
          /\ UNCHANGED <<dbVars, runningTasks, assignedTasks, held>>
    /\ UNCHANGED <<up, mu, cached, tracked, thr, alive>>

Heartbeat(w) ==
    /\ At(w, "idle")
    /\ w \in alive
    /\ tracked' = tracked \cup {w}
    /\ UNCHANGED <<dbVars, up, mu, readyQueue, runningTasks, assignedTasks, cached, thr, envVars>>

\* A result of w arrives: CompleteTask or FailTask, first critical section.
\* A result whose execution id is not the assigned one is discarded.
ResultArrives(w, t, outcome, p) ==
    /\ At(w, "idle") /\ mu = Nil
    /\ outcome \in Outcome[t]
    /\ \E e \in Execs :
        /\ <<w, t, e>> \in held
        /\ held' = held \ {<<w, t, e>>}
        /\ IF assignedTasks[t] = e
           THEN Becomes(w, [Idle EXCEPT !.pc = p, !.task = t, !.eid = e])
           ELSE UNCHANGED thr
    /\ UNCHANGED <<dbVars, memVars, alive>>

CompleteTask(w, t) == ResultArrives(w, t, "ok", "ctTx")
FailTask(w, t) == ResultArrives(w, t, "err", "ftRead")

\* Step 2: the transaction, which rejects a stale execution id again.
CompleteTaskTx(w) ==
    /\ At(w, "ctTx")
    /\ LET t == thr[w].task IN
       \/ /\ TxCompleteTask(t, thr[w].eid)
          /\ Becomes(w, [thr[w] EXCEPT !.pc = "ctClean", !.out = Unlocked(t)])
       \/ /\ execID[t] # thr[w].eid
          /\ Return(w)
          /\ UNCHANGED dbVars
    /\ UNCHANGED <<memVars, envVars>>

\* Step 3: the in-memory maps and the queue.
CompleteTaskClean(w) ==
    /\ At(w, "ctClean") /\ mu = Nil
    /\ Forget(thr[w].task)
    /\ \E s \in Orders(thr[w].out) : readyQueue' = readyQueue \o s
    /\ IF WfOf[thr[w].task] \in cached
       THEN Becomes(w, [Idle EXCEPT !.pc = "chkDone", !.wf = WfOf[thr[w].task]])
       ELSE Return(w)
    /\ UNCHANGED <<dbVars, up, mu, cached, tracked, envVars>>

\* checkWorkflowCompletion: two read transactions, then one write.
CheckDone(x) ==
    /\ At(x, "chkDone")
    /\ IF IsWorkflowComplete(thr[x].wf) THEN Goto(x, "chkStatus") ELSE Return(x)
    /\ UNCHANGED <<dbVars, memVars, envVars>>

CheckStatuses(x) ==
    /\ At(x, "chkStatus")
    /\ Becomes(x, [thr[x] EXCEPT !.pc = "setState", !.fin = FinalState(thr[x].wf)])
    /\ UNCHANGED <<dbVars, memVars, envVars>>

\* UpdateWorkflowState, the last step of checkWorkflowCompletion, of FAIL_FAST
\* and of CancelWorkflow.
SetWorkflowState(x) ==
    /\ At(x, "setState")
    /\ TxSetWorkflowState(thr[x].wf, thr[x].fin)
    /\ Return(x)
    /\ UNCHANGED <<memVars, envVars>>

\* The retry limit: 3 unless the cached spec has a positive max_retries.
RetryLimit(t) == IF WfOf[t] \in cached /\ MaxRetries[t] > 0 THEN MaxRetries[t] ELSE 3

MutFailTaskRead(w) ==
    /\ At(w, "ftRead")
    /\ LET t == thr[w].task
           n == attempts[t] + 1
       IN  Becomes(w, [thr[w] EXCEPT !.att = n,
                           !.pc = IF n <= RetryLimit(t) THEN "ftRequeue" ELSE "ftFail"])
    /\ UNCHANGED <<dbVars, memVars, envVars>>
FailTaskRead(w) ==
    /\ At(w, "ftRead")
    /\ LET t == thr[w].task
           n == attempts[t] + 1
       IN  Becomes(w, [thr[w] EXCEPT !.att = n,
                           !.pc = IF n < RetryLimit(t) THEN "ftRequeue" ELSE "ftFail"])
    /\ UNCHANGED <<dbVars, memVars, envVars>>

FailTaskRequeue(w) ==
    /\ At(w, "ftRequeue")
    /\ TxRequeueTask(thr[w].task)
    /\ Goto(w, "ftRequeued")
    /\ UNCHANGED <<memVars, envVars>>

FailTaskRequeued(w) ==
    /\ At(w, "ftRequeued") /\ mu = Nil
    /\ Forget(thr[w].task)
    /\ readyQueue' = Append(readyQueue, thr[w].task)
    /\ Return(w)
    /\ UNCHANGED <<dbVars, up, mu, cached, tracked, envVars>>

FailTaskFail(w) ==
    /\ At(w, "ftFail")
    /\ TxFailTask(thr[w].task, thr[w].att)
    /\ Goto(w, "ftFailed")
    /\ UNCHANGED <<memVars, envVars>>

\* The maps are cleaned, and applyFailurePolicy starts: FAIL_FAST cancels the
\* workflow, the two other policies walk the downstream tasks.
FailTaskFailed(w) ==
    /\ At(w, "ftFailed") /\ mu = Nil
    /\ LET t == thr[w].task IN
       /\ Forget(t)
       /\ IF WfOf[t] \notin cached
          THEN Return(w)
          ELSE IF Policy[WfOf[t]] = "FAIL_FAST"
          THEN Becomes(w, [Idle EXCEPT !.pc = "cancelTx", !.wf = WfOf[t], !.fin = "FAILED"])
          ELSE Becomes(w, [Idle EXCEPT !.pc = "skip", !.wf = WfOf[t],
                               !.todo = Downstream(t), !.seen = Downstream(t)])
    /\ UNCHANGED <<dbVars, up, mu, readyQueue, cached, tracked, envVars>>

\* CancelWorkflowTasks, for FAIL_FAST and for CancelWorkflow.
CancelTasks(x) ==
    /\ At(x, "cancelTx")
    /\ TxCancelWorkflowTasks(thr[x].wf)
    /\ Becomes(x, [thr[x] EXCEPT !.pc = "filter", !.out = Cancellable(thr[x].wf)])
    /\ UNCHANGED <<memVars, envVars>>

\* The tasks just cancelled or skipped leave the ready queue.
MutFilterQueue(x) ==
    /\ At(x, "filter") /\ mu = Nil
    /\ readyQueue' = Without(readyQueue, thr[x].out)
    /\ Goto(x, "setState")
    /\ UNCHANGED <<dbVars, up, mu, runningTasks, assignedTasks, cached, tracked, envVars>>
FilterQueue(x) ==
    /\ At(x, "filter") /\ mu = Nil
    /\ readyQueue' = Without(readyQueue, thr[x].out)
    /\ Goto(x, IF thr[x].fin = Nil THEN "chkDone" ELSE "setState")
    /\ UNCHANGED <<dbVars, up, mu, runningTasks, assignedTasks, cached, tracked, envVars>>

\* SkipDownstreamTasks reads a task in one transaction and writes it in
\* another.  The walk visits every transitive downstream task once.
SkipVisit(x) ==
    /\ At(x, "skip")
    /\ \E u \in thr[x].todo :
        LET new == Downstream(u) \ thr[x].seen IN
        Becomes(x, [thr[x] EXCEPT
                        !.todo = (@ \ {u}) \cup new, !.seen = @ \cup new, !.task = u,
                        !.pc = IF taskState[u] \in Terminal THEN "skip" ELSE "skipWrite"])
    /\ UNCHANGED <<dbVars, memVars, envVars>>

SkipWrite(x) ==
    /\ At(x, "skipWrite")
    /\ TxUpdateTaskState(thr[x].task, "SKIPPED")
    /\ Becomes(x, [thr[x] EXCEPT !.pc = "skip", !.out = @ \cup {thr[x].task}])
    /\ UNCHANGED <<memVars, envVars>>

MutSkipDone(x) ==
    /\ At(x, "skip") /\ thr[x].todo = {}
    /\ Return(x)
    /\ UNCHANGED <<dbVars, memVars, envVars>>
SkipDone(x) ==
    /\ At(x, "skip") /\ thr[x].todo = {}
    /\ Goto(x, IF thr[x].out = {} THEN "chkDone" ELSE "filter")
    /\ UNCHANGED <<dbVars, memVars, envVars>>
-----------------------------------------------------------------------------
(* Client calls. *)

\* SubmitWorkflow: three transactions, then one critical section of c.mu in
\* which each root task is made QUEUED by a transaction of its own.
SubmitWorkflow(c) ==
    /\ At(c, "idle")
    /\ \E wf \in Workflows :
        /\ wf \notin stored \/ wf \in Resubmits
        /\ TxStoreWorkflow(wf)
        /\ Becomes(c, [Idle EXCEPT !.pc = "sbInitWf", !.wf = wf])
    /\ UNCHANGED <<memVars, envVars>>

SubmitInitWorkflow(c) ==
    /\ At(c, "sbInitWf")
    /\ TxSetWorkflowState(thr[c].wf, "RUNNING")
    /\ Goto(c, "sbInitTasks")
    /\ UNCHANGED <<memVars, envVars>>

SubmitInitTasks(c) ==
    /\ At(c, "sbInitTasks")
    /\ TxInitializeTasks(thr[c].wf)
    /\ Goto(c, "sbLock")
    /\ UNCHANGED <<memVars, envVars>>

SubmitLock(c) ==
    /\ At(c, "sbLock") /\ mu = Nil
    /\ mu' = c
    /\ cached' = cached \cup {thr[c].wf}
    /\ Becomes(c, [thr[c] EXCEPT !.pc = "sbQueue",
                       !.todo = {t \in TasksOf(thr[c].wf) : Deps[t] = {}}])
    /\ UNCHANGED <<dbVars, up, readyQueue, runningTasks, assignedTasks, tracked, envVars>>

SubmitQueue(c) ==
    /\ At(c, "sbQueue")
    /\ \E t \in thr[c].todo :
        /\ TxUpdateTaskState(t, "QUEUED")
        /\ readyQueue' = Append(readyQueue, t)
        /\ Becomes(c, [thr[c] EXCEPT !.todo = @ \ {t}])
    /\ UNCHANGED <<up, mu, runningTasks, assignedTasks, cached, tracked, envVars>>

SubmitReturn(c) ==
    /\ At(c, "sbQueue") /\ thr[c].todo = {}
    /\ mu' = Nil
    /\ Return(c)
    /\ UNCHANGED <<dbVars, up, readyQueue, runningTasks, assignedTasks, cached, tracked, envVars>>

CancelWorkflow(c) ==
    /\ At(c, "idle")
    /\ \E wf \in Cancels :
        Becomes(c, [Idle EXCEPT !.pc = "cancelTx", !.wf = wf, !.fin = "CANCELLED"])
    /\ UNCHANGED <<dbVars, memVars, envVars>>
-----------------------------------------------------------------------------
(* The heartbeat monitor.  Time is left out: any scan may find a tracked   *)
(* worker dead that crashed, or whose heartbeats are late.                 *)

\* A result of w is between its check and the cleaning of the maps.
ResultPCs == {"ctTx", "ctClean", "ftRead", "ftRequeue", "ftRequeued", "ftFail", "ftFailed"}

\* First critical section: the worker's tasks leave the maps.
HandleDeadWorker(w) ==
    /\ At(Daemon, "idle") /\ mu = Nil
    /\ w \in tracked
    /\ w \in Slow \/ w \notin alive
    /\ Overlap \/ thr[w].pc \notin ResultPCs
    /\ LET dead == {t \in Tasks : runningTasks[t] = w} IN
       /\ runningTasks' = [t \in Tasks |-> IF t \in dead THEN Nil ELSE runningTasks[t]]
       /\ assignedTasks' = [t \in Tasks |-> IF t \in dead THEN Nil ELSE assignedTasks[t]]
       /\ Becomes(Daemon, [Idle EXCEPT !.pc = "dwRequeue", !.who = w, !.todo = dead])
    /\ UNCHANGED <<dbVars, up, mu, readyQueue, cached, tracked, envVars>>

DeadRequeue ==
    /\ At(Daemon, "dwRequeue")
    /\ \E t \in thr[Daemon].todo :
        /\ TxRequeueTask(t)
        /\ Becomes(Daemon, [thr[Daemon] EXCEPT !.pc = "dwAppend", !.task = t, !.todo = @ \ {t}])
    /\ UNCHANGED <<memVars, envVars>>

DeadAppend ==
    /\ At(Daemon, "dwAppend") /\ mu = Nil
    /\ readyQueue' = Append(readyQueue, thr[Daemon].task)
    /\ Goto(Daemon, "dwRequeue")
    /\ UNCHANGED <<dbVars, up, mu, runningTasks, assignedTasks, cached, tracked, envVars>>

\* RemoveWorker at the end of HandleDeadWorker, and once more in Run.
DeadRemove ==
    /\ \/ At(Daemon, "dwRequeue") /\ thr[Daemon].todo = {} /\ Goto(Daemon, "dwForget")
       \/ At(Daemon, "dwForget") /\ Return(Daemon)
    /\ tracked' = tracked \ {thr[Daemon].who}
    /\ UNCHANGED <<dbVars, up, mu, readyQueue, runningTasks, assignedTasks, cached, envVars>>
-----------------------------------------------------------------------------
(* Failures. *)

\* A write transaction returns an error.  Most callers return at once; the
\* loops over tasks go on with the next task; SubmitWorkflow releases c.mu.
StoreError(x) ==
    /\ StoreFaults
    /\ \/ /\ up /\ thr[x].pc \in {"ctTx", "ftRequeue", "ftFail", "cancelTx", "setState",
                                  "sbInitWf", "sbInitTasks"}
          /\ Return(x)
          /\ UNCHANGED mu
       \/ /\ At(x, "skipWrite")
          /\ Goto(x, "skip")
          /\ UNCHANGED mu
       \/ /\ At(x, "sbQueue") /\ thr[x].todo # {}
          /\ Return(x)
          /\ mu' = Nil
       \/ /\ thr[x].pc \in {"dwRequeue", "rcRequeue"}
          /\ \E t \in thr[x].todo : Becomes(x, [thr[x] EXCEPT !.todo = @ \ {t}])
          /\ UNCHANGED mu
    /\ UNCHANGED <<dbVars, up, readyQueue, runningTasks, assignedTasks, cached, tracked, envVars>>

\* The process dies with everything in memory.  Workers lose their streams,
\* and a result is only ever sent on the stream its assignment came on.
Crash ==
    /\ CrashCoordinator
    /\ up \/ thr[Daemon].pc = "rcRequeue"
    /\ up' = FALSE
    /\ mu' = Nil
    /\ readyQueue' = <<>>
    /\ runningTasks' = [t \in Tasks |-> Nil]
    /\ assignedTasks' = [t \in Tasks |-> Nil]
    /\ cached' = {}
    /\ tracked' = {}
    /\ thr' = [x \in Threads |-> Idle]
    /\ held' = {}
    /\ UNCHANGED <<dbVars, alive>>

InState(s) == {t \in Tasks : taskState[t] = s}

\* What LoadStateFromDB puts in the ready queue, and what PrepareRecovery
\* then finds to requeue.
MutNothingQueued == {}
MutQueuedTwice == InState("QUEUED") \cup InState("RUNNING")
QueuedOnDisk == InState("QUEUED")
MutNothingInterrupted == {}
Interrupted == InState("RUNNING")

\* LoadStateFromDB, then PrepareRecovery reads the RUNNING tasks.
LoadStateFromDB ==
    /\ ~up /\ thr[Daemon].pc = "idle"
    /\ cached' = {wf \in stored : wfState[wf] = "RUNNING"}
    /\ readyQueue' \in Orders(QueuedOnDisk)
    /\ Becomes(Daemon, [Idle EXCEPT !.pc = "rcRequeue", !.todo = Interrupted])
    /\ UNCHANGED <<dbVars, up, mu, runningTasks, assignedTasks, tracked, envVars>>

PrepareRecovery ==
    /\ ~up /\ thr[Daemon].pc = "rcRequeue"
    /\ \E t \in thr[Daemon].todo :
        /\ TxRequeueTask(t)
        /\ readyQueue' = Append(readyQueue, t)
        /\ Becomes(Daemon, [thr[Daemon] EXCEPT !.todo = @ \ {t}])
    /\ UNCHANGED <<up, mu, runningTasks, assignedTasks, cached, tracked, envVars>>

Start ==
    /\ ~up /\ thr[Daemon].pc = "rcRequeue" /\ thr[Daemon].todo = {}
    /\ up' = TRUE
    /\ Return(Daemon)
    /\ UNCHANGED <<dbVars, mu, readyQueue, runningTasks, assignedTasks, cached, tracked, envVars>>

Drop(w) == {h \in held : h[1] # w}

\* The worker process dies; what it held is lost.
WorkerCrash(w) ==
    /\ w \in Mortal \cap alive
    /\ alive' = alive \ {w}
    /\ held' = Drop(w)
    /\ UNCHANGED <<dbVars, memVars, thr>>

\* The stream breaks and the worker reconnects under the same id: the results
\* of what it held are sent on the dead stream.
StreamBreak(w) ==
    /\ w \in Breakable \cap alive
    /\ Drop(w) # held
    /\ held' = Drop(w)
    /\ UNCHANGED <<dbVars, memVars, thr, alive>>
-----------------------------------------------------------------------------
\* A message of the worker is taken from its stream.
Receive(w) ==
    \/ GetReadyTask(w) \/ Heartbeat(w)
    \/ \E t \in Tasks : CompleteTask(w, t) \/ FailTask(w, t)

\* The handler goes on with a result.
ResultStep(w) ==
    \/ CompleteTaskTx(w) \/ CompleteTaskClean(w)
    \/ CheckDone(w) \/ CheckStatuses(w)
    \/ FailTaskRead(w) \/ FailTaskRequeue(w) \/ FailTaskRequeued(w)
    \/ FailTaskFail(w) \/ FailTaskFailed(w)
    \/ SkipVisit(w) \/ SkipWrite(w) \/ SkipDone(w)

\* Steps of calls made both by stream handlers and by clients.
CancelStep(x) == CancelTasks(x) \/ FilterQueue(x) \/ SetWorkflowState(x)

SubmitStep(c) ==
    \/ SubmitInitWorkflow(c) \/ SubmitInitTasks(c)
    \/ SubmitLock(c) \/ SubmitQueue(c) \/ SubmitReturn(c)

DaemonStep ==
    \/ DeadRequeue \/ DeadAppend \/ DeadRemove
    \/ LoadStateFromDB \/ PrepareRecovery \/ Start

EnvStep ==
    \/ Crash
    \/ \E x \in Threads : StoreError(x)
    \/ \E w \in Workers : WorkerCrash(w) \/ StreamBreak(w)

Next ==
    \/ \E w \in Workers : Receive(w) \/ ResultStep(w) \/ HandleDeadWorker(w)
    \/ \E c \in Clients : SubmitWorkflow(c) \/ CancelWorkflow(c) \/ SubmitStep(c)
    \/ \E x \in Workers \cup Clients : CancelStep(x)
    \/ DaemonStep
    \/ EnvStep

Spec == Init /\ [][Next]_vars

\* Goroutines in a call go on, and recovery ends.  A live worker polls for
\* ever.  That it reports what it holds assumes of the environment that every
\* command ends: executeTask sets a timeout only if the spec has one.  Between
\* two messages of a stream the handler may be busy, hence strong fairness.
\* Scans go on, so a tracked worker that crashed is found.
Fairness ==
    /\ \A w \in Workers :
        /\ WF_vars(ResultStep(w) \/ CancelStep(w))
        /\ SF_vars(GetReadyTask(w))
        /\ SF_vars(\E t \in Tasks : CompleteTask(w, t) \/ FailTask(w, t))
        /\ WF_vars(w \notin alive /\ HandleDeadWorker(w))
    /\ \A c \in Clients : WF_vars(SubmitStep(c) \/ CancelStep(c))
    /\ WF_vars(DaemonStep)

FairSpec == Spec /\ Fairness
-----------------------------------------------------------------------------
(* Properties. *)

InQueue(t) == \E i \in DOMAIN readyQueue : readyQueue[i] = t

\* Some thread is at label p for task t.
Busy(t, p) == \E x \in Threads : thr[x].pc = p /\ thr[x].task = t

\* The execution ids under which a result for t may still reach the store.
Claims(t) ==
    {h[3] : h \in {g \in held : g[2] = t}}
        \cup {thr[x].eid : x \in {y \in Workers : thr[y].pc = "ctTx" /\ thr[y].task = t}}

\* A task that waits, or waits again after a requeue, cannot be completed by
\* an execution that is still out: RequeueTask replaced the id it would need.
ZombieCannotComplete ==
    \A t \in Tasks : taskState[t] \in {"PENDING", "QUEUED"} => execID[t] \notin Claims(t)

\* No task is queued, runs or has run before everything it depends on is
\* COMPLETE: the unlocking in CompleteTask over all interleavings.
DependenciesFirst ==
    \A t \in Tasks : taskState[t] \in {"QUEUED", "RUNNING", "COMPLETE", "FAILED"} =>
        \A d \in Deps[t] : taskState[d] = "COMPLETE"

\* The persisted in-degree of a waiting task counts exactly the dependencies
\* that are not COMPLETE: no completion is lost, none is counted twice.
InDegreeExact ==
    \A t \in Tasks : taskState[t] = "PENDING" =>
        inDegree[t] = Cardinality({d \in Deps[t] : taskState[d] # "COMPLETE"})

\* The ready queue lists a task at most once and never one that is running or
\* has a result, which AssignTask would start a second time.
QueueSound ==
    /\ \A i, j \in DOMAIN readyQueue : readyQueue[i] = readyQueue[j] => i = j
    /\ \A i \in DOMAIN readyQueue : taskState[readyQueue[i]] \in {"QUEUED", "SKIPPED"}

\* A RUNNING task is in runningTasks, where the death of its worker will find
\* it, unless HandleDeadWorker has taken it out and not yet requeued it.
RunningIsWatched ==
    up => \A t \in Tasks : taskState[t] = "RUNNING" =>
        \/ runningTasks[t] # Nil
        \/ thr[Daemon].pc \in {"dwRequeue", "dwAppend"} /\ t \in thr[Daemon].todo

\* Cancellation of the workflow is under way or done.
Stopping(wf) ==
    \/ wfState[wf] # "RUNNING"
    \/ \E x \in Threads : thr[x].wf = wf /\ thr[x].fin # Nil

\* A QUEUED task of a workflow that goes on is in the ready queue, or a thread
\* is about to put it there: no interleaving drops it.
QueuedIsReachable ==
    up => \A t \in Tasks : taskState[t] = "QUEUED" /\ ~Stopping(WfOf[t]) =>
        \/ InQueue(t)
        \/ \E x \in Threads : thr[x].pc = "ctClean" /\ t \in thr[x].out
        \/ Busy(t, "ftRequeued") \/ Busy(t, "dwAppend")

\* The in-memory assignment and the stored one are the same execution, so
\* that the two checks of a result agree, except while a result of the task
\* is being processed.
AssignmentsAgree ==
    \A t \in Tasks : assignedTasks[t] # Nil =>
        \/ assignedTasks[t] = execID[t]
        \/ \E p \in ResultPCs : Busy(t, p)

\* COMPLETE and FAILED are final: no retry, dead worker, cancellation or
\* restart takes a task out of them.
ResultsAreFinal ==
    [][\A t \in Tasks : taskState[t] \in {"COMPLETE", "FAILED"} => taskState'[t] = taskState[t]]_vars

\* The state a workflow was settled in is what its tasks say now, although
\* checkWorkflowCompletion reads twice and writes later.
VerdictStands ==
    \A wf \in Workflows : wf \notin Cancels /\ Policy[wf] # "FAIL_FAST" =>
        /\ wfState[wf] = "COMPLETE" => \A t \in TasksOf(wf) : taskState[t] = "COMPLETE"
        /\ wfState[wf] = "FAILED" => /\ \A t \in TasksOf(wf) : taskState[t] \in Terminal
                                     /\ \E t \in TasksOf(wf) : taskState[t] = "FAILED"

\* The promised lifecycle, read off the store's records.
Lifecycle == INSTANCE TaskLifecycle WITH task <- taskState, workflow <- wfState

\* Every step of the interleaved coordinator, crashes and restarts included,
\* is a step of the promised lifecycle or invisible in it.
LifecycleRefined == Lifecycle!Spec
-----------------------------------------------------------------------------
\* A workflow whose tasks are all terminal is settled: of the handlers that
\* race to the end of a workflow, one sees that it is done.
DoneIsSettled ==
    \A wf \in Workflows :
        (/\ wfState[wf] = "RUNNING"
         /\ \A t \in TasksOf(wf) : taskState[t] \in Terminal)
        ~> wfState[wf] # "RUNNING"

\* A task that was queued is executed and gets a result, or is skipped: it is
\* not forgotten in the queue, in the maps or on a worker.
QueuedGetsResult ==
    \A t \in Tasks : taskState[t] = "QUEUED" ~> taskState[t] \in Terminal

\* Once the coordinator stays up, a workflow whose tasks are all terminal is
\* settled, wherever crashes fell.
SettledAfterCrash == <>[]up => DoneIsSettled
-----------------------------------------------------------------------------
\* Every terminal task state is final, SKIPPED included.
TerminalIsFinal ==
    [][\A t \in Tasks : taskState[t] \in Terminal => taskState'[t] = taskState[t]]_vars

\* A task is unlocked by the completion of all its dependencies: none is
\* counted twice.
UnlockedByAll ==
    [][\A t \in Tasks : taskState[t] = "PENDING" /\ taskState'[t] = "QUEUED" =>
            \A d \in Deps[t] : taskState'[d] = "COMPLETE"]_vars

\* A failure report changes the record only if it is about the execution the
\* record is at.
StaleFailureDiscarded ==
    [][\A w \in Workers :
            /\ thr[w].pc \in {"ftRequeue", "ftFail"}
            /\ thr'[w].pc \in {"ftRequeued", "ftFailed"}
            => execID[thr[w].task] = thr[w].eid]_vars

\* Submitting a workflow id that is already stored leaves its tasks alone.
DuplicateKeepsRecords ==
    [][\A t \in Tasks : taskState[t] # "ABSENT" /\ taskState'[t] = "PENDING"
            => taskState[t] = "PENDING"]_vars
=============================================================================
