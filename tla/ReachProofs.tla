---------------------------- MODULE ReachProofs -----------------------------
(***************************************************************************)
(* When no transaction fails, no step forgets a task: running tasks stay   *)
(* watched (WatchInv) and queued ones reachable (ReachInv).                *)
(***************************************************************************)
EXTENDS CoordinatorProofs

\* The provers tried at a leaf that names none, in this order.
USE SMTT(30), ZenonT(20), SMTT(40)

-----------------------------------------------------------------------------
(* Running tasks are watched. *)

\* No task becomes RUNNING.
NoStart == \A t \in Tasks : taskState'[t] = "RUNNING" => taskState[t] = "RUNNING"

LEMMA TxNoStart ==
    ASSUME TypeInv, NEW t, NEW e, NEW n, NEW s \in {"QUEUED", "SKIPPED"},
           \/ TxCompleteTask(t, e) \/ TxFailTask(t, n) \/ TxRequeueTask(t) \/ TxUpdateTaskState(t, s)
           \/ TxInitializeTasks(t) \/ TxCancelWorkflowTasks(t) \/ TxStoreWorkflow(t)
           \/ TxSetWorkflowState(t, e) \/ UNCHANGED dbVars
    PROVE  NoStart
<1>1. CASE TxCompleteTask(t, e)
  BY <1>1 DEF NoStart, TxCompleteTask
<1>2. CASE TxInitializeTasks(t) \/ TxCancelWorkflowTasks(t)
  BY <1>2 DEF NoStart, TxInitializeTasks, TxCancelWorkflowTasks
<1>3. CASE TxFailTask(t, n) \/ TxRequeueTask(t)
  BY <1>3 DEF NoStart, TxFailTask, TxRequeueTask, TypeInv, TypeOK, StoreTypeOK
<1>4. CASE TxUpdateTaskState(t, s)
  BY <1>4 DEF NoStart, TxUpdateTaskState, TypeInv, TypeOK, StoreTypeOK
<1>5. CASE TxStoreWorkflow(t) \/ TxSetWorkflowState(t, e) \/ UNCHANGED dbVars
  BY ZenonT(30), <1>5 DEF NoStart, TxStoreWorkflow, TxSetWorkflowState, dbVars, taskVars
<1> QED
  BY <1>1, <1>2, <1>3, <1>4, <1>5

\* A step that leaves the list of the main goroutine alone, and in the map
\* every task that goes on running.
LEMMA WatchKept ==
    ASSUME WatchInv, up' = up, thr'[Daemon] = thr[Daemon],
           \A t \in Tasks : taskState'[t] = "RUNNING" =>
               \/ runningTasks'[t] # Nil
               \/ taskState[t] = "RUNNING" /\ runningTasks'[t] = runningTasks[t]
    PROVE  WatchInv'
<1>1. Loaded' <=> Loaded
  BY ZenonT(30) DEF Loaded
<1>2. \A t \in Tasks : Lists(thr[Daemon], t)' <=> Lists(thr[Daemon], t)
  BY ZenonT(30) DEF Lists
<1> QED
  BY ZenonT(30), <1>1, <1>2 DEF WatchInv

\* And the map.
LEMMA WatchQuiet ==
    ASSUME WatchInv, NoStart, UNCHANGED <<up, runningTasks>>, thr'[Daemon] = thr[Daemon]
    PROVE  WatchInv'
BY ZenonT(30), WatchKept DEF NoStart

\* A step of another thread.
LEMMA WatchElsewhere ==
    ASSUME Stepped, WatchInv, NEW x \in Workers \cup Clients, NEW r, Becomes(x, r) \/ UNCHANGED thr,
           NoStart, UNCHANGED <<up, runningTasks>>
    PROVE  WatchInv'
<1>1. x # Daemon
  BY CoordinatorAssumption
<1>2. thr'[Daemon] = thr[Daemon]
  BY <1>1, ThreadsType DEF Becomes, Stepped, TypeInv, TypeOK
<1> QED
  BY ZenonT(30), <1>2, WatchQuiet

\* The stream handlers.
LEMMA WorkerWatch ==
    ASSUME Stepped, WatchInv, NEW w \in Workers, Receive(w) \/ ResultStep(w)
    PROVE  WatchInv'
<1>0. w \in Workers \cup Clients /\ w \in Threads /\ TypeInv
  BY ThreadsType DEF Stepped
<1>1. CASE GetReadyTask(w)
  <2>1. UNCHANGED <<up, thr>>
    BY ZenonT(30), <1>1 DEF GetReadyTask
  <2>2. CASE UNCHANGED <<dbVars, runningTasks>>
    BY ZenonT(30), <1>0, <2>1, <2>2, TxNoStart, WatchElsewhere
  <2>3. ASSUME NEW e, TxAssignTask(Head(readyQueue), e),
               runningTasks' = [runningTasks EXCEPT ![Head(readyQueue)] = w]
        PROVE  WatchInv'
    <3>1. PICK h : h = Head(readyQueue)
      OBVIOUS
    <3>2. \A t \in Tasks : t # h => taskState'[t] = taskState[t] /\ runningTasks'[t] = runningTasks[t]
      BY <1>0, <2>3, <3>1 DEF TxAssignTask, TypeInv, TypeOK, StoreTypeOK
    <3>3. h \in Tasks => runningTasks'[h] = w /\ w # Nil
      BY <1>0, <2>3, <3>1, StoreAssumption DEF TypeInv, TypeOK
    <3> QED
      BY ZenonT(30), <2>1, <3>2, <3>3, WatchKept
  <2> QED
    BY ZenonT(30), <1>1, <2>2, <2>3 DEF GetReadyTask
<1>2. CASE Heartbeat(w)
  <2>1. UNCHANGED <<thr, up, runningTasks, dbVars>>
    BY ZenonT(30), <1>2 DEF Heartbeat
  <2> QED
    BY ZenonT(30), <1>0, <2>1, TxNoStart, WatchElsewhere
<1>3. ASSUME NEW t, NEW o, NEW p, ResultArrives(w, t, o, p) PROVE WatchInv'
  <2>1. PICK r : UNCHANGED <<up, runningTasks, dbVars>> /\ (UNCHANGED thr \/ Becomes(w, r))
    BY ZenonT(30), <1>3 DEF ResultArrives, memVars
  <2> QED
    BY ZenonT(30), <1>0, <2>1, TxNoStart, WatchElsewhere
<1>4. CASE CompleteTaskClean(w) \/ FailTaskRequeued(w) \/ FailTaskFailed(w)
  <2>1. PICK t : t = thr[w].task
    OBVIOUS
  <2>2. thr[w].pc \in {"ctClean", "ftRequeued", "ftFailed"} /\ UNCHANGED <<up, dbVars>> /\ Forget(t)
    BY ZenonT(30), <1>4, <2>1 DEF CompleteTaskClean, FailTaskRequeued, FailTaskFailed, At
  <2>3. \E r : Becomes(w, r)
    BY ZenonT(30), <1>4 DEF CompleteTaskClean, FailTaskRequeued, FailTaskFailed, Return
  <2>4. t \in Tasks /\ taskState[t] # "RUNNING"
    BY <2>1, <2>2, ResultRecord DEF ResultPCs, Stepped
  <2>5. thr'[Daemon] = thr[Daemon]
    <3>1. w # Daemon
      BY CoordinatorAssumption
    <3> QED
      BY <1>0, <2>3, <3>1, ThreadsType DEF Becomes, TypeInv, TypeOK
  <2>6. UNCHANGED taskState /\ \A u \in Tasks : u # t => runningTasks'[u] = runningTasks[u]
    BY <1>0, <2>2 DEF Forget, dbVars, TypeInv, TypeOK
  <2> QED
    BY ZenonT(30), <2>2, <2>4, <2>5, <2>6, WatchKept
<1>5. CASE \/ CompleteTaskTx(w) \/ CheckDone(w) \/ CheckStatuses(w) \/ FailTaskRead(w)
          \/ FailTaskRequeue(w) \/ FailTaskFail(w) \/ SkipVisit(w) \/ SkipWrite(w) \/ SkipDone(w)
  <2>1. UNCHANGED <<up, runningTasks>>
    BY ZenonT(30), <1>5 DEF CompleteTaskTx, CheckDone, CheckStatuses, FailTaskRead, FailTaskRequeue,
                            FailTaskFail, SkipVisit, SkipWrite, SkipDone, memVars
  <2>2. \E r : Becomes(w, r)
    BY ZenonT(30), <1>5 DEF CompleteTaskTx, CheckDone, CheckStatuses, FailTaskRead, FailTaskRequeue,
                            FailTaskFail, SkipVisit, SkipWrite, SkipDone, Goto, Return
  <2>3. \/ TxCompleteTask(thr[w].task, thr[w].eid) \/ TxRequeueTask(thr[w].task)
        \/ TxFailTask(thr[w].task, thr[w].att) \/ TxUpdateTaskState(thr[w].task, "SKIPPED")
        \/ UNCHANGED dbVars
    BY ZenonT(30), <1>5 DEF CompleteTaskTx, CheckDone, CheckStatuses, FailTaskRead, FailTaskRequeue,
                            FailTaskFail, SkipVisit, SkipWrite, SkipDone
  <2>4. NoStart
    BY ZenonT(30), <1>0, <2>3, TxNoStart
  <2> QED
    BY ZenonT(30), <1>0, <2>1, <2>2, <2>4, WatchElsewhere
<1> QED
  BY ZenonT(30), <1>1, <1>2, <1>3, <1>4, <1>5 DEF Receive, ResultStep, CompleteTask, FailTask

\* Client calls.
LEMMA ClientWatch ==
    ASSUME Stepped, WatchInv, NEW x \in Workers \cup Clients,
           SubmitWorkflow(x) \/ CancelWorkflow(x) \/ SubmitStep(x) \/ CancelStep(x)
    PROVE  WatchInv'
<1>0. TypeInv
  BY DEF Stepped
<1>1. UNCHANGED <<up, runningTasks>>
  BY ZenonT(30) DEF SubmitWorkflow, CancelWorkflow, SubmitStep, SubmitInitWorkflow, SubmitInitTasks, SubmitLock,
                    SubmitQueue, SubmitReturn, CancelStep, CancelTasks, FilterQueue, SetWorkflowState, memVars
<1>2. \E r : Becomes(x, r)
  BY ZenonT(30) DEF SubmitWorkflow, CancelWorkflow, SubmitStep, SubmitInitWorkflow, SubmitInitTasks, SubmitLock,
                    SubmitQueue, SubmitReturn, CancelStep, CancelTasks, FilterQueue, SetWorkflowState, Goto, Return
<1>3. NoStart
  <2>1. \E t, e : \/ TxStoreWorkflow(t) \/ TxSetWorkflowState(t, e) \/ TxInitializeTasks(t)
                  \/ TxUpdateTaskState(t, "QUEUED") \/ TxCancelWorkflowTasks(t) \/ UNCHANGED dbVars
    BY ZenonT(30) DEF SubmitWorkflow, CancelWorkflow, SubmitStep, SubmitInitWorkflow, SubmitInitTasks, SubmitLock,
                      SubmitQueue, SubmitReturn, CancelStep, CancelTasks, FilterQueue, SetWorkflowState
  <2> QED
    BY ZenonT(30), <1>0, <2>1, TxNoStart
<1> QED
  BY ZenonT(30), <1>1, <1>2, <1>3, WatchElsewhere

\* The main goroutine: the tasks of a dead worker, or those interrupted by a
\* crash, are on its list until they are requeued.
LEMMA DaemonWatch ==
    ASSUME Stepped, WatchInv, DaemonStep \/ Crash \/ \E w \in Workers : HandleDeadWorker(w)
    PROVE  WatchInv'
<1>0. Daemon \in Threads /\ thr[Daemon] \in ThreadState /\ TypeInv
  BY ThreadsType, LocalsType DEF Stepped
<1>1. \A r : Becomes(Daemon, r) => thr'[Daemon] = r
  BY <1>0 DEF Becomes, TypeInv, TypeOK
<1>2. ASSUME NEW w \in Workers, HandleDeadWorker(w) PROVE WatchInv'
  <2> DEFINE dead == {t \in Tasks : runningTasks[t] = w}
  <2> DEFINE r == [Idle EXCEPT !.pc = "dwRequeue", !.who = w, !.todo = dead]
  <2>1. Becomes(Daemon, r) /\ UNCHANGED <<dbVars, up>> /\ up /\ thr[Daemon].pc = "idle"
    BY ZenonT(30), <1>2 DEF HandleDeadWorker, At
  <2>2. runningTasks' = [t \in Tasks |-> IF t \in dead THEN Nil ELSE runningTasks[t]]
    BY ZenonT(30), <1>2 DEF HandleDeadWorker
  <2>3. r.pc = "dwRequeue" /\ r.todo = dead
    BY DEF Idle
  <2>4. thr'[Daemon].pc = "dwRequeue" /\ \A t \in Tasks : runningTasks[t] = w => t \in thr'[Daemon].todo
    BY ZenonT(30), <1>1, <2>1, <2>3
  <2>5. \A t \in Tasks : runningTasks[t] # w => runningTasks'[t] = runningTasks[t]
    BY <2>2
  <2> QED
    BY <2>1, <2>4, <2>5 DEF WatchInv, Loaded, Lists, dbVars
<1>3. ASSUME NEW t, TxRequeueTask(t), NEW p \in {"dwRequeue", "dwAppend", "rcRequeue"},
             thr[Daemon].pc \in {"dwRequeue", "rcRequeue"}, UNCHANGED <<up, runningTasks>>,
             up \/ thr[Daemon].pc = "rcRequeue",
             thr'[Daemon].pc = p, thr'[Daemon].todo = thr[Daemon].todo \ {t}
      PROVE  WatchInv'
  <2>1. \A u \in Tasks : taskState'[u] = IF u = t THEN "QUEUED" ELSE taskState[u]
    BY <1>0, <1>3 DEF TxRequeueTask, TypeInv, TypeOK, StoreTypeOK
  <2> QED
    BY <1>3, <2>1 DEF WatchInv, Loaded, Lists
<1>4. CASE DeadRequeue
  <2>1. PICK t : TxRequeueTask(t)
               /\ Becomes(Daemon, [thr[Daemon] EXCEPT !.pc = "dwAppend", !.task = t, !.todo = @ \ {t}])
    BY ZenonT(30), <1>4 DEF DeadRequeue
  <2>2. thr'[Daemon].pc = "dwAppend" /\ thr'[Daemon].todo = thr[Daemon].todo \ {t}
    BY ZenonT(30), <1>0, <1>1, <2>1 DEF ThreadState
  <2>3. thr[Daemon].pc = "dwRequeue" /\ up /\ UNCHANGED <<up, runningTasks>>
    BY <1>4 DEF DeadRequeue, At, memVars
  <2> QED
    BY ZenonT(30), <1>3, <2>1, <2>2, <2>3
<1>5. CASE PrepareRecovery
  <2>1. PICK t : TxRequeueTask(t) /\ Becomes(Daemon, [thr[Daemon] EXCEPT !.todo = @ \ {t}])
    BY ZenonT(30), <1>5 DEF PrepareRecovery
  <2>2. thr[Daemon].pc = "rcRequeue" /\ UNCHANGED <<up, runningTasks>>
    BY <1>5 DEF PrepareRecovery
  <2>3. thr'[Daemon].pc = "rcRequeue" /\ thr'[Daemon].todo = thr[Daemon].todo \ {t}
    BY <1>0, <1>1, <2>1, <2>2 DEF ThreadState
  <2> QED
    BY ZenonT(30), <1>3, <2>1, <2>2, <2>3
<1>6. CASE DeadAppend
  <2>1. Becomes(Daemon, [thr[Daemon] EXCEPT !.pc = "dwRequeue"]) /\ thr[Daemon].pc = "dwAppend"
        /\ UNCHANGED <<dbVars, up, runningTasks>>
    BY ZenonT(30), <1>6 DEF DeadAppend, Goto, At
  <2>2. thr'[Daemon].pc = "dwRequeue" /\ thr'[Daemon].todo = thr[Daemon].todo
    BY <1>0, <1>1, <2>1 DEF ThreadState
  <2> QED
    BY <2>1, <2>2 DEF WatchInv, Loaded, Lists, dbVars
<1>7. CASE DeadRemove \/ Start
  <2>1. /\ UNCHANGED <<dbVars, runningTasks>> /\ (up \/ thr[Daemon].pc = "rcRequeue")
        /\ thr[Daemon].pc = "dwForget" \/ thr[Daemon].todo = {}
    BY <1>7 DEF DeadRemove, Start, At
  <2> QED
    BY <2>1 DEF WatchInv, Loaded, Lists, dbVars
<1>8. CASE LoadStateFromDB
  <2> DEFINE r == [Idle EXCEPT !.pc = "rcRequeue", !.todo = Interrupted]
  <2>1. Becomes(Daemon, r) /\ UNCHANGED dbVars
    BY ZenonT(30), <1>8 DEF LoadStateFromDB
  <2>2. r.pc = "rcRequeue" /\ r.todo = {t \in Tasks : taskState[t] = "RUNNING"}
    BY DEF Idle, Interrupted, InState
  <2>3. thr'[Daemon].pc = "rcRequeue" /\ \A t \in Tasks : taskState[t] = "RUNNING" => t \in thr'[Daemon].todo
    BY ZenonT(30), <1>1, <2>1, <2>2
  <2> QED
    BY <2>1, <2>3 DEF WatchInv, Lists, dbVars
<1>9. CASE Crash
  <2>1. up' = FALSE /\ thr'[Daemon] = Idle
    BY ZenonT(30), <1>0, <1>9 DEF Crash
  <2> QED
    <3>1. thr'[Daemon].pc = "idle"
      BY <2>1 DEF Idle
    <3> QED
      BY ZenonT(30), <2>1, <3>1 DEF WatchInv, Loaded
<1> QED
  BY ZenonT(30), <1>2, <1>4, <1>5, <1>6, <1>7, <1>8, <1>9 DEF DaemonStep

\* Every step keeps the running tasks watched, unless a transaction of the
\* monitor or of recovery fails.
LEMMA WatchNext ==
    ASSUME Stepped, WatchInv, StoreFaults = FALSE, [Next]_vars
    PROVE  WatchInv'
<1>1. ASSUME NEW w \in Workers, WorkerCrash(w) \/ StreamBreak(w) PROVE WatchInv'
  <2>1. UNCHANGED <<taskState, up, runningTasks, thr>>
    BY <1>1 DEF WorkerCrash, StreamBreak, dbVars, memVars
  <2> QED
    BY <2>1, WatchQuiet DEF NoStart
<1>2. CASE UNCHANGED vars
  <2>1. UNCHANGED <<taskState, up, runningTasks, thr>>
    BY <1>2 DEF vars, dbVars, memVars
  <2> QED
    BY <2>1, WatchQuiet DEF NoStart
<1>3. \A x : ~StoreError(x)
  BY DEF StoreError
<1> QED
  BY ZenonT(30), <1>1, <1>2, <1>3, WorkerWatch, ClientWatch, DaemonWatch DEF Next, EnvStep

LEMMA WatchInit == Init => WatchInv
BY DEF Init, StoreInit, WatchInv

LEMMA WatchFollows ==
    ASSUME TypeInv, WatchInv
    PROVE  RunningIsWatched
BY DEF WatchInv, RunningIsWatched, Loaded, Lists, TypeInv, PhaseOK

-----------------------------------------------------------------------------
(* Queued tasks. *)

LEMMA IdleFields == Idle.pc = "idle" /\ Idle.fin = Nil /\ Idle.wf = Nil /\ Idle.out = {}
BY DEF Idle

\* The records that may filter nothing they should not.
LEMMA FiltersFits ==
    ASSUME NEW r,
           \/ r.fin = Nil /\ r.pc \notin {"skip", "skipWrite", "filter"}
           \/ r.fin = Nil /\ \A t \in r.out : Blocked(t)
           \/ r.fin \in WfStates \ {"RUNNING"} /\ r.pc \in {"cancelTx", "setState"}
           \/ r.fin \in WfStates \ {"RUNNING"} /\ r.pc = "filter" /\ r.fin # Nil /\ r.out \subseteq TasksOf(r.wf)
    PROVE  Filters(r)
BY DEF Filters

LEMMA IdleFilters == Filters(Idle) /\ Idle.pc # "sbLock"
BY IdleFields, FiltersFits

LEMMA FiltersSays ==
    ASSUME ReachInv, NEW x \in Threads
    PROVE  /\ Filters(thr[x])
           /\ thr[x].pc \in {"skip", "skipWrite"} => thr[x].fin = Nil
           /\ thr[x].pc \in {"skip", "skipWrite", "filter"} /\ thr[x].fin = Nil => \A t \in thr[x].out : Blocked(t)
           /\ thr[x].pc = "filter" /\ thr[x].fin # Nil => thr[x].out \subseteq TasksOf(thr[x].wf)
           /\ thr[x].fin # Nil => thr[x].pc \in {"cancelTx", "filter", "setState"} /\ thr[x].fin \in WfStates \ {"RUNNING"}
<1>1. Filters(thr[x])
  BY ZenonT(30) DEF ReachInv
<1> QED
  BY ZenonT(30), <1>1 DEF Filters

\* A walk is among blocked tasks.
LEMMA WalkBlocked ==
    ASSUME TypeInv, TokenInv, NEW x \in Threads, thr[x].pc \in {"skip", "skipWrite"}, NEW t \in thr[x].seen
    PROVE  t \in Tasks /\ Blocked(t)
<1>1. thr[x].seen \in SUBSET Tasks
  BY LocalsType DEF ThreadState
<1>2. \A u \in thr[x].seen : /\ taskState[u] \in {"PENDING", "SKIPPED"}
                             /\ \E d \in Deps[u] : d \in thr[x].seen \/ taskState[d] = "FAILED"
  BY DEF TokenInv, WalkFit
<1> QED
  BY ZenonT(30), <1>1, <1>2 DEF Blocked

\* Before a submission has the lock, nothing happens to its tasks.
LEMMA FreshStays ==
    ASSUME Stepped, NEW c \in Clients, Fresh(c), thr'[c] = thr[c]
    PROVE  Fresh(c)'
<1> SUFFICES ASSUME thr[c].pc = "sbLock", NEW t \in Tasks, WfOf[t] = thr[c].wf
             PROVE  taskState'[t] \in {"PENDING", "SKIPPED"}
  BY DEF Fresh, TasksOf
<1>1. ASSUME NEW u \in Tasks, WfOf[u] = WfOf[t] PROVE taskState[u] \in {"PENDING", "SKIPPED"}
  BY <1>1 DEF Fresh, TasksOf
<1>2. ASSUME NEW u \in Tasks, WfOf[u] = WfOf[t] PROVE ~Placed(u)
  <2>1. CASE Deps[u] = {}
    <3>1. u \in Unqueued(c)
      BY <1>2, <2>1 DEF Unqueued, TasksOf
    <3>2. ~Touched(u)
      BY ZenonT(30), <3>1 DEF Stepped, SubmitInv, RootsUntouched
    <3> QED
      BY <1>1, <1>2, <3>2 DEF Placed
  <2>2. CASE Deps[u] # {}
    <3>1. PICK d \in Deps[u] : d \in Tasks /\ WfOf[d] = WfOf[t]
      BY <1>2, <2>2, DepsType
    <3>2. taskState[d] # "COMPLETE"
      BY <1>1, <3>1
    <3> QED
      BY ZenonT(30), <3>1, <3>2 DEF Stepped, TokenInv, PlacedIsReady
  <2> QED
    BY <2>1, <2>2
<1>3. ASSUME NEW u \in Tasks, WfOf[u] = WfOf[t]
      PROVE  \/ taskState'[u] \in {"PENDING", "SKIPPED"}
             \/ taskState'[u] = "QUEUED" /\ \A d \in Deps[u] : taskState'[d] = "COMPLETE"
  <2>1. Moves(u) /\ ~Placed(u) /\ taskState[u] \in {"PENDING", "SKIPPED"}
    BY <1>1, <1>2, <1>3 DEF Stepped
  <2> QED
    BY <2>1 DEF Moves
<1>4. CASE Deps[t] = {}
  <2>1. t \in Unqueued(c)'
    BY <1>4 DEF Unqueued, TasksOf
  <2> QED
    BY ZenonT(30), <2>1 DEF Stepped, SubmitInv, RootsUntouched
<1>5. CASE Deps[t] # {}
  <2>1. PICK d \in Deps[t] : d \in Tasks /\ WfOf[d] = WfOf[t]
    BY <1>5, DepsType
  <2>2. taskState'[d] # "COMPLETE"
    BY <1>3, <2>1
  <2> QED
    BY <1>3, <2>1, <2>2
<1> QED
  BY <1>4, <1>5

\* A thread at record r is about to put t in the queue.
Gives(r, t) == Frees(r, t) \/ (r.pc \in {"ftRequeued", "dwAppend"} /\ r.task = t)

LEMMA ReachableGives ==
    ASSUME NEW t
    PROVE  /\ Reachable(t) <=> InQueue(t) \/ \E x \in Threads : Gives(thr[x], t)
           /\ Reachable(t)' <=> InQueue(t)' \/ \E x \in Threads : Gives(thr[x], t)'
<1>1. Reachable(t) <=> InQueue(t) \/ \E x \in Threads : Gives(thr[x], t)
  BY DEF Reachable, Gives, Busy
<1>2. Reachable(t)' <=> InQueue(t)' \/ \E x \in Threads : Gives(thr[x], t)'
  BY DEF Reachable, Gives, Busy
<1> QED
  BY <1>1, <1>2

\* Thread x goes on as r, hands on what it was about to put in the queue, and
\* remembers that it is stopping or submitting a workflow; what it makes
\* QUEUED can be reached.
LEMMA ReachRead ==
    ASSUME Stepped, ReachInv, Loaded' => Loaded, cached \subseteq cached', stored \subseteq stored',
           NEW x \in Threads, NEW r, Becomes(x, r), Filters(r),
           r.pc = "sbLock" => r = thr[x] \/ \A t \in TasksOf(r.wf) : taskState'[t] \in {"PENDING", "SKIPPED"},
           thr[x].pc \in {"sbInitTasks", "sbLock"} =>
               thr[x].wf \in cached' \/ (r.pc \in {"sbInitTasks", "sbLock"} /\ r.wf = thr[x].wf),
           thr[x].fin # Nil => (r.wf = thr[x].wf /\ r.fin = thr[x].fin) \/ wfState'[thr[x].wf] # "RUNNING",
           \A wf \in Workflows : wfState'[wf] = "RUNNING" =>
               \/ wfState[wf] = "RUNNING"
               \/ x \in Clients /\ r.pc = "sbInitTasks" /\ r.wf = wf /\ wf \in stored',
           \A t \in Tasks : Gives(thr[x], t) => InQueue(t)' \/ Gives(r, t),
           \A t \in Tasks : taskState'[t] = "QUEUED" => taskState[t] = "QUEUED" \/ InQueue(t)' \/ Gives(r, t),
           \A t \in Tasks : InQueue(t) /\ taskState[t] = "QUEUED" /\ taskState'[t] = "QUEUED" /\ ~Stopping(WfOf[t]) => InQueue(t)'
    PROVE  ReachInv'
<1>1. thr'[x] = r /\ \A y \in Threads : y # x => thr'[y] = thr[y]
  BY ZenonT(30) DEF Becomes, Stepped, TypeInv, TypeOK
<1>2. ASSUME NEW y \in Threads PROVE Filters(thr[y])'
  <2>1. Filters(thr'[y])
    BY ZenonT(30), <1>1 DEF ReachInv
  <2>2. \A t \in thr'[y].out : t \in Tasks
    <3>1. thr' \in [Threads -> ThreadState]
      BY ZenonT(30) DEF Stepped, TypeInv, TypeOK
    <3> QED
      BY ZenonT(30), <3>1 DEF ThreadState
  <2>3. ASSUME NEW t \in thr'[y].out, Blocked(t) PROVE Blocked(t)'
    BY ZenonT(30), <2>2, <2>3, BlockedStays
  <2> QED
    BY ZenonT(30), <2>1, <2>3 DEF Filters, TasksOf
<1>3. ASSUME NEW c \in Clients PROVE Fresh(c)'
  <2>1. c \in Threads
    BY ThreadsType
  <2>2. CASE thr'[c] = thr[c]
    BY ZenonT(30), <2>2, FreshStays DEF ReachInv
  <2>3. CASE thr'[c] # thr[c]
    BY ZenonT(30), <1>1, <2>1, <2>3 DEF Fresh, TasksOf
  <2> QED
    BY ZenonT(30), <2>2, <2>3
<1>4. ASSUME NEW wf \in Workflows, wfState'[wf] = "RUNNING" PROVE wf \in stored'
  BY ZenonT(30), <1>4 DEF ReachInv
<1>5. ASSUME Loaded', NEW wf \in stored', wfState'[wf] = "RUNNING"
      PROVE  wf \in cached' \/ \E c \in Clients : thr'[c].pc \in {"sbInitTasks", "sbLock"} /\ thr'[c].wf = wf
  <2>1. wf \in Workflows
    BY ZenonT(30) DEF Stepped, TypeInv, TypeOK, StoreTypeOK
  <2>2. CASE wfState[wf] = "RUNNING"
    <3>1. wf \in cached \/ \E c \in Clients : thr[c].pc \in {"sbInitTasks", "sbLock"} /\ thr[c].wf = wf
      BY ZenonT(30), <1>5, <2>1, <2>2 DEF ReachInv
    <3>2. ASSUME NEW c \in Clients, thr[c].pc \in {"sbInitTasks", "sbLock"}, thr[c].wf = wf
          PROVE  wf \in cached' \/ \E d \in Clients : thr'[d].pc \in {"sbInitTasks", "sbLock"} /\ thr'[d].wf = wf
      BY ZenonT(30), <1>1, <3>2, ThreadsType
    <3> QED
      BY ZenonT(30), <3>1, <3>2
  <2>3. CASE wfState[wf] # "RUNNING"
    BY ZenonT(30), <1>1, <1>5, <2>1, <2>3
  <2> QED
    BY ZenonT(30), <2>2, <2>3
<1>6. ASSUME Loaded', NEW t \in Tasks, taskState'[t] = "QUEUED", ~Stopping(WfOf[t])' PROVE Reachable(t)'
  <2>1. PICK wf \in Workflows : wf = WfOf[t]
    BY ZenonT(30), StoreAssumption
  <2>2. wfState'[wf] = "RUNNING" /\ \A y \in Threads : thr'[y].wf = wf => thr'[y].fin = Nil
    BY ZenonT(30), <1>6, <2>1 DEF Stopping
  <2>3. wfState[wf] = "RUNNING"
    <3>1. CASE x \in Clients /\ r.pc = "sbInitTasks" /\ r.wf = wf
      <4>1. WfOf[t] = wf /\ thr'[x].pc = "sbInitTasks" /\ thr'[x].wf = wf
        BY ZenonT(30), <1>1, <2>1, <3>1
      <4>2. RecordsAppearTogether'
        BY ZenonT(30), Together
      <4>3. taskState'[t] = "ABSENT"
        BY ZenonT(30), <3>1, <4>1, <4>2 DEF RecordsAppearTogether
      <4> QED
        BY ZenonT(30), <1>6, <4>3
    <3> QED
      BY ZenonT(30), <2>2, <3>1
  <2>4. \A y \in Threads : thr[y].wf = wf => thr[y].fin = Nil
    BY ZenonT(30), <1>1, <2>2
  <2>5. ~Stopping(wf)
    BY ZenonT(30), <2>3, <2>4 DEF Stopping
  <2>6. CASE taskState[t] = "QUEUED"
    <3>1. Reachable(t)
      BY ZenonT(30), <1>6, <2>1, <2>5, <2>6 DEF ReachInv
    <3>2. CASE InQueue(t)
      BY ZenonT(30), <1>6, <2>1, <2>5, <2>6, <3>2, ReachableGives
    <3>3. ASSUME NEW y \in Threads, Gives(thr[y], t) PROVE InQueue(t)' \/ \E z \in Threads : Gives(thr[z], t)'
      <4>1. CASE y = x
        BY ZenonT(30), <1>1, <3>3, <4>1 DEF Gives, Frees
      <4>2. CASE y # x
        BY ZenonT(30), <1>1, <3>3, <4>2 DEF Gives, Frees
      <4> QED
        BY ZenonT(30), <4>1, <4>2
    <3> QED
      BY ZenonT(30), <3>1, <3>2, <3>3, ReachableGives
  <2>7. CASE taskState[t] # "QUEUED"
    <3>1. InQueue(t)' \/ Gives(thr[x], t)'
      BY ZenonT(30), <1>1, <1>6, <2>7 DEF Gives, Frees
    <3> QED
      BY ZenonT(30), <3>1, ReachableGives
  <2> QED
    BY ZenonT(30), <2>6, <2>7
<1> QED
  BY ZenonT(30), <1>2, <1>3, <1>4, <1>5, <1>6 DEF ReachInv

GivePCs == {"ctClean", "ftRequeued", "dwAppend"}
HandPCs == {"sbInitTasks", "sbLock"}
StopPCs == {"cancelTx", "filter", "setState"}
FilterPCs == {"skip", "skipWrite", "filter"}

\* A thread that is not stopping a workflow has nothing to write.
LEMMA NotStopping ==
    ASSUME ReachInv, NEW x \in Threads, thr[x].pc \notin StopPCs PROVE thr[x].fin = Nil
BY ZenonT(30), FiltersSays DEF StopPCs

\* No step of a handler or a client changes whether the state is loaded.
LEMMA LoadedSame ==
    ASSUME Stepped, NEW x \in Workers \cup Clients, NEW r, Becomes(x, r), up' = up
    PROVE  x \in Threads /\ (Loaded' => Loaded)
<1>1. x \in Threads /\ x # Daemon /\ Daemon \in Threads
  BY CoordinatorAssumption, ThreadsType
<1>2. thr'[Daemon] = thr[Daemon]
  BY <1>1 DEF Becomes, Stepped, TypeInv, TypeOK
<1> QED
  BY <1>1, <1>2 DEF Loaded

\* A step of a thread that has nothing to hand on.
LEMMA ReachMild ==
    ASSUME Stepped, ReachInv, Loaded' => Loaded, UNCHANGED <<cached, wfState, stored>>,
           NEW x \in Threads, NEW r, Becomes(x, r), Filters(r), r.pc # "sbLock",
           thr[x].pc \notin GivePCs \cup HandPCs \cup StopPCs,
           \A t \in Tasks : taskState'[t] = "QUEUED" => taskState[t] = "QUEUED" \/ InQueue(t)' \/ Gives(r, t),
           \A t \in Tasks : InQueue(t) => InQueue(t)'
    PROVE  ReachInv'
<1>1. \A t \in Tasks : ~Gives(thr[x], t)
  BY ZenonT(30) DEF Gives, Frees, GivePCs
<1>2. thr[x].fin = Nil /\ thr[x].pc \notin {"sbInitTasks", "sbLock"}
  BY ZenonT(30), NotStopping DEF HandPCs
<1>3. cached \subseteq cached' /\ stored \subseteq stored'
  BY ZenonT(30)
<1> QED
  BY ZenonT(30), <1>1, <1>2, <1>3, ReachRead

\* Nor does it stop a workflow or filter the queue next.
LEMMA ReachDull ==
    ASSUME Stepped, ReachInv, Loaded' => Loaded, UNCHANGED <<cached, wfState, stored>>,
           NEW x \in Threads, NEW r, Becomes(x, r),
           r.pc \notin FilterPCs \cup {"sbLock"}, r.fin = Nil,
           thr[x].pc \notin GivePCs \cup HandPCs \cup StopPCs,
           \A t \in Tasks : taskState'[t] = "QUEUED" => taskState[t] = "QUEUED" \/ InQueue(t)' \/ Gives(r, t),
           \A t \in Tasks : InQueue(t) => InQueue(t)'
    PROVE  ReachInv'
<1>1. Filters(r) /\ r.pc # "sbLock"
  BY ZenonT(30), FiltersFits DEF FilterPCs
<1> QED
  BY ZenonT(30), <1>1, ReachMild

\* Steps that leave the queue alone.
LEMMA QueueSame ==
    ASSUME readyQueue' = readyQueue PROVE \A t \in Tasks : InQueue(t) => InQueue(t)'
BY DEF InQueue

\* What a worker sends.
LEMMA ReceiveReach ==
    ASSUME Stepped, ReachInv, StoreFaults = FALSE, NEW w \in Workers, Receive(w) PROVE ReachInv'
<1>0. /\ w \in Threads /\ thr[w] \in ThreadState /\ thr \in [Threads -> ThreadState]
      /\ taskState \in [Tasks -> TaskStates \cup {"ABSENT"}] /\ readyQueue \in Seq(Tasks)
  <2>1. TypeInv /\ TypeOK /\ StoreTypeOK
    BY ZenonT(30) DEF Stepped, TypeInv, TypeOK
  <2> QED
    BY ZenonT(30), <2>1, ThreadsType, LocalsType DEF Stepped, TypeOK, StoreTypeOK
<1>1. thr[w].pc = "idle" /\ UNCHANGED <<up, cached, wfState, stored>>
  BY ZenonT(30) DEF Receive, GetReadyTask, Heartbeat, CompleteTask, FailTask, ResultArrives, At, TxAssignTask, dbVars, memVars
<1>2. /\ thr[w].pc \notin GivePCs \cup HandPCs \cup StopPCs \cup FilterPCs \cup {"sbLock"} /\ thr[w].fin = Nil
      /\ \A t \in Tasks : ~Gives(thr[w], t)
  BY ZenonT(30), <1>0, <1>1, NotStopping DEF GivePCs, HandPCs, StopPCs, FilterPCs, Gives, Frees
<1>3. Becomes(w, thr[w]) <=> UNCHANGED thr
  BY <1>0 DEF Becomes
<1>4. CASE GetReadyTask(w)
  <2>1. PICK h : h = Head(readyQueue)
    OBVIOUS
  <2>2. readyQueue # <<>> /\ readyQueue' = Tail(readyQueue) /\ UNCHANGED thr
    BY <1>4 DEF GetReadyTask
  <2>3. h \in Tasks /\ InQueue(h)
    BY <1>0, <2>1, <2>2 DEF InQueue
  <2>4. ASSUME NEW t \in Tasks, InQueue(t), t # h PROVE InQueue(t)'
    <3>1. PICK i \in DOMAIN readyQueue : readyQueue[i] = t
      BY <2>4 DEF InQueue
    <3>2. i \in 2..Len(readyQueue)
      BY <1>0, <2>1, <2>4, <3>1
    <3>3. i - 1 \in DOMAIN Tail(readyQueue) /\ Tail(readyQueue)[i - 1] = t
      BY <1>0, <3>1, <3>2
    <3> QED
      BY <2>2, <3>3 DEF InQueue
  <2>5. \/ taskState' = [taskState EXCEPT ![h] = "RUNNING"]
        \/ taskState' = taskState /\ WfOf[h] \notin cached
    BY ZenonT(30), <1>4, <2>1 DEF GetReadyTask, TxAssignTask, dbVars
  <2>6. ASSUME taskState' = taskState, WfOf[h] \notin cached, taskState[h] = "QUEUED" PROVE Stopping(WfOf[h])
    <3>1. WfOf[h] \in stored
      BY ZenonT(30), <2>3, <2>6, Together DEF RecordsAppearTogether
    <3>2. ASSUME NEW c \in Clients, thr[c].pc \in {"sbInitTasks", "sbLock"}, thr[c].wf = WfOf[h] PROVE FALSE
      <4>1. thr[c].pc # "sbInitTasks"
        BY ZenonT(30), <2>3, <2>6, <3>2, Together DEF RecordsAppearTogether
      <4>2. Fresh(c)
        BY ZenonT(30) DEF ReachInv
      <4> QED
        BY ZenonT(30), <2>3, <2>6, <3>2, <4>1, <4>2 DEF Fresh, TasksOf
    <3>3. Loaded
      BY ZenonT(30), <1>4 DEF GetReadyTask, At, Loaded
    <3>4. wfState[WfOf[h]] # "RUNNING"
      BY ZenonT(30), <2>6, <3>1, <3>2, <3>3 DEF ReachInv
    <3> QED
      BY <3>4 DEF Stopping
  <2>7. \A t \in Tasks : InQueue(t) /\ taskState[t] = "QUEUED" /\ taskState'[t] = "QUEUED" /\ ~Stopping(WfOf[t]) => InQueue(t)'
    BY <1>0, <2>3, <2>4, <2>5, <2>6
  <2>8. \A t \in Tasks : taskState'[t] = "QUEUED" => taskState[t] = "QUEUED"
    BY <1>0, <2>3, <2>5
  <2>9. Filters(thr[w]) /\ cached \subseteq cached' /\ stored \subseteq stored' /\ Becomes(w, thr[w])
    BY ZenonT(30), <1>0, <1>1, <1>3, <2>2 DEF ReachInv
  <2>10. Loaded' => Loaded
    BY <1>1, <2>9, LoadedSame
  <2> QED
    BY ZenonT(30), <1>0, <1>1, <1>2, <2>7, <2>8, <2>9, <2>10, ReachRead
<1>5. ASSUME UNCHANGED <<taskState, readyQueue>>, NEW r, Becomes(w, r), r.pc \notin FilterPCs \cup {"sbLock"}, r.fin = Nil
      PROVE  ReachInv'
  BY ZenonT(30), <1>0, <1>1, <1>2, <1>5, LoadedSame, QueueSame, ReachDull
<1>6. CASE Heartbeat(w)
  BY ZenonT(30), <1>2, <1>3, <1>5, <1>6 DEF Heartbeat, dbVars
<1>7. ASSUME NEW t, NEW o, NEW p \in {"ctTx", "ftRead"}, ResultArrives(w, t, o, p) PROVE ReachInv'
  <2>1. PICK e : UNCHANGED thr \/ Becomes(w, [Idle EXCEPT !.pc = p, !.task = t, !.eid = e])
    BY ZenonT(30), <1>7 DEF ResultArrives
  <2> DEFINE r == [Idle EXCEPT !.pc = p, !.task = t, !.eid = e]
  <2>2. r.pc \notin FilterPCs \cup {"sbLock"} /\ r.fin = Nil
    BY DEF Idle, FilterPCs
  <2>3. UNCHANGED <<taskState, readyQueue>>
    BY ZenonT(30), <1>7 DEF ResultArrives, dbVars, memVars
  <2> HIDE DEF r
  <2> QED
    BY ZenonT(30), <1>2, <1>3, <1>5, <2>1, <2>2, <2>3 DEF r
<1> QED
  BY ZenonT(30), <1>4, <1>6, <1>7 DEF Receive, CompleteTask, FailTask

\* What is appended to the queue is in it, with what was there.
LEMMA QueueAppends ==
    ASSUME TypeInv, NEW s \in Seq(Tasks), readyQueue' = readyQueue \o s
    PROVE  /\ \A i \in DOMAIN s : InQueue(s[i])'
           /\ \A t \in Tasks : InQueue(t) => InQueue(t)'
<1>1. PICK q \in Seq(Tasks) : q = readyQueue
  BY DEF TypeInv, TypeOK
<1>2. PICK n \in Nat, m \in Nat : n = Len(q) /\ m = Len(s)
  BY <1>1
<1>3. /\ DOMAIN q = 1..n /\ DOMAIN s = 1..m /\ DOMAIN (q \o s) = 1..(n + m)
      /\ \A i \in 1..n : (q \o s)[i] = q[i]
      /\ \A i \in 1..m : (q \o s)[n + i] = s[i]
  BY <1>1, <1>2
<1>4. ASSUME NEW i \in DOMAIN s PROVE InQueue(s[i])'
  <2>1. n + i \in 1..(n + m)
    BY <1>2, <1>3
  <2>2. n + i \in DOMAIN readyQueue' /\ readyQueue'[n + i] = s[i]
    BY <1>1, <1>3, <2>1
  <2> QED
    BY ZenonT(30), <2>2 DEF InQueue
<1>5. ASSUME NEW t \in Tasks, InQueue(t) PROVE InQueue(t)'
  <2>1. PICK i \in 1..n : q[i] = t
    BY <1>1, <1>3, <1>5 DEF InQueue
  <2>2. i \in 1..(n + m)
    BY <1>2
  <2>3. i \in DOMAIN readyQueue' /\ readyQueue'[i] = t
    BY <1>1, <1>3, <2>1, <2>2
  <2> QED
    BY ZenonT(30), <2>3 DEF InQueue
<1> QED
  BY <1>4, <1>5

LEMMA QueueAppend ==
    ASSUME TypeInv, NEW u \in Tasks, readyQueue' = Append(readyQueue, u)
    PROVE  InQueue(u)' /\ \A t \in Tasks : InQueue(t) => InQueue(t)'
<1>1. <<u>> \in Seq(Tasks) /\ readyQueue' = readyQueue \o <<u>> /\ 1 \in DOMAIN <<u>> /\ <<u>>[1] = u
  BY DEF TypeInv, TypeOK
<1> QED
  BY ZenonT(30), <1>1, QueueAppends

\* What a thread hands to the queue.
LEMMA ReachHands ==
    ASSUME Stepped, ReachInv, Loaded' => Loaded, UNCHANGED <<cached, wfState, stored, taskState>>,
           NEW x \in Threads, NEW r, Becomes(x, r), r.pc \notin FilterPCs \cup {"sbLock"}, r.fin = Nil,
           thr[x].pc \notin HandPCs \cup StopPCs,
           \A t \in Tasks : Gives(thr[x], t) \/ InQueue(t) => InQueue(t)'
    PROVE  ReachInv'
<1>1. Filters(r) /\ r.pc # "sbLock"
  BY ZenonT(30), FiltersFits DEF FilterPCs
<1>2. thr[x].fin = Nil /\ thr[x].pc \notin {"sbInitTasks", "sbLock"}
  BY ZenonT(30), NotStopping DEF HandPCs
<1>3. cached \subseteq cached' /\ stored \subseteq stored'
  OBVIOUS
<1> QED
  BY ZenonT(30), <1>1, <1>2, <1>3, ReachRead

\* CompleteTask.
LEMMA CompleteReach ==
    ASSUME Stepped, ReachInv, NEW w \in Workers, CompleteTaskTx(w) \/ CompleteTaskClean(w) PROVE ReachInv'
<1>0. w \in Threads /\ w \in Workers \cup Clients /\ thr[w] \in ThreadState /\ TypeInv
  BY ThreadsType, LocalsType DEF Stepped
<1>1. Idle.pc \notin FilterPCs \cup {"sbLock"} /\ Idle.fin = Nil
  BY DEF Idle, FilterPCs
<1>2. PICK t : t = thr[w].task
  OBVIOUS
<1>3. CASE CompleteTaskTx(w)
  <2>1. thr[w].pc = "ctTx" /\ UNCHANGED <<up, cached, readyQueue, wfState, stored>>
    BY ZenonT(30), <1>3 DEF CompleteTaskTx, At, TxCompleteTask, memVars, dbVars
  <2>2. thr[w].pc \notin GivePCs \cup HandPCs \cup StopPCs /\ thr[w].fin = Nil
    BY <1>0, <2>1, NotStopping DEF GivePCs, HandPCs, StopPCs
  <2>3. ASSUME Becomes(w, Idle), UNCHANGED dbVars PROVE ReachInv'
    <3>1. UNCHANGED taskState
      BY <2>3 DEF dbVars
    <3> QED
      BY ZenonT(30), <1>0, <1>1, <2>1, <2>2, <2>3, <3>1, LoadedSame, QueueSame, ReachDull
  <2> DEFINE r == [thr[w] EXCEPT !.pc = "ctClean", !.out = Unlocked(t)]
  <2>4. r.pc = "ctClean" /\ r.out = Unlocked(t) /\ r.fin = Nil
    BY <1>0, <2>2 DEF ThreadState
  <2> HIDE DEF r
  <2>5. ASSUME Becomes(w, r), TxCompleteTask(t, thr[w].eid) PROVE ReachInv'
    <3>1. \A u \in Tasks : taskState'[u] = "QUEUED" => taskState[u] = "QUEUED" \/ Gives(r, u)
      BY ZenonT(30), <2>4, <2>5 DEF TxCompleteTask, Gives, Frees
    <3>2. r.pc \notin FilterPCs \cup {"sbLock"}
      BY <2>4 DEF FilterPCs
    <3> QED
      BY ZenonT(30), <1>0, <2>1, <2>2, <2>4, <2>5, <3>1, <3>2, LoadedSame, QueueSame, ReachDull
  <2> QED
    BY ZenonT(30), <1>2, <1>3, <2>3, <2>5 DEF CompleteTaskTx, Return, r
<1>4. CASE CompleteTaskClean(w)
  <2>1. thr[w].pc = "ctClean" /\ UNCHANGED <<up, cached, wfState, stored, taskState>>
    BY ZenonT(30), <1>4 DEF CompleteTaskClean, At, dbVars
  <2>2. PICK s \in Orders(thr[w].out) : readyQueue' = readyQueue \o s
    BY <1>4 DEF CompleteTaskClean
  <2>3. thr[w].out \subseteq Tasks /\ IsFiniteSet(thr[w].out)
    <3>1. thr[w].out \subseteq Tasks
      BY <1>0 DEF ThreadState
    <3> QED
      BY ZenonT(30), <3>1, StoreAssumption, FS_Subset
  <2>4. s \in Seq(thr[w].out) /\ \A u \in thr[w].out : \E i \in DOMAIN s : s[i] = u
    BY <2>2, <2>3, OrdersProperties
  <2>5. s \in Seq(Tasks)
    BY <2>3, <2>4
  <2>6. \A u \in Tasks : Gives(thr[w], u) \/ InQueue(u) => InQueue(u)'
    <3>1. \A u \in Tasks : Gives(thr[w], u) => u \in thr[w].out
      BY <2>1 DEF Gives, Frees
    <3> QED
      BY ZenonT(30), <1>0, <2>2, <2>4, <2>5, <3>1, QueueAppends
  <2>7. thr[w].pc \notin HandPCs \cup StopPCs
    BY <2>1 DEF HandPCs, StopPCs
  <2> DEFINE r == [Idle EXCEPT !.pc = "chkDone", !.wf = WfOf[thr[w].task]]
  <2>8. r.pc \notin FilterPCs \cup {"sbLock"} /\ r.fin = Nil
    BY DEF Idle, FilterPCs
  <2>9. Becomes(w, r) \/ Becomes(w, Idle)
    BY ZenonT(30), <1>4 DEF CompleteTaskClean, Return
  <2> HIDE DEF r
  <2> QED
    BY ZenonT(30), <1>0, <1>1, <2>1, <2>6, <2>7, <2>8, <2>9, LoadedSame, ReachHands
<1> QED
  BY <1>3, <1>4

\* FailTask, up to the failure policy.
LEMMA FailReach ==
    ASSUME Stepped, ReachInv, NEW w \in Workers,
           FailTaskRead(w) \/ FailTaskRequeue(w) \/ FailTaskRequeued(w) \/ FailTaskFail(w) \/ HandleDeadWorker(w)
    PROVE  ReachInv'
<1>0. /\ w \in Threads /\ w \in Workers \cup Clients /\ thr[w] \in ThreadState /\ TypeInv
      /\ taskState \in [Tasks -> TaskStates \cup {"ABSENT"}]
  <2>1. TypeInv /\ TypeOK /\ StoreTypeOK
    BY ZenonT(30) DEF Stepped, TypeInv, TypeOK
  <2> QED
    BY ZenonT(30), <2>1, ThreadsType, LocalsType DEF Stepped, TypeOK, StoreTypeOK
<1>1. Idle.pc \notin FilterPCs \cup {"sbLock"} /\ Idle.fin = Nil
  BY DEF Idle, FilterPCs
<1>2. UNCHANGED <<up, cached, wfState, stored>>
  BY ZenonT(30) DEF FailTaskRead, FailTaskRequeue, FailTaskRequeued, FailTaskFail, HandleDeadWorker,
     TxRequeueTask, TxFailTask, dbVars, memVars
<1>3. PICK t : t = thr[w].task
  OBVIOUS
<1>4. CASE FailTaskRead(w)
  <2>1. thr[w].pc = "ftRead" /\ UNCHANGED <<taskState, readyQueue>>
    BY ZenonT(30), <1>4 DEF FailTaskRead, At, memVars, dbVars
  <2>2. thr[w].pc \notin GivePCs \cup HandPCs \cup StopPCs /\ thr[w].fin = Nil
    BY ZenonT(30), <1>0, <2>1, NotStopping DEF GivePCs, HandPCs, StopPCs
  <2> DEFINE n == attempts[thr[w].task] + 1
  <2> DEFINE r == [thr[w] EXCEPT !.att = n, !.pc = IF n < RetryLimit(thr[w].task) THEN "ftRequeue" ELSE "ftFail"]
  <2>3. Becomes(w, r)
    BY ZenonT(30), <1>4 DEF FailTaskRead
  <2>4. r.pc \notin FilterPCs \cup {"sbLock"} /\ r.fin = Nil
    BY <1>0, <2>2 DEF ThreadState, FilterPCs
  <2> HIDE DEF r
  <2> QED
    BY ZenonT(30), <1>0, <1>2, <2>1, <2>2, <2>3, <2>4, LoadedSame, QueueSame, ReachDull
<1>5. CASE FailTaskRequeue(w)
  <2>1. thr[w].pc = "ftRequeue" /\ readyQueue' = readyQueue /\ taskState' = [taskState EXCEPT ![t] = "QUEUED"]
    BY ZenonT(30), <1>3, <1>5 DEF FailTaskRequeue, At, memVars, TxRequeueTask
  <2>2. thr[w].pc \notin GivePCs \cup HandPCs \cup StopPCs /\ thr[w].fin = Nil
    BY ZenonT(30), <1>0, <2>1, NotStopping DEF GivePCs, HandPCs, StopPCs
  <2> DEFINE r == [thr[w] EXCEPT !.pc = "ftRequeued"]
  <2>3. Becomes(w, r)
    BY ZenonT(30), <1>5 DEF FailTaskRequeue, Goto
  <2>4. r.pc = "ftRequeued" /\ r.fin = Nil /\ r.task = t
    BY <1>0, <1>3, <2>2 DEF ThreadState
  <2> HIDE DEF r
  <2>5. r.pc \notin FilterPCs \cup {"sbLock"} /\ \A u \in Tasks : taskState'[u] = "QUEUED" => taskState[u] = "QUEUED" \/ Gives(r, u)
    BY ZenonT(30), <1>0, <2>1, <2>4 DEF FilterPCs, Gives
  <2> QED
    BY ZenonT(30), <1>0, <1>2, <2>1, <2>2, <2>3, <2>4, <2>5, LoadedSame, QueueSame, ReachDull
<1>6. CASE FailTaskRequeued(w)
  <2>1. /\ thr[w].pc = "ftRequeued" /\ Becomes(w, Idle) /\ UNCHANGED taskState
        /\ readyQueue' = Append(readyQueue, t)
    BY ZenonT(30), <1>3, <1>6 DEF FailTaskRequeued, At, Return, dbVars
  <2>2. t \in Tasks
    BY ZenonT(30), <1>0, <1>3, <2>1, LocalsType DEF LocalsFit, ResultPCs
  <2>3. \A u \in Tasks : Gives(thr[w], u) => u = t
    BY ZenonT(30), <1>3, <2>1 DEF Gives, Frees
  <2>4. \A u \in Tasks : Gives(thr[w], u) \/ InQueue(u) => InQueue(u)'
    BY ZenonT(30), <1>0, <2>1, <2>2, <2>3, QueueAppend
  <2>5. thr[w].pc \notin HandPCs \cup StopPCs
    BY ZenonT(30), <2>1 DEF HandPCs, StopPCs
  <2> QED
    BY ZenonT(30), <1>0, <1>1, <1>2, <2>1, <2>4, <2>5, LoadedSame, ReachHands
<1>7. CASE FailTaskFail(w)
  <2>1. thr[w].pc = "ftFail" /\ readyQueue' = readyQueue /\ taskState' = [taskState EXCEPT ![t] = "FAILED"]
    BY ZenonT(30), <1>3, <1>7 DEF FailTaskFail, At, memVars, TxFailTask
  <2>2. thr[w].pc \notin GivePCs \cup HandPCs \cup StopPCs /\ thr[w].fin = Nil
    BY ZenonT(30), <1>0, <2>1, NotStopping DEF GivePCs, HandPCs, StopPCs
  <2> DEFINE r == [thr[w] EXCEPT !.pc = "ftFailed"]
  <2>3. Becomes(w, r)
    BY ZenonT(30), <1>7 DEF FailTaskFail, Goto
  <2>4. r.pc \notin FilterPCs \cup {"sbLock"} /\ r.fin = Nil
    BY <1>0, <2>2 DEF ThreadState, FilterPCs
  <2>5. \A u \in Tasks : taskState'[u] = "QUEUED" => taskState[u] = "QUEUED"
    BY <1>0, <2>1
  <2> HIDE DEF r
  <2> QED
    BY ZenonT(30), <1>0, <1>2, <2>1, <2>2, <2>3, <2>4, <2>5, LoadedSame, QueueSame, ReachDull
<1>8. CASE HandleDeadWorker(w)
  <2>1. thr[Daemon].pc = "idle" /\ UNCHANGED <<taskState, readyQueue>> /\ up /\ Daemon \in Threads
    BY ZenonT(30), <1>8, ThreadsType DEF HandleDeadWorker, At, dbVars
  <2>2. PICK dead : Becomes(Daemon, [Idle EXCEPT !.pc = "dwRequeue", !.who = w, !.todo = dead])
    BY ZenonT(30), <1>8 DEF HandleDeadWorker
  <2> DEFINE r == [Idle EXCEPT !.pc = "dwRequeue", !.who = w, !.todo = dead]
  <2>3. r.pc \notin FilterPCs \cup {"sbLock"} /\ r.fin = Nil
    BY DEF Idle, FilterPCs
  <2>4. thr[Daemon].pc \notin GivePCs \cup HandPCs \cup StopPCs
    BY <2>1 DEF GivePCs, HandPCs, StopPCs
  <2>5. Loaded
    BY <2>1 DEF Loaded
  <2>6. Becomes(Daemon, r)
    BY <2>2
  <2> HIDE DEF r
  <2> QED
    BY ZenonT(30), <1>2, <2>1, <2>3, <2>4, <2>5, <2>6, QueueSame, ReachDull
<1> QED
  BY <1>4, <1>5, <1>6, <1>7, <1>8

\* The failure policy and the walk.
LEMMA SkipReach ==
    ASSUME Stepped, ReachInv, NEW w \in Workers,
           FailTaskFailed(w) \/ SkipVisit(w) \/ SkipWrite(w) \/ SkipDone(w)
    PROVE  ReachInv'
<1>0. /\ w \in Threads /\ w \in Workers \cup Clients /\ thr[w] \in ThreadState /\ TypeInv /\ TokenInv
      /\ taskState \in [Tasks -> TaskStates \cup {"ABSENT"}]
  <2>1. TypeInv /\ TypeOK /\ StoreTypeOK
    BY ZenonT(30) DEF Stepped, TypeInv, TypeOK
  <2> QED
    BY ZenonT(30), <2>1, ThreadsType, LocalsType DEF Stepped, TypeOK, StoreTypeOK
<1>9. thr[w].pc \in {"skip", "skipWrite"} => thr[w].fin = Nil /\ \A t \in thr[w].out : Blocked(t)
  BY ZenonT(30), <1>0, FiltersSays
<1>1. UNCHANGED <<up, cached, wfState, stored, readyQueue>>
  BY ZenonT(30) DEF FailTaskFailed, SkipVisit, SkipWrite, SkipDone, TxUpdateTaskState, dbVars, memVars
<1>2. thr[w].pc \in {"ftFailed", "skip", "skipWrite"}
  BY ZenonT(30) DEF FailTaskFailed, SkipVisit, SkipWrite, SkipDone, At
<1>3. thr[w].pc \notin GivePCs \cup HandPCs \cup StopPCs
  BY <1>2 DEF GivePCs, HandPCs, StopPCs
<1>4. ASSUME NEW r, Becomes(w, r), Filters(r), r.pc # "sbLock",
             \A t \in Tasks : taskState'[t] = "QUEUED" => taskState[t] = "QUEUED"
      PROVE  ReachInv'
  BY ZenonT(30), <1>0, <1>1, <1>3, <1>4, LoadedSame, QueueSame, ReachMild
<1>5. CASE FailTaskFailed(w)
  <2>1. PICK t : t = thr[w].task
    OBVIOUS
  <2> DEFINE k == [Idle EXCEPT !.pc = "cancelTx", !.wf = WfOf[t], !.fin = "FAILED"]
  <2> DEFINE r == [Idle EXCEPT !.pc = "skip", !.wf = WfOf[t], !.todo = Downstream(t), !.seen = Downstream(t)]
  <2>2. (Becomes(w, Idle) \/ Becomes(w, k) \/ Becomes(w, r)) /\ UNCHANGED taskState
    BY ZenonT(30), <1>5, <2>1 DEF FailTaskFailed, Return, dbVars
  <2>3. k.pc = "cancelTx" /\ k.fin = "FAILED" /\ r.pc = "skip" /\ r.fin = Nil /\ r.out = {}
    BY DEF Idle
  <2> HIDE DEF k, r
  <2>4. k.fin \in WfStates \ {"RUNNING"} /\ k.pc \in {"cancelTx", "setState"} /\ r.pc # "sbLock" /\ k.pc # "sbLock"
    BY <2>3 DEF WfStates
  <2>5. Filters(k) /\ Filters(r)
    BY ZenonT(30), <2>3, <2>4, FiltersFits
  <2> QED
    BY ZenonT(30), <1>4, <2>2, <2>4, <2>5, IdleFilters
<1>6. CASE SkipVisit(w)
  <2>1. PICK u \in thr[w].todo : Becomes(w, [thr[w] EXCEPT
            !.todo = (@ \ {u}) \cup (Downstream(u) \ thr[w].seen),
            !.seen = @ \cup (Downstream(u) \ thr[w].seen), !.task = u,
            !.pc = IF taskState[u] \in Terminal THEN "skip" ELSE "skipWrite"])
    BY ZenonT(30), <1>6 DEF SkipVisit
  <2> DEFINE r == [thr[w] EXCEPT
            !.todo = (@ \ {u}) \cup (Downstream(u) \ thr[w].seen),
            !.seen = @ \cup (Downstream(u) \ thr[w].seen), !.task = u,
            !.pc = IF taskState[u] \in Terminal THEN "skip" ELSE "skipWrite"]
  <2>2. Becomes(w, r) /\ UNCHANGED taskState /\ thr[w].pc = "skip"
    BY ZenonT(30), <1>6, <2>1 DEF SkipVisit, dbVars, At
  <2>3. r.pc \in {"skip", "skipWrite"} /\ r.fin = thr[w].fin /\ r.out = thr[w].out
    BY <1>0 DEF ThreadState
  <2> HIDE DEF r
  <2>4. Filters(r)
    BY ZenonT(30), <1>9, <2>2, <2>3, FiltersFits
  <2> QED
    BY ZenonT(30), <1>4, <2>2, <2>3, <2>4
<1>7. CASE SkipWrite(w)
  <2>1. PICK u : u = thr[w].task
    OBVIOUS
  <2> DEFINE r == [thr[w] EXCEPT !.pc = "skip", !.out = @ \cup {u}]
  <2>2. thr[w].pc = "skipWrite" /\ Becomes(w, r) /\ taskState' = [taskState EXCEPT ![u] = "SKIPPED"]
    BY <1>7, <2>1 DEF SkipWrite, At, TxUpdateTaskState
  <2>3. u \in thr[w].seen
    BY <1>0, <2>1, <2>2 DEF Stepped, SubmitInv, WalksStayBelow
  <2>4. Blocked(u)
    BY ZenonT(30), <1>0, <2>2, <2>3, WalkBlocked
  <2>5. r.pc = "skip" /\ r.fin = thr[w].fin /\ r.out = thr[w].out \cup {u}
    BY <1>0 DEF ThreadState
  <2> HIDE DEF r
  <2>6. Filters(r)
    BY ZenonT(30), <1>9, <2>2, <2>4, <2>5, FiltersFits
  <2>7. \A t \in Tasks : taskState'[t] = "QUEUED" => taskState[t] = "QUEUED"
    BY <1>0, <2>2
  <2> QED
    BY ZenonT(30), <1>4, <2>2, <2>5, <2>6, <2>7
<1>8. CASE SkipDone(w)
  <2> DEFINE r == [thr[w] EXCEPT !.pc = IF thr[w].out = {} THEN "chkDone" ELSE "filter"]
  <2>1. Becomes(w, r) /\ UNCHANGED taskState /\ thr[w].pc = "skip"
    BY ZenonT(30), <1>8 DEF SkipDone, dbVars, At, Goto
  <2>2. r.pc \in {"chkDone", "filter"} /\ r.fin = thr[w].fin /\ r.out = thr[w].out
    BY <1>0 DEF ThreadState
  <2> HIDE DEF r
  <2>3. Filters(r)
    BY ZenonT(30), <1>9, <2>1, <2>2, FiltersFits
  <2> QED
    BY ZenonT(30), <1>4, <2>1, <2>2, <2>3
<1> QED
  BY <1>5, <1>6, <1>7, <1>8

\* checkWorkflowCompletion, before it writes.
LEMMA CheckReach ==
    ASSUME Stepped, ReachInv, NEW w \in Workers, CheckDone(w) \/ CheckStatuses(w)
    PROVE  ReachInv'
<1>0. /\ w \in Threads /\ w \in Workers \cup Clients /\ thr[w] \in ThreadState
  BY ThreadsType, LocalsType DEF Stepped
<1>1. UNCHANGED <<up, cached, wfState, stored, readyQueue, taskState>>
  BY ZenonT(30) DEF CheckDone, CheckStatuses, dbVars, memVars
<1>2. thr[w].pc \in {"chkDone", "chkStatus"}
  BY ZenonT(30) DEF CheckDone, CheckStatuses, At
<1>3. thr[w].pc \notin GivePCs \cup HandPCs \cup StopPCs /\ thr[w].fin = Nil
  BY <1>0, <1>2, NotStopping DEF GivePCs, HandPCs, StopPCs
<1>4. ASSUME NEW r, Becomes(w, r), Filters(r), r.pc # "sbLock" PROVE ReachInv'
  BY ZenonT(30), <1>0, <1>1, <1>3, <1>4, LoadedSame, QueueSame, ReachMild
<1>5. CASE CheckDone(w)
  <2> DEFINE r == [thr[w] EXCEPT !.pc = "chkStatus"]
  <2>1. Becomes(w, r) \/ Becomes(w, Idle)
    BY ZenonT(30), <1>5 DEF CheckDone, Goto, Return
  <2>2. r.pc = "chkStatus" /\ r.fin = Nil
    BY <1>0, <1>3 DEF ThreadState
  <2> HIDE DEF r
  <2>3. Filters(r)
    BY ZenonT(30), <2>2, FiltersFits
  <2> QED
    BY ZenonT(30), <1>4, <2>1, <2>2, <2>3, IdleFilters
<1>6. CASE CheckStatuses(w)
  <2> DEFINE r == [thr[w] EXCEPT !.pc = "setState", !.fin = FinalState(thr[w].wf)]
  <2>1. Becomes(w, r)
    BY ZenonT(30), <1>6 DEF CheckStatuses
  <2>2. r.pc = "setState" /\ r.fin \in {"COMPLETE", "FAILED"}
    BY <1>0 DEF ThreadState, FinalState
  <2> HIDE DEF r
  <2>3. r.fin \in WfStates \ {"RUNNING"} /\ r.pc \in {"cancelTx", "setState"} /\ r.pc # "sbLock"
    BY <2>2 DEF WfStates
  <2>4. Filters(r)
    BY ZenonT(30), <2>3, FiltersFits
  <2> QED
    BY ZenonT(30), <1>4, <2>1, <2>3, <2>4
<1> QED
  BY <1>5, <1>6

\* Stopping a workflow.
LEMMA CancelReach ==
    ASSUME Stepped, ReachInv, NEW x \in Workers \cup Clients, CancelStep(x)
    PROVE  ReachInv'
<1>0. /\ x \in Threads /\ thr[x] \in ThreadState /\ TypeInv /\ readyQueue \in Seq(Tasks)
      /\ wfState \in [Workflows -> WfStates \cup {"ABSENT"}]
  <2>1. TypeInv /\ TypeOK /\ StoreTypeOK
    BY ZenonT(30) DEF Stepped, TypeInv, TypeOK
  <2> QED
    BY ZenonT(30), <2>1, ThreadsType, LocalsType DEF Stepped, TypeOK, StoreTypeOK
<1>9. /\ thr[x].pc = "filter" /\ thr[x].fin = Nil => \A t \in thr[x].out : Blocked(t)
      /\ thr[x].pc = "filter" /\ thr[x].fin # Nil => thr[x].out \subseteq TasksOf(thr[x].wf)
      /\ thr[x].fin # Nil => thr[x].fin \in WfStates \ {"RUNNING"}
  BY ZenonT(30), <1>0, FiltersSays
<1>1. UNCHANGED <<up, cached, stored>> /\ cached \subseteq cached' /\ stored \subseteq stored'
  BY DEF CancelStep, CancelTasks, FilterQueue, SetWorkflowState, TxCancelWorkflowTasks, TxSetWorkflowState, dbVars, memVars
<1>2. thr[x].pc \in StopPCs
  BY ZenonT(30) DEF CancelStep, CancelTasks, FilterQueue, SetWorkflowState, At, StopPCs
<1>3. thr[x].pc \notin {"sbInitTasks", "sbLock"} /\ \A t \in Tasks : ~Gives(thr[x], t)
  BY <1>2 DEF StopPCs, Gives, Frees
<1>4. PICK wf : wf = thr[x].wf
  OBVIOUS
<1>5. CASE CancelTasks(x)
  <2> DEFINE r == [thr[x] EXCEPT !.pc = "filter", !.out = Cancellable(thr[x].wf)]
  <2>1. /\ thr[x].pc = "cancelTx" /\ Becomes(x, r) /\ UNCHANGED <<wfState, readyQueue>>
        /\ taskState' = [t \in Tasks |-> IF t \in Cancellable(wf) THEN "SKIPPED" ELSE taskState[t]]
    BY <1>4, <1>5 DEF CancelTasks, At, TxCancelWorkflowTasks, memVars
  <2>2. r.pc = "filter" /\ r.out = Cancellable(wf) /\ r.fin = thr[x].fin /\ r.wf = thr[x].wf
    BY <1>0, <1>4 DEF ThreadState
  <2>3. thr[x].fin \in WfStates /\ Nil \notin WfStates
    <3>1. thr[x].fin \in WfStates
      BY <1>0, <2>1, LocalsType DEF LocalsFit
    <3> QED
      BY ZenonT(30), <3>1, CoordinatorAssumption
  <2> HIDE DEF r
  <2>6. r.fin \in WfStates \ {"RUNNING"} /\ r.fin # Nil /\ r.out \subseteq TasksOf(r.wf)
    BY ZenonT(30), <1>4, <1>9, <2>2, <2>3 DEF Cancellable, Recorded
  <2>4. Filters(r) /\ r.pc # "sbLock"
    BY ZenonT(30), <2>2, <2>6, FiltersFits
  <2>5. \A t \in Tasks : taskState'[t] = "QUEUED" => taskState[t] = "QUEUED"
    BY ZenonT(30), <2>1
  <2> QED
    BY ZenonT(30), <1>0, <1>1, <1>3, <2>1, <2>2, <2>4, <2>5, LoadedSame, QueueSame, ReachRead
<1>6. CASE FilterQueue(x)
  <2> DEFINE r == [thr[x] EXCEPT !.pc = IF thr[x].fin = Nil THEN "chkDone" ELSE "setState"]
  <2>1. /\ thr[x].pc = "filter" /\ Becomes(x, r) /\ UNCHANGED <<wfState, taskState>>
        /\ readyQueue' = Without(readyQueue, thr[x].out)
    BY <1>6 DEF FilterQueue, At, Goto, dbVars
  <2>2. r.pc = (IF thr[x].fin = Nil THEN "chkDone" ELSE "setState") /\ r.fin = thr[x].fin /\ r.wf = thr[x].wf
    BY <1>0 DEF ThreadState
  <2> HIDE DEF r
  <2>3. Filters(r) /\ r.pc # "sbLock"
    <3>1. CASE thr[x].fin = Nil
      BY ZenonT(30), <2>2, <3>1, FiltersFits
    <3>2. CASE thr[x].fin # Nil
      BY ZenonT(30), <1>9, <2>2, <3>2, FiltersFits
    <3> QED
      BY <3>1, <3>2
  <2>4. ASSUME NEW t \in Tasks, InQueue(t), t \notin thr[x].out PROVE InQueue(t)'
    <3>1. \A i \in DOMAIN readyQueue : readyQueue[i] \notin thr[x].out =>
              \E k \in DOMAIN Without(readyQueue, thr[x].out) : Without(readyQueue, thr[x].out)[k] = readyQueue[i]
      BY ZenonT(30), <1>0, WithoutProperties
    <3> QED
      BY ZenonT(30), <2>1, <2>4, <3>1 DEF InQueue
  <2>5. ASSUME NEW t \in Tasks, t \in thr[x].out, taskState[t] = "QUEUED" PROVE Stopping(WfOf[t])
    <3>1. thr[x].fin # Nil
      <4>1. ~Blocked(t)
        BY ZenonT(30), <2>5, BlockedUnplaced DEF Stepped, Placed
      <4> QED
        BY ZenonT(30), <1>9, <2>1, <2>5, <4>1
    <3>2. WfOf[t] = thr[x].wf
      BY ZenonT(30), <1>9, <2>1, <2>5, <3>1 DEF TasksOf
    <3> QED
      BY ZenonT(30), <1>0, <3>1, <3>2 DEF Stopping
  <2>6. \A t \in Tasks : InQueue(t) /\ taskState[t] = "QUEUED" /\ taskState'[t] = "QUEUED" /\ ~Stopping(WfOf[t]) => InQueue(t)'
    BY ZenonT(30), <2>4, <2>5
  <2> QED
    BY ZenonT(30), <1>0, <1>1, <1>3, <2>1, <2>2, <2>3, <2>6, LoadedSame, ReachRead
<1>7. CASE SetWorkflowState(x)
  <2>1. /\ thr[x].pc = "setState" /\ Becomes(x, Idle) /\ UNCHANGED <<taskState, readyQueue>>
        /\ wfState' = [wfState EXCEPT ![wf] = thr[x].fin]
    BY ZenonT(30), <1>4, <1>7 DEF SetWorkflowState, At, TxSetWorkflowState, Return, memVars, taskVars
  <2>2. thr[x].fin \in WfStates \ {"RUNNING"} /\ wf \in Workflows
    <3>1. thr[x].fin \in WfStates /\ wf \in Workflows
      BY ZenonT(30), <1>0, <1>4, <2>1, LocalsType DEF LocalsFit
    <3> QED
      BY ZenonT(30), <1>9, <3>1, CoordinatorAssumption
  <2>3. wfState'[thr[x].wf] # "RUNNING" /\ \A v \in Workflows : wfState'[v] = "RUNNING" => wfState[v] = "RUNNING"
    BY ZenonT(30), <1>0, <1>4, <2>1, <2>2
  <2> QED
    BY ZenonT(30), <1>0, <1>1, <1>3, <2>1, <2>3, IdleFilters, LoadedSame, QueueSame, ReachRead
<1> QED
  BY ZenonT(30), <1>5, <1>6, <1>7 DEF CancelStep

\* Submissions and cancellations begin, and a submission goes on.
LEMMA ClientReach ==
    ASSUME Stepped, ReachInv, NEW c \in Clients,
           SubmitWorkflow(c) \/ CancelWorkflow(c) \/ SubmitStep(c)
    PROVE  ReachInv'
<1>0. /\ c \in Threads /\ c \in Workers \cup Clients /\ thr[c] \in ThreadState /\ TypeInv
      /\ taskState \in [Tasks -> TaskStates \cup {"ABSENT"}]
      /\ wfState \in [Workflows -> WfStates \cup {"ABSENT"}]
  <2>1. TypeInv /\ TypeOK /\ StoreTypeOK
    BY ZenonT(30) DEF Stepped, TypeInv, TypeOK
  <2> QED
    BY ZenonT(30), <2>1, ThreadsType, LocalsType DEF Stepped, TypeOK, StoreTypeOK
<1>1. /\ thr[c].pc \in {"idle", "sbInitWf", "sbInitTasks", "sbLock", "sbQueue"} /\ up' = up
      /\ cached \subseteq cached' /\ stored \subseteq stored'
  BY ZenonT(30) DEF SubmitWorkflow, CancelWorkflow, SubmitStep, SubmitInitWorkflow, SubmitInitTasks, SubmitLock, SubmitQueue,
     SubmitReturn, At, TxStoreWorkflow, TxSetWorkflowState, TxInitializeTasks, TxUpdateTaskState, memVars, dbVars
<1>2. thr[c].fin = Nil /\ \A t \in Tasks : ~Gives(thr[c], t)
  <2>1. thr[c].pc \notin StopPCs
    BY ZenonT(30), <1>1 DEF StopPCs
  <2> QED
    BY ZenonT(30), <1>0, <1>1, <2>1, NotStopping DEF Gives, Frees
<1>4. CASE SubmitWorkflow(c)
  <2>1. PICK wf : Becomes(c, [Idle EXCEPT !.pc = "sbInitWf", !.wf = wf])
    BY ZenonT(30), <1>4 DEF SubmitWorkflow
  <2>2. UNCHANGED <<wfState, taskState, readyQueue>> /\ thr[c].pc = "idle"
    BY ZenonT(30), <1>4 DEF SubmitWorkflow, At, TxStoreWorkflow, memVars, taskVars
  <2> DEFINE r == [Idle EXCEPT !.pc = "sbInitWf", !.wf = wf]
  <2>3. Filters(r) /\ r.pc # "sbLock"
    <3>1. r.pc = "sbInitWf" /\ r.fin = Nil
      BY DEF Idle
    <3> QED
      BY ZenonT(30), <3>1, FiltersFits
  <2>4. Becomes(c, r) /\ thr[c].pc \notin {"sbInitTasks", "sbLock"}
    BY <2>1, <2>2
  <2> HIDE DEF r
  <2> QED
    BY ZenonT(30), <1>0, <1>1, <1>2, <2>2, <2>3, <2>4, LoadedSame, QueueSame, ReachRead
<1>5. CASE CancelWorkflow(c)
  <2>1. PICK wf : Becomes(c, [Idle EXCEPT !.pc = "cancelTx", !.wf = wf, !.fin = "CANCELLED"])
    BY ZenonT(30), <1>5 DEF CancelWorkflow
  <2>2. UNCHANGED <<wfState, taskState, readyQueue>> /\ thr[c].pc = "idle"
    BY ZenonT(30), <1>5 DEF CancelWorkflow, At, memVars, dbVars
  <2> DEFINE r == [Idle EXCEPT !.pc = "cancelTx", !.wf = wf, !.fin = "CANCELLED"]
  <2>3. Filters(r) /\ r.pc # "sbLock"
    <3>1. r.pc = "cancelTx" /\ r.fin = "CANCELLED"
      BY DEF Idle
    <3> QED
      BY ZenonT(30), <3>1, FiltersFits DEF WfStates
  <2>4. Becomes(c, r) /\ thr[c].pc \notin {"sbInitTasks", "sbLock"}
    BY <2>1, <2>2
  <2> HIDE DEF r
  <2> QED
    BY ZenonT(30), <1>0, <1>1, <1>2, <2>2, <2>3, <2>4, LoadedSame, QueueSame, ReachRead
<1>6. CASE SubmitInitWorkflow(c)
  <2>1. PICK wf : wf = thr[c].wf
    OBVIOUS
  <2> DEFINE r == [thr[c] EXCEPT !.pc = "sbInitTasks"]
  <2>2. /\ thr[c].pc = "sbInitWf" /\ Becomes(c, r) /\ UNCHANGED <<taskState, readyQueue>>
        /\ wfState' = [wfState EXCEPT ![wf] = "RUNNING"]
    BY <1>6, <2>1 DEF SubmitInitWorkflow, At, Goto, TxSetWorkflowState, memVars, taskVars
  <2>3. r.pc = "sbInitTasks" /\ r.fin = Nil /\ r.wf = wf
    BY <1>0, <1>2, <2>1 DEF ThreadState
  <2>4. wf \in stored'
    BY <1>1, <2>1, <2>2 DEF Stepped, SubmitInv, SubmittersApart, SubmitPCs
  <2> HIDE DEF r
  <2>5. Filters(r) /\ r.pc # "sbLock" /\ thr[c].pc \notin {"sbInitTasks", "sbLock"}
    BY ZenonT(30), <2>2, <2>3, FiltersFits
  <2>6. \A v \in Workflows : wfState'[v] = "RUNNING" => wfState[v] = "RUNNING" \/ v = wf
    BY ZenonT(30), <1>0, <2>2
  <2>7. \A v \in Workflows : wfState'[v] = "RUNNING" =>
            wfState[v] = "RUNNING" \/ (c \in Clients /\ r.pc = "sbInitTasks" /\ r.wf = v /\ v \in stored')
    BY <2>3, <2>4, <2>6
  <2>8. (Loaded' => Loaded) /\ \A t \in Tasks : InQueue(t) => InQueue(t)'
    BY ZenonT(30), <1>1, <2>2, LoadedSame, QueueSame
  <2> QED
    BY ZenonT(30), <1>0, <1>1, <1>2, <2>2, <2>5, <2>7, <2>8, ReachRead
<1>7. CASE SubmitInitTasks(c)
  <2> DEFINE r == [thr[c] EXCEPT !.pc = "sbLock"]
  <2>1. /\ Becomes(c, r) /\ UNCHANGED <<wfState, readyQueue>>
        /\ taskState' = [t \in Tasks |-> IF WfOf[t] = thr[c].wf THEN "PENDING" ELSE taskState[t]]
    BY <1>7 DEF SubmitInitTasks, Goto, TxInitializeTasks, memVars
  <2>2. r.pc = "sbLock" /\ r.fin = Nil /\ r.wf = thr[c].wf
    BY <1>0, <1>2 DEF ThreadState
  <2> HIDE DEF r
  <2>3. Filters(r) /\ r.pc \in {"sbInitTasks", "sbLock"}
    BY ZenonT(30), <2>2, FiltersFits
  <2>4. \A t \in TasksOf(r.wf) : taskState'[t] \in {"PENDING", "SKIPPED"}
    BY ZenonT(30), <2>1, <2>2 DEF TasksOf
  <2>5. \A t \in Tasks : taskState'[t] = "QUEUED" => taskState[t] = "QUEUED"
    BY ZenonT(30), <2>1
  <2> QED
    BY ZenonT(30), <1>0, <1>1, <1>2, <2>1, <2>2, <2>3, <2>4, <2>5, LoadedSame, QueueSame, ReachRead
<1>8. CASE SubmitLock(c)
  <2>1. PICK T : Becomes(c, [thr[c] EXCEPT !.pc = "sbQueue", !.todo = T])
    BY ZenonT(30), <1>8 DEF SubmitLock
  <2> DEFINE r == [thr[c] EXCEPT !.pc = "sbQueue", !.todo = T]
  <2>2. UNCHANGED <<wfState, taskState, readyQueue>> /\ thr[c].wf \in cached'
    BY <1>8 DEF SubmitLock, dbVars
  <2>3. r.pc = "sbQueue" /\ r.fin = Nil /\ Becomes(c, r)
    BY <1>0, <1>2, <2>1 DEF ThreadState
  <2> HIDE DEF r
  <2>4. Filters(r) /\ r.pc # "sbLock"
    BY ZenonT(30), <2>3, FiltersFits
  <2> QED
    BY ZenonT(30), <1>0, <1>1, <1>2, <2>2, <2>3, <2>4, LoadedSame, QueueSame, ReachRead
<1>9. CASE SubmitQueue(c)
  <2>1. PICK t \in thr[c].todo : /\ Becomes(c, [thr[c] EXCEPT !.todo = @ \ {t}])
                                 /\ taskState' = [taskState EXCEPT ![t] = "QUEUED"]
                                 /\ readyQueue' = Append(readyQueue, t)
    BY ZenonT(30), <1>9 DEF SubmitQueue, TxUpdateTaskState
  <2>2. t \in Tasks /\ thr[c].pc = "sbQueue" /\ wfState' = wfState
    BY <1>0, <1>9 DEF SubmitQueue, At, TxUpdateTaskState, ThreadState
  <2> DEFINE r == [thr[c] EXCEPT !.todo = @ \ {t}]
  <2>3. r.pc = "sbQueue" /\ r.fin = Nil /\ Becomes(c, r)
    BY <1>0, <1>2, <2>1, <2>2 DEF ThreadState
  <2> HIDE DEF r
  <2>4. Filters(r) /\ r.pc # "sbLock" /\ thr[c].pc \notin {"sbInitTasks", "sbLock"}
    BY ZenonT(30), <2>2, <2>3, FiltersFits
  <2>5. InQueue(t)' /\ \A u \in Tasks : InQueue(u) => InQueue(u)'
    BY ZenonT(30), <1>0, <2>1, <2>2, QueueAppend
  <2>6. \A u \in Tasks : taskState'[u] = "QUEUED" => taskState[u] = "QUEUED" \/ u = t
    BY <1>0, <2>1
  <2> QED
    BY ZenonT(30), <1>0, <1>1, <1>2, <2>2, <2>3, <2>4, <2>5, <2>6, LoadedSame, ReachRead
<1>10. CASE SubmitReturn(c)
  <2>1. Becomes(c, Idle) /\ UNCHANGED <<wfState, taskState, readyQueue>> /\ thr[c].pc = "sbQueue"
    BY ZenonT(30), <1>10 DEF SubmitReturn, At, Return, dbVars
  <2>2. thr[c].pc \notin {"sbInitTasks", "sbLock"}
    BY <2>1
  <2> QED
    BY ZenonT(30), <1>0, <1>1, <1>2, <2>1, <2>2, IdleFilters, LoadedSame, QueueSame, ReachRead
<1> QED
  BY ZenonT(30), <1>4, <1>5, <1>6, <1>7, <1>8, <1>9, <1>10 DEF SubmitStep

\* The monitor and recovery.
LEMMA DaemonReach ==
    ASSUME Stepped, ReachInv, DeadRequeue \/ DeadAppend \/ DeadRemove \/ PrepareRecovery \/ Start
    PROVE  ReachInv'
<1>0. /\ Daemon \in Threads /\ thr[Daemon] \in ThreadState /\ TypeInv
      /\ taskState \in [Tasks -> TaskStates \cup {"ABSENT"}]
  <2>1. TypeInv /\ TypeOK /\ StoreTypeOK
    BY ZenonT(30) DEF Stepped, TypeInv, TypeOK
  <2> QED
    BY ZenonT(30), <2>1, ThreadsType, LocalsType DEF Stepped, TypeOK, StoreTypeOK
<1>1. Idle.pc \notin FilterPCs \cup {"sbLock"} /\ Idle.fin = Nil
  BY DEF Idle, FilterPCs
<1>2. UNCHANGED <<cached, wfState, stored>>
  BY ZenonT(30) DEF DeadRequeue, DeadAppend, DeadRemove, PrepareRecovery, Start, TxRequeueTask, dbVars, memVars
<1>3. thr[Daemon].pc \in {"dwRequeue", "dwAppend", "dwForget", "rcRequeue"} /\ Loaded
  BY ZenonT(30) DEF DeadRequeue, DeadAppend, DeadRemove, PrepareRecovery, Start, At, Loaded
<1>4. thr[Daemon].pc \notin HandPCs \cup StopPCs /\ thr[Daemon].fin = Nil
  BY <1>0, <1>3, NotStopping DEF HandPCs, StopPCs
<1>5. ASSUME NEW t \in thr[Daemon].todo, TxRequeueTask(t), NEW u \in Tasks, taskState'[u] = "QUEUED"
      PROVE  taskState[u] = "QUEUED" \/ u = t
  BY <1>0, <1>5 DEF TxRequeueTask
<1>6. CASE DeadRequeue
  <2>1. PICK t \in thr[Daemon].todo :
            TxRequeueTask(t) /\ Becomes(Daemon, [thr[Daemon] EXCEPT !.pc = "dwAppend", !.task = t, !.todo = @ \ {t}])
    BY ZenonT(30), <1>6 DEF DeadRequeue
  <2> DEFINE r == [thr[Daemon] EXCEPT !.pc = "dwAppend", !.task = t, !.todo = @ \ {t}]
  <2>2. thr[Daemon].pc = "dwRequeue" /\ readyQueue' = readyQueue
    BY ZenonT(30), <1>6 DEF DeadRequeue, At, memVars
  <2>3. r.pc = "dwAppend" /\ r.task = t /\ r.fin = Nil /\ Becomes(Daemon, r)
    BY <1>0, <1>4, <2>1 DEF ThreadState
  <2> HIDE DEF r
  <2>4. /\ r.pc \notin FilterPCs \cup {"sbLock"} /\ Gives(r, t)
        /\ thr[Daemon].pc \notin GivePCs \cup HandPCs \cup StopPCs
    BY <1>4, <2>2, <2>3 DEF FilterPCs, Gives, GivePCs
  <2> QED
    BY ZenonT(30), <1>0, <1>2, <1>3, <1>5, <2>1, <2>2, <2>3, <2>4, QueueSame, ReachDull
<1>7. CASE DeadAppend
  <2>1. PICK t : t = thr[Daemon].task
    OBVIOUS
  <2> DEFINE r == [thr[Daemon] EXCEPT !.pc = "dwRequeue"]
  <2>2. /\ thr[Daemon].pc = "dwAppend" /\ Becomes(Daemon, r) /\ UNCHANGED taskState
        /\ readyQueue' = Append(readyQueue, t)
    BY ZenonT(30), <1>7, <2>1 DEF DeadAppend, At, Goto, dbVars
  <2>3. t \in Tasks
    BY <1>0, <2>1, <2>2, LocalsType DEF LocalsFit
  <2>4. r.pc = "dwRequeue" /\ r.fin = Nil
    BY <1>0, <1>4 DEF ThreadState
  <2> HIDE DEF r
  <2>5. r.pc \notin FilterPCs \cup {"sbLock"} /\ \A u \in Tasks : Gives(thr[Daemon], u) => u = t
    BY <2>1, <2>2, <2>4 DEF FilterPCs, Gives, Frees
  <2>6. \A u \in Tasks : Gives(thr[Daemon], u) \/ InQueue(u) => InQueue(u)'
    BY ZenonT(30), <1>0, <2>2, <2>3, <2>5, QueueAppend
  <2> QED
    BY ZenonT(30), <1>0, <1>2, <1>3, <1>4, <2>2, <2>4, <2>5, <2>6, ReachHands
<1>8. CASE DeadRemove
  <2> DEFINE r == [thr[Daemon] EXCEPT !.pc = "dwForget"]
  <2>1. (Becomes(Daemon, r) \/ Becomes(Daemon, Idle)) /\ UNCHANGED <<taskState, readyQueue>>
    BY ZenonT(30), <1>8 DEF DeadRemove, Goto, Return, dbVars
  <2>2. thr[Daemon].pc \in {"dwRequeue", "dwForget"}
    BY ZenonT(30), <1>8 DEF DeadRemove, At
  <2>3. r.pc = "dwForget" /\ r.fin = Nil
    BY <1>0, <1>4 DEF ThreadState
  <2> HIDE DEF r
  <2>4. r.pc \notin FilterPCs \cup {"sbLock"} /\ thr[Daemon].pc \notin GivePCs \cup HandPCs \cup StopPCs
    BY <1>4, <2>2, <2>3 DEF FilterPCs, GivePCs
  <2> QED
    BY ZenonT(30), <1>0, <1>1, <1>2, <1>3, <2>1, <2>3, <2>4, QueueSame, ReachDull
<1>9. CASE PrepareRecovery
  <2>1. PICK t \in thr[Daemon].todo :
            /\ TxRequeueTask(t) /\ Becomes(Daemon, [thr[Daemon] EXCEPT !.todo = @ \ {t}])
            /\ readyQueue' = Append(readyQueue, t)
    BY ZenonT(30), <1>9 DEF PrepareRecovery
  <2> DEFINE r == [thr[Daemon] EXCEPT !.todo = @ \ {t}]
  <2>2. thr[Daemon].pc = "rcRequeue" /\ t \in Tasks
    BY <1>0, <1>9 DEF PrepareRecovery, ThreadState
  <2>3. r.pc = "rcRequeue" /\ r.fin = Nil /\ Becomes(Daemon, r)
    BY <1>0, <1>4, <2>1, <2>2 DEF ThreadState
  <2> HIDE DEF r
  <2>4. r.pc \notin FilterPCs \cup {"sbLock"} /\ thr[Daemon].pc \notin GivePCs \cup HandPCs \cup StopPCs
    BY <1>4, <2>2, <2>3 DEF FilterPCs, GivePCs
  <2>5. InQueue(t)' /\ \A u \in Tasks : InQueue(u) => InQueue(u)'
    BY ZenonT(30), <1>0, <2>1, <2>2, QueueAppend
  <2> QED
    BY ZenonT(30), <1>0, <1>2, <1>3, <1>5, <2>1, <2>3, <2>4, <2>5, ReachDull
<1>10. CASE Start
  <2>1. Becomes(Daemon, Idle) /\ UNCHANGED <<taskState, readyQueue>> /\ thr[Daemon].pc = "rcRequeue"
    BY ZenonT(30), <1>10 DEF Start, Return, dbVars
  <2>2. thr[Daemon].pc \notin GivePCs \cup HandPCs \cup StopPCs
    BY <1>4, <2>1 DEF GivePCs
  <2> QED
    BY ZenonT(30), <1>0, <1>1, <1>2, <1>3, <2>1, <2>2, QueueSame, ReachDull
<1> QED
  BY <1>6, <1>7, <1>8, <1>9, <1>10

\* A crash forgets everything, and LoadStateFromDB finds it again.
LEMMA RestartReach ==
    ASSUME Stepped, ReachInv, Crash \/ LoadStateFromDB
    PROVE  ReachInv'
<1>0. Daemon \in Threads /\ TypeInv
  BY ThreadsType DEF Stepped
<1>1. UNCHANGED <<taskState, wfState, stored>>
  BY DEF Crash, LoadStateFromDB, dbVars
<1>2. \A wf \in Workflows : wfState'[wf] = "RUNNING" => wf \in stored'
  BY ZenonT(30), <1>1 DEF ReachInv
<1>3. CASE Crash
  <2>1. (\A x \in Threads : thr'[x] = Idle) /\ up' = FALSE
    BY ZenonT(30), <1>3 DEF Crash
  <2>2. \A x \in Threads : Filters(thr[x])'
    <3>1. \A x \in Threads : thr'[x].pc = "idle" /\ thr'[x].fin = Nil
      BY ZenonT(30), <2>1, IdleFields
    <3> QED
      BY ZenonT(30), <3>1 DEF Filters
  <2>3. \A c \in Clients : Fresh(c)'
    BY ZenonT(30), <2>1, ThreadsType, IdleFields DEF Fresh
  <2>4. ~Loaded'
    BY ZenonT(30), <1>0, <2>1, IdleFields DEF Loaded
  <2> QED
    BY ZenonT(30), <1>2, <2>2, <2>3, <2>4 DEF ReachInv
<1>4. CASE LoadStateFromDB
  <2>1. PICK r : Becomes(Daemon, r) /\ r = [Idle EXCEPT !.pc = "rcRequeue", !.todo = Interrupted]
    BY <1>4 DEF LoadStateFromDB
  <2>2. thr'[Daemon] = r /\ \A x \in Threads : x # Daemon => thr'[x] = thr[x]
    BY <1>0, <2>1 DEF Becomes, TypeInv, TypeOK
  <2>3. r.pc = "rcRequeue" /\ r.fin = Nil
    BY <2>1 DEF Idle
  <2>4. ASSUME NEW x \in Threads PROVE Filters(thr[x])'
    <3>1. Filters(thr'[x])
      <4>1. CASE x = Daemon
        BY ZenonT(30), <2>2, <2>3, <4>1, FiltersFits
      <4>2. CASE x # Daemon
        BY ZenonT(30), <2>2, <4>2, FiltersSays
      <4> QED
        BY <4>1, <4>2
    <3> QED
      BY <1>1, <3>1 DEF Filters, Blocked, TasksOf
  <2>5. \A c \in Clients : Fresh(c)'
    <3>1. \A c \in Clients : c \in Threads /\ c # Daemon /\ thr'[c] = thr[c]
      BY <2>2, ThreadsType, CoordinatorAssumption
    <3>2. \A c \in Clients : Fresh(c)
      BY ZenonT(30) DEF ReachInv
    <3> QED
      BY ZenonT(30), <1>1, <3>1, <3>2 DEF Fresh, TasksOf
  <2>6. \A wf \in stored' : wfState'[wf] = "RUNNING" => wf \in cached'
    BY <1>1, <1>4 DEF LoadStateFromDB
  <2>7. \A t \in Tasks : taskState'[t] = "QUEUED" => Reachable(t)'
    <3>1. IsFiniteSet(QueuedOnDisk)
      BY StoreAssumption, FS_Subset DEF QueuedOnDisk, InState
    <3>2. \A t \in QueuedOnDisk : \E i \in DOMAIN readyQueue' : readyQueue'[i] = t
      BY <1>4, <3>1, OrdersProperties DEF LoadStateFromDB
    <3>3. \A t \in Tasks : taskState'[t] = "QUEUED" => InQueue(t)'
      BY <1>1, <3>2 DEF QueuedOnDisk, InState, InQueue
    <3> QED
      BY ZenonT(30), <3>3 DEF Reachable
  <2> QED
    BY ZenonT(30), <1>2, <2>4, <2>5, <2>6, <2>7 DEF ReachInv
<1> QED
  BY <1>3, <1>4

\* Every step.
LEMMA ReachNext ==
    ASSUME Stepped, ReachInv, StoreFaults = FALSE, [Next]_vars
    PROVE  ReachInv'
<1>1. ASSUME UNCHANGED <<dbVars, memVars, thr>> PROVE ReachInv'
  <2>1. UNCHANGED <<taskState, wfState, stored, cached, up, readyQueue, thr>>
    BY ZenonT(30), <1>1 DEF dbVars, memVars
  <2>2. Daemon \in Threads /\ Becomes(Daemon, thr[Daemon]) /\ cached \subseteq cached' /\ stored \subseteq stored'
    BY ZenonT(30), <2>1, ThreadsType DEF Becomes, Stepped, TypeInv, TypeOK
  <2>3. Loaded' => Loaded
    BY <2>1 DEF Loaded
  <2> QED
    BY ZenonT(30), <2>1, <2>2, <2>3, FiltersSays, QueueSame, ReachRead
<1>2. CASE UNCHANGED vars
  BY <1>1, <1>2 DEF vars
<1>3. ASSUME NEW w \in Workers, ResultStep(w) PROVE ReachInv'
  BY ZenonT(30), <1>3, CompleteReach, CheckReach, FailReach, SkipReach DEF ResultStep
<1>4. ASSUME NEW w \in Workers, HandleDeadWorker(w) PROVE ReachInv'
  BY ZenonT(30), <1>4, FailReach
<1>5. CASE DaemonStep
  BY ZenonT(30), <1>5, DaemonReach, RestartReach DEF DaemonStep
<1>6. CASE EnvStep
  BY ZenonT(30), <1>1, <1>6, RestartReach DEF EnvStep, StoreError, WorkerCrash, StreamBreak
<1> QED
  BY ZenonT(30), <1>2, <1>3, <1>4, <1>5, <1>6, ReceiveReach, ClientReach, CancelReach DEF Next

LEMMA ReachInit ==
    ASSUME Init PROVE ReachInv
<1>1. (\A x \in Threads : thr[x] = Idle) /\ stored = {} /\ taskState = [t \in Tasks |-> "ABSENT"]
      /\ wfState = [wf \in Workflows |-> "ABSENT"]
  BY DEF Init, StoreInit
<1>2. \A x \in Threads : Filters(thr[x])
  BY ZenonT(30), <1>1, IdleFilters
<1>3. \A c \in Clients : Fresh(c)
  BY ZenonT(30), <1>1, ThreadsType, IdleFields DEF Fresh
<1>4. (\A t \in Tasks : taskState[t] # "QUEUED") /\ \A wf \in Workflows : wfState[wf] # "RUNNING"
  BY <1>1
<1>5. \A wf \in stored : FALSE
  BY <1>1
<1> QED
  BY ZenonT(30), <1>2, <1>3, <1>4, <1>5 DEF ReachInv

LEMMA ReachFollows ==
    ASSUME ReachInv PROVE QueuedIsReachable
BY ZenonT(30) DEF ReachInv, Loaded, QueuedIsReachable, Reachable, Frees
=============================================================================
