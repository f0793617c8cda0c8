------------------------ MODULE CoordinatorInvariant ------------------------
(***************************************************************************)
(* The inductive invariants behind the theorems about Coordinator.         *)
(*                                                                         *)
(*   LocalsOK    the locals a thread needs at its label have a value       *)
(*   SubmitInv   a task is out of reach of every thread until the          *)
(*               submission of its workflow has queued or unlocked it, and *)
(*               a waiting record bears an execution id nobody holds       *)
(*   TokenInv    a task is in at most one place at a time (queue, worker,  *)
(*               result being processed, dead worker's list), its record   *)
(*               is in a state that fits the place, and a task that is in  *)
(*               a place has all its dependencies COMPLETE                 *)
(*   VerdictInv  what a workflow is settled by does not change any more    *)
(*   WatchInv    a RUNNING task is in runningTasks or about to be requeued *)
(*   ReachInv    a QUEUED task is in the ready queue or on its way there   *)
(*   LifeInv     a skip walk stays below failed and skipped tasks, and the *)
(*               record of a workflow comes before those of its tasks      *)
(*                                                                         *)
(* TypeInv and SubmitInv hold for every schedule.  The others need that no *)
(* worker is declared dead in the middle of one of its results (Overlap =  *)
(* FALSE), and the last three that no transaction fails.                   *)
(***************************************************************************)
EXTENDS Coordinator

SubmitPCs == {"sbInitWf", "sbInitTasks", "sbLock", "sbQueue"}

\* Record r is fit for thread x.
LocalsFit(x, r) ==
    /\ r.pc \in ResultPCs => x \in Workers /\ r.task \in Tasks /\ r.eid \in Execs
    /\ r.pc \in {"dwAppend", "skipWrite"} => r.task \in Tasks
    /\ r.pc \in {"cancelTx", "filter", "chkDone", "chkStatus", "setState", "skip", "skipWrite"} =>
            x # Daemon /\ r.wf \in Workflows
    /\ r.pc \in SubmitPCs => x \in Clients /\ r.wf \in Workflows
    /\ r.pc \in {"cancelTx", "setState"} => r.fin \in WfStates
    /\ r.pc \in {"dwRequeue", "dwAppend", "dwForget", "rcRequeue"} => x = Daemon

LocalsOK ==
    \A x \in Threads : /\ LocalsFit(x, thr[x])
                       /\ thr[x].pc # "idle" /\ x # Daemon => up

\* The main goroutine is in recovery exactly when the coordinator is starting.
PhaseOK ==
    /\ thr[Daemon].pc = "rcRequeue" => ~up
    /\ ~up => thr[Daemon].pc \in {"idle", "rcRequeue"}

\* A thread is at work on task t.
Handling(x, t) == thr[x].pc \in ResultPCs /\ thr[x].task = t

Releasing(x, t) == thr[x].pc = "ctClean" /\ t \in thr[x].out

Relisted(t) ==
    \/ thr[Daemon].pc \in {"dwRequeue", "dwAppend", "rcRequeue"} /\ t \in thr[Daemon].todo
    \/ thr[Daemon].pc = "dwAppend" /\ t = thr[Daemon].task

\* The task is in one of the places from which it can run or run again.
Touched(t) ==
    \/ InQueue(t)
    \/ runningTasks[t] # Nil \/ assignedTasks[t] # Nil
    \/ \E x \in Threads : Handling(x, t) \/ Releasing(x, t)
    \/ Relisted(t)

\* The root tasks a submission has still to queue.
Unqueued(c) ==
    IF thr[c].pc = "sbLock" THEN {t \in TasksOf(thr[c].wf) : Deps[t] = {}}
    ELSE IF thr[c].pc = "sbQueue" THEN thr[c].todo
    ELSE {}

\* A submission has stored its spec, and no other submits the same workflow.
SubmittersApart ==
    /\ \A c \in Clients : thr[c].pc \in SubmitPCs => thr[c].wf \in stored
    /\ \A c, d \in Clients : thr[c].pc \in SubmitPCs /\ thr[d].pc \in SubmitPCs
                             /\ thr[c].wf = thr[d].wf => c = d

\* The records of a workflow appear together, in InitializeTasksForWorkflow.
RecordsAppearTogether ==
    /\ \A t \in Tasks : WfOf[t] \notin stored => taskState[t] = "ABSENT"
    /\ \A c \in Clients, t \in Tasks :
            thr[c].pc \in {"sbInitWf", "sbInitTasks"} /\ thr[c].wf = WfOf[t] => taskState[t] = "ABSENT"
    /\ \A t, u \in Tasks : WfOf[t] = WfOf[u] /\ taskState[t] = "ABSENT" => taskState[u] = "ABSENT"

AbsentIsUntouched == \A t \in Tasks : taskState[t] = "ABSENT" => ~Touched(t)

RootsUntouched ==
    \A c \in Clients : \A t \in Unqueued(c) :
        /\ WfOf[t] = thr[c].wf /\ Deps[t] = {}
        /\ ~Touched(t) /\ execID[t] = Nil /\ taskState[t] \in {"PENDING", "SKIPPED"}

\* Only tasks with dependencies are unlocked, or met by the walk of
\* SkipDownstreamTasks.
WalksStayBelow(r) ==
    /\ r.pc = "ctClean" => \A t \in r.out : Deps[t] # {}
    /\ r.pc \in {"skip", "skipWrite"} =>
            /\ r.todo \subseteq r.seen
            /\ \A t \in r.seen : taskState[t] # "ABSENT" /\ Deps[t] # {}
    /\ r.pc = "skipWrite" => r.task \in r.seen

WaitingIsUnassigned ==
    \A t \in Tasks : taskState[t] \in {"ABSENT", "PENDING", "QUEUED"} => execID[t] = Nil

SubmitInv ==
    /\ SubmittersApart
    /\ RecordsAppearTogether
    /\ AbsentIsUntouched
    /\ RootsUntouched
    /\ \A x \in Threads : WalksStayBelow(thr[x])
    /\ WaitingIsUnassigned

-----------------------------------------------------------------------------
\* The ways thread record r keeps task t: it processes a result of t, is about
\* to append t once unlocked, has t on a list to requeue, or has requeued it.
Holds(r, t) == r.pc \in ResultPCs /\ r.task = t
Frees(r, t) == r.pc = "ctClean" /\ t \in r.out
Lists(r, t) == r.pc \in {"dwRequeue", "dwAppend", "rcRequeue"} /\ t \in r.todo
Appends(r, t) == r.pc = "dwAppend" /\ r.task = t

\* In any of these ways.
Keeps(r, t) ==
    \/ r.pc \in ResultPCs /\ r.task = t
    \/ r.pc = "ctClean" /\ t \in r.out
    \/ r.pc \in {"dwRequeue", "dwAppend", "rcRequeue"} /\ t \in r.todo
    \/ r.pc = "dwAppend" /\ r.task = t

\* The transaction of the result has not run yet.
BeforeTx == {"ctTx", "ftRead", "ftRequeue", "ftFail"}

StatesAt(p) ==
    IF p \in BeforeTx THEN {"RUNNING", "SKIPPED"}
    ELSE IF p = "ftRequeued" THEN {"QUEUED", "SKIPPED"}
    ELSE IF p = "ctClean" THEN {"COMPLETE"}
    ELSE {"FAILED"}

Listed(q, t) == \E i \in DOMAIN q : q[i] = t

\* Task t, with a record in state s under execution id e, entries rt and at in
\* runningTasks and assignedTasks, ready queue q and threads T, is in at most
\* one place, and its record fits the place.
TokenFit(t, s, e, rt, at, q, T) ==
    /\ rt = Nil <=> at = Nil
    /\ \A w \in Workers : Holds(T[w], t) =>
            /\ rt = w /\ at = T[w].eid /\ s \in StatesAt(T[w].pc)
            /\ T[w].pc \in BeforeTx => e = T[w].eid
    /\ at # Nil /\ (\A w \in Workers : ~Holds(T[w], t)) => s \in {"RUNNING", "SKIPPED"} /\ e = at
    /\ Listed(q, t) =>
            /\ rt = Nil /\ s \in {"QUEUED", "SKIPPED"}
            /\ ~Lists(T[Daemon], t) /\ ~Appends(T[Daemon], t)
            /\ \A x \in Threads : ~Frees(T[x], t)
    /\ \A x \in Threads : Frees(T[x], t) =>
            /\ rt = Nil /\ s \in {"QUEUED", "SKIPPED"}
            /\ ~Lists(T[Daemon], t) /\ ~Appends(T[Daemon], t)
            /\ \A y \in Threads : Frees(T[y], t) => x = y
    /\ Lists(T[Daemon], t) => rt = Nil /\ s \in {"RUNNING", "SKIPPED"} /\ ~Appends(T[Daemon], t)
    /\ Appends(T[Daemon], t) => rt = Nil /\ s \in {"QUEUED", "SKIPPED"}

TokenOK(t) ==
    TokenFit(t, taskState[t], execID[t], runningTasks[t], assignedTasks[t], readyQueue, thr)

QueueDistinct == \A i, j \in DOMAIN readyQueue : readyQueue[i] = readyQueue[j] => i = j

\* An assignment sent to a worker is in runningTasks under that worker, if it
\* is the current one; and nothing runs while the coordinator is down.
MapsOK ==
    /\ \A w \in Workers, t \in Tasks, e \in Execs :
            <<w, t, e>> \in held /\ assignedTasks[t] = e => runningTasks[t] = w
    /\ ~up => \A t \in Tasks : runningTasks[t] = Nil

\* The task has been unlocked: its record says so, or it is in a place.
Placed(t) == taskState[t] \in {"QUEUED", "RUNNING", "COMPLETE", "FAILED"} \/ Touched(t)

PlacedIsReady == \A t \in Tasks : Placed(t) => \A d \in Deps[t] : taskState[d] = "COMPLETE"

\* The walk of SkipDownstreamTasks, in a thread at record r and with records in
\* states S, is among tasks that cannot be unlocked.
WalkFit(r, S) ==
    r.pc \in {"skip", "skipWrite"} =>
        \A t \in r.seen : /\ S[t] \in {"PENDING", "SKIPPED"}
                          /\ \E d \in Deps[t] : d \in r.seen \/ S[d] = "FAILED"

TokenInv ==
    /\ \A t \in Tasks : TokenOK(t)
    /\ QueueDistinct
    /\ MapsOK
    /\ PlacedIsReady
    /\ InDegreeExact
    /\ \A x \in Threads : WalkFit(thr[x], taskState)

-----------------------------------------------------------------------------
\* Nothing cancels the workflow: no client call and no FAIL_FAST policy.
Plain(wf) == wf \notin Cancels /\ Policy[wf] # "FAIL_FAST"

\* Task t is never going to be unlocked: it waits or is skipped, among tasks
\* each of which depends on another one of them or on a failed task.
Blocked(t) ==
    \E B \in SUBSET Tasks :
        /\ t \in B
        /\ \A u \in B : /\ taskState[u] \in {"PENDING", "SKIPPED"}
                        /\ \E d \in Deps[u] : d \in B \/ taskState[d] = "FAILED"

HasFailure(wf) == \E t \in TasksOf(wf) : taskState[t] = "FAILED"

Done(wf) == TasksOf(wf) # {} /\ \A t \in TasksOf(wf) : taskState[t] \in Terminal

\* What a thread that is about to settle a plain workflow, or to skip its
\* tasks, knows of the records.
SettlePCs == {"cancelTx", "filter", "skip", "skipWrite", "chkDone", "chkStatus", "setState"}

Settling(r) ==
    /\ r.pc \in {"skip", "skipWrite"} => r.seen \subseteq TasksOf(r.wf)
    /\ r.pc \in SettlePCs /\ Plain(r.wf) =>
        /\ r.pc # "cancelTx"
        /\ r.pc \in {"skip", "skipWrite"} => HasFailure(r.wf)
        /\ r.pc \in {"skip", "skipWrite", "filter"} => r.fin = Nil
        /\ r.pc \in {"chkStatus", "setState"} => Done(r.wf)
        /\ r.pc = "setState" => r.fin = FinalState(r.wf)
        /\ Recorded(r.wf) # {}

\* In a plain workflow a task is skipped for a failure, and the workflow is
\* settled by what its tasks say.
VerdictInv ==
    /\ \A t \in Tasks : taskState[t] = "SKIPPED" /\ Plain(WfOf[t]) => Blocked(t) /\ HasFailure(WfOf[t])
    /\ \A x \in Threads : Settling(thr[x])
    /\ \A wf \in Workflows : Plain(wf) =>
            \/ wfState[wf] \in {"ABSENT", "RUNNING"}
            \/ Done(wf) /\ wfState[wf] = FinalState(wf)

\* Interrupted tasks are found: a RUNNING task is in runningTasks or on the
\* list of what the monitor or recovery has still to requeue.
Loaded == up \/ thr[Daemon].pc = "rcRequeue"

WatchInv ==
    Loaded => \A t \in Tasks : taskState[t] = "RUNNING" => runningTasks[t] # Nil \/ Lists(thr[Daemon], t)

\* Before a submission has the lock, none of its tasks has been queued.
Fresh(c) ==
    thr[c].pc = "sbLock" => \A t \in TasksOf(thr[c].wf) : taskState[t] \in {"PENDING", "SKIPPED"}

Reachable(t) ==
    \/ InQueue(t)
    \/ \E x \in Threads : Frees(thr[x], t)
    \/ Busy(t, "ftRequeued") \/ Busy(t, "dwAppend")

\* What a thread that filters the queue removes: tasks that stay skipped, or
\* tasks of the workflow it is about to stop.
Filters(r) ==
    /\ r.pc \in {"skip", "skipWrite"} => r.fin = Nil
    /\ r.pc \in {"skip", "skipWrite", "filter"} /\ r.fin = Nil => \A t \in r.out : Blocked(t)
    /\ r.pc = "filter" /\ r.fin # Nil => r.out \subseteq TasksOf(r.wf)
    /\ r.fin # Nil => r.pc \in {"cancelTx", "filter", "setState"} /\ r.fin \in WfStates \ {"RUNNING"}

ReachInv ==
    /\ Loaded => \A t \in Tasks : taskState[t] = "QUEUED" /\ ~Stopping(WfOf[t]) => Reachable(t)
    /\ Loaded => \A wf \in stored : wfState[wf] = "RUNNING" =>
            \/ wf \in cached
            \/ \E c \in Clients : thr[c].pc \in {"sbInitTasks", "sbLock"} /\ thr[c].wf = wf
    /\ \A wf \in Workflows : wfState[wf] = "RUNNING" => wf \in stored
    /\ \A c \in Clients : Fresh(c)
    /\ \A x \in Threads : Filters(thr[x])

\* The walk of SkipDownstreamTasks comes to a task only from one that failed
\* or has been skipped.
WalkBelow(r) ==
    LET Below(t) == \E d \in Deps[t] : taskState[d] \in {"FAILED", "SKIPPED"}
    IN  /\ r.pc = "skip" => \A t \in r.todo : Below(t)
        /\ r.pc = "skipWrite" => Below(r.task) /\ \A t \in r.todo : Below(t) \/ r.task \in Deps[t]

LifeInv ==
    /\ \A x \in Threads : WalkBelow(thr[x])
    /\ \A wf \in Workflows : wf \notin stored => wfState[wf] = "ABSENT"
    /\ \A c \in Clients : thr[c].pc = "sbInitWf" => wfState[thr[c].wf] = "ABSENT"
    /\ \A c \in Clients : thr[c].pc = "sbInitTasks" => wfState[thr[c].wf] = "RUNNING"
    /\ \A t \in Tasks : taskState[t] # "ABSENT" => wfState[WfOf[t]] # "ABSENT"

TypeInv == TypeOK /\ LocalsOK /\ PhaseOK
=============================================================================
