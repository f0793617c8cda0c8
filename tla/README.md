# Verification of dag-scheduler

TLA+ specifications of the DAG task scheduler in `src/`, the TLC runs that check
them on small instances, and TLAPS proofs for instances of any size. The models
are written from the Go code; where the code and its documentation disagree, the
models follow the code and a run shows the disagreement.

## The system

A client submits a workflow: tasks with dependencies and a failure policy. The
coordinator validates it, stores it in BoltDB, and keeps a FIFO of ready tasks in
memory. Workers hold a bidirectional stream, ask for tasks, run them and report.
A completion unlocks the tasks below it; a failure is retried or handled by the
workflow's policy. Workers that stop heartbeating are declared dead and their
tasks run again. After a coordinator crash the queue is rebuilt from the store.

| Part | Source | State | Operations |
|---|---|---|---|
| State store | `internal/store` | task records (state, execution id, in-degree, attempts), workflow states, specs | one BoltDB transaction each: store, initialise, assign, complete, fail, requeue, cancel, update |
| Coordinator | `internal/coordinator/coordinator.go` | `readyQueue`, `runningTasks`, `assignedTasks`, spec caches, all under `c.mu` | submit, hand out, complete, fail, failure policy, settle, cancel, dead worker |
| Recovery | `recovery.go`, `cmd/coordinator/main.go` | none of its own | load the queue, requeue interrupted tasks, start |
| Heartbeat monitor | `heartbeat.go` | last heartbeat per worker | heartbeat, scan, remove |
| Stream handler | `internal/worker` | one goroutine per worker | request, heartbeat, result: one message at a time |
| Worker | `cmd/worker` | running tasks, current stream | poll, execute, report, reconnect |
| DAG resolver | `dag.go` | a DAG per submission | validate, detect cycles, in-degrees, downstream lists |
| Serialization | `internal/store/serialization.go` | | record encoding and decoding |
| Status readers | `cmd/cli`, `cmd/coordinator` | | status call, dashboard, `status --watch` |
| Watchdog, metrics | | | read and log |

What makes it hard: every handler holds `c.mu` and the store's write lock only
in pieces, so a result, a dead-worker verdict, a cancellation, a retry and a
submission interleave between any two of them; the queue and the maps are in
memory while the records are on disk, so every handler updates them in two
places; and a crash may fall between any two transactions.

What should hold: a task runs after its dependencies and never before; a
completion is counted once; a late result of an execution that was given up
cannot complete the task; a task that is ready is reachable by some worker or
thread; a running task can be taken from a dead worker; results are final; a
workflow's verdict is what its tasks say, and so is the last reply a client sees;
a dead worker is found in time and a live one is left alone; a DAG is accepted
exactly when it has no cycle; records are read back as written; and everything
submitted ends.

## Modules

| Module | Models |
|---|---|
| `StateStore` | the BoltDB buckets and each write transaction as an action operator `Tx...` |
| `ReadyQueue` | operators on the ready queue: filter, arbitrary order |
| `Coordinator` | coordinator, recovery, heartbeat monitor, stream handlers, and workers as their environment; the properties |
| `TaskLifecycle` | the abstract specification: one atomic step per promised transition |
| `StatusReader` | a client that follows a workflow with `GetWorkflowStatus`, composed with `Coordinator` |
| `Losses` | `Coordinator` with a history variable for the assignments lost with a stream or a worker; the liveness properties |
| `DagResolver` | `ValidateAndSort` and `hasCycle`, one loop turn or call at a time, in every map order |
| `Serialization` | the encoding of task records and workflow states |
| `DagExecution` | a validated DAG executed through its records, one handler at a time |
| `HeartbeatMonitor` | the monitor with clocks: ages, threshold, scan ticker, both removals |
| `WorkerLoop` | a worker's goroutines, the stream's bounded windows, the handler's loop |
| `WorkerStream` | composition of `WorkerLoop`, `HeartbeatMonitor` and what they use of the coordinator |
| `CoordinatorInvariant` | the inductive invariants |
| `CoordinatorProofs` | lemmas the proofs about `Coordinator` share (queue operators, threads, blocked tasks); every step keeps the types |
| `SubmitProofs` | every step keeps `SubmitInv` |
| `TokenProofs` | steps of handlers, clients and the monitor keep `TokenInv` |
| `LifecycleProofs` | every step keeps `VerdictInv`, and is a step of `TaskLifecycle` |
| `ReachProofs` | every step keeps `WatchInv` and `ReachInv` |
| `SafetyProofs` | crashes, recovery and failed transactions keep `TokenInv`; status replies; the safety theorems |
| `StreamProofs` | theorems about `WorkerStream` |
| `DagProofs` | theorems about `DagResolver` |
| `MCCoordinator`, `MCStatus`, `MCLosses`, `MCDagExecution` | instances for TLC |

The next four paragraphs are about `StateStore`, `Coordinator` and `StatusReader`.

**State.** The record of a task is four functions (`taskState`, `execID`,
`inDegree`, `attempts`), `wfState` and `stored` are the two other buckets.
`readyQueue`, `runningTasks` and `assignedTasks` are the coordinator's fields,
`cached` the workflows whose specs are in its three cache maps, `tracked` the
keys of the monitor's map. `thr` holds the program counter and locals of every
goroutine: one per worker stream, one per client call, and `Daemon`, which is the
main goroutine during recovery and the monitor afterwards. `held` is the set of
assignments out at workers.

**Steps.** One action is one critical section of `c.mu` or one store transaction,
including everything the code does in it. `CompleteTask`, for example, is
`CompleteTask` (check under the lock), `CompleteTaskTx` (transaction),
`CompleteTaskClean` (maps and queue under the lock), `CheckDone`,
`CheckStatuses`, `SetWorkflowState`. Only `SubmitWorkflow` holds the lock over
several transactions; `mu` names the call that does, and every step that needs
the lock waits for it. Go map iteration orders are arbitrary orders
(`Orders`).

**Execution ids.** A new UUID is an element of `Execs` that nothing refers to
any more. The ids that `RequeueTask` writes are never given to a worker, nor is
the empty id of a new record; both are `Nil`.

**Workers and failures.** A worker asks, heartbeats, and reports each assignment
once on the stream it came on, with an outcome from `Outcome`. `Mortal` workers
crash, `Breakable` ones lose their stream and reconnect, `Slow` ones may be
declared dead while they run. `CrashCoordinator` lets the coordinator crash at
any step, also during recovery; `StoreFaults` lets any write transaction fail;
`Overlap` lets the monitor declare a worker dead while the coordinator is between
two steps of a result of that same worker, which needs a result to be processed
for longer than the time to the next scan. `StatusReader` adds a client whose
calls read the workflow state and the task records in two transactions; a crash
ends a call.

**DAG, records, execution.** `DagResolver` keeps the maps of the `DAG` struct, the
colours, and the call stack of `visit`; `todo` is what a map iteration has still to
yield. `DagExecution` continues with the accepted DAG: records as
`InitializeTasksForWorkflow` makes them, then assignments, completions that walk the
downstream list entry by entry, failures with their skip walk, and the completion
check. Here dependency lists are lists, with repeated entries; `Coordinator` has the
interleavings, over dependency sets. `Serialization` encodes a record into cells, one
per number and one per byte of a string, and decodes it as the Go readers do, with
their behaviour at the end of the data.

**Worker, stream, monitor.** In `WorkerLoop`, `sending` and `reply` are the messages
whose `Send` waits for the window, `sleep` is what is left of the wait on `NoTask`,
`execs` are the `executeTask` goroutines. Time advances in request periods, and only
when nothing that takes no time is left to do. In `HeartbeatMonitor` times are ages:
a heartbeat ages in the worker's queue, on the stream and in the map, and starts at
`Skew`, by which the worker's clock is behind. `WorkerStream` adds ready and assigned
tasks, and the ghosts `goneFor` (time since the crash) and `waited` (a send had to
wait).

## Runs

Execution ids are symmetric in the safety runs of `Coordinator`; so are the workers
where all of them may fail alike, and the client calls of `cancel_faults`. Deadlock is
checked in every run but `dag_execution`, where an execution ends.

| Run | Instance | Shows |
|---|---|---|
| `join_crash` | `MCStatus`: join of 3 tasks, SKIP_DOWNSTREAM, retries, slow workers, crashes, a client that follows | in-degrees are exact, the queue has no duplicate and no started task, running tasks are watched, queued tasks are reachable, memory and store name the same execution, verdicts are justified, the client's last reply adds up and stays true, and every step refines `TaskLifecycle` |
| `cancel_faults` | `MCCoordinator`: chain of 2, 2 concurrent client calls, failing transactions, a worker that is slow or dies, one that loses its stream, retries, crashes | dependencies first, results final, no late result can complete a task that waits again |
| `progress` | `MCLosses`: a workflow of two tasks under SKIP_DOWNSTREAM or one under FAIL_FAST, fairness, a worker that loses its stream or dies | queued tasks get a result and workflows are settled, unless a task is stranded for good |
| `dag_execution` | `MCDagExecution`: all specs of up to 3 tasks with lists of up to 2 entries, 125 four-task graphs | verdicts are right, gray tasks are the call chain, in-degrees and downstream lists agree, exactly the tasks below a failure are skipped, records are read back, accepted workflows are settled |
| `worker_stream` | `WorkerStream`: 1 task, windows of 1, a break, crashes, a clock 1 behind | detection within `scan-interval + dead-threshold` less the skew, no false death without full windows, no lost slot, no mutual blocking |
| `v_terminal` | violation | SKIPPED is not final: a task cancelled in the store is assigned before it leaves the queue |
| `v_unlock` | violation | a completion counted twice unlocks a join early |
| `v_stale_failure` | violation | a failure report is applied to a newer execution |
| `v_duplicate` | violation | a second submission resets running tasks |
| `v_retries` | violation | the retry limit is never reached, since the attempt count is not stored |
| `v_settle` | violation | a crash after the last completion leaves the workflow RUNNING for ever |
| `v_capacity` | violation | a worker that slept on `NoTask` runs more tasks than its capacity |

**Stranded tasks.** `QueuedUnlessStranded` and `SettledUnlessStranded` except a task
only if it stays stranded for ever (`[]Stranded(t)`): its assignment or its result
was lost with a stream or a worker, which the history variable `lost` of `Losses`
records when it happens, and no verdict is due, because the worker has reconnected and
heartbeats on or died before its first heartbeat. Such a task stays RUNNING until a
restart of the coordinator. A report that reaches `CompleteTask` or `FailTask` is not
lost, so a handler that dropped a valid one would violate both properties.
`WaitingIsServed` makes the same exception (`Traceable`).

**Skipped, then queued again.** `HandleDeadWorker` takes a task out of the maps and
requeues it in a later transaction that does not look at its state. If FAIL_FAST
cancels the workflow in between, the task goes from SKIPPED to QUEUED, and the
cancellation may then filter it out of the ready queue: it stays QUEUED in a workflow
that is FAILED. The workflow is settled all the same; `QueuedUnlessStranded` names
this case (`FailedFast`).

**Heartbeats behind requests.** `recvLoop` sleeps for a second on every `NoTask`, while
requests go out every 100 ms and are all answered. An idle worker therefore collects
answers nine times faster than it reads them. An assignment then starts only after the
answers before it, and once the windows of the stream are full the handler blocks in
`Send`, heartbeats wait behind requests, and a healthy worker can be declared dead.
`FalseDeathNeedsBacklog` says that on an unbroken stream no live worker is declared
dead unless some send or reply has had to wait for a full window before;
`WaitingIsServed` that nothing is blocked for ever. A verdict may come again and again,
so the tasks of such a worker may be executed several times before one result counts.

**Bounds.** Three tasks are the smallest join, which two completions race to unlock; a
chain of two is the smallest graph with something to cancel or skip below a failure. In
`progress` the two tasks of a workflow are independent: their handlers race for the lock
and the queue, and for being the one that sees the workflow complete or that cancels it.
Either of two workflows is submitted there, one per policy, not both (`OneSubmission`).
That an unlocked task is not forgotten is `QueuedIsReachable` in `join_crash` under
interleavings and `AcceptedSettles` as liveness. Two workers are needed for an execution
that outlives its reassignment. There are more execution ids than assignments that can
be out or remembered at once, so no worker of `Coordinator` waits for a free id. Three
tasks with lists of two entries have every kind of repetition, self reference, unknown
id and cycle; four are needed for paths that part and join. Texts of a record include
the empty one and one with a zero byte. In `worker_stream` windows of one message fill
after one answer, where the real ones take thousands; a threshold of two periods and a
scan every period keep the order heartbeat < threshold, and two ids allow an execution
that was given up beside the current one; when both are in use a request is answered
with `NoTask`. `v_capacity` has two tasks for a capacity of one.

**Fairness.** A goroutine in a call goes on and recovery ends (weak fairness on their
steps). A live worker polls every 100 ms for ever. That it reports what it runs is an
assumption on the environment, that every command ends: `executeTask` sets a timeout
only for a task with a positive `timeout_seconds`. The handler may be busy between two
messages, hence strong fairness on taking a task and on a result. The monitor scans for
ever, so a tracked worker that crashed is found (weak fairness). Nothing is assumed of
clients, heartbeats, crashes or errors. `worker_stream` assumes the same of goroutines,
the monitor and time, that a disconnected worker reconnects, and, strongly, that each
command ends (the same assumption) and its result gets a place in a window that opens
again and again. `dag_execution` assumes that some step is taken while one is possible.

**`Overlap`.** The passing runs exclude it: with it, `v_unlock` and `v_stale_failure`
show what goes wrong. Of the theorems, `TypeCorrect` and `LateResultsRejected` cover it.

## Proofs

| Theorem | States | Assumes |
|---|---|---|
| `TypeCorrect` | `TypeOK` | |
| `LateResultsRejected` | `ZombieCannotComplete` | `Resubmits = {}` |
| `DependenciesComeFirst` | `DependenciesFirst` | `Resubmits = {}`, `Overlap = FALSE` |
| `InDegreesCount` | `InDegreeExact` | same |
| `QueueIsSound` | `QueueSound` | same |
| `ChecksAgree` | `AssignmentsAgree` | same |
| `ResultsStay` | `ResultsAreFinal` (an action property) | same |
| `VerdictsStand` | `VerdictStands` | same |
| `FinalRepliesStand` | `FinalReplyStands`, for `StatusSpec` | same |
| `RunningTasksAreWatched` | `RunningIsWatched` | same, and `StoreFaults = FALSE` |
| `QueuedTasksAreReachable` | `QueuedIsReachable` | same, and `StoreFaults = FALSE` |
| `LifecycleImplemented` | `LifecycleRefined` (a refinement) | same, `StoreFaults = FALSE`, `Cancels = {}`, no FAIL_FAST policy |
| `SlotsAreReturned` | `NoSlotLeak` | |
| `CrashIsFound` | `DetectionBound` | |
| `FalseDeathsExplained` | `FalseDeathNeedsBacklog` | `Skew + HeartbeatPeriod <= DeadThreshold` |
| `VerdictIsRight` | `VerdictCorrect` | |
| `GrayTasksAreCalls` | `GrayIsCallChain` | |

Beside that they use the `ASSUME`s of the modules, which fix the kinds of the
constants. Those about `Coordinator` hold for any finite set of tasks with any
dependencies, and any workflows, workers, calls, execution ids, policies, retry
limits and faults; those about `WorkerStream` for any windows, capacity, periods,
threshold, skew and number of breaks; those about `DagResolver` for any set of specs of
any length. None of them uses fairness.

`Resubmits = {}` says that no workflow id is submitted twice, `Overlap = FALSE` that a
result is processed before the monitor's next scan. The code enforces neither:
`v_duplicate`, `v_unlock` and `v_stale_failure` show what happens otherwise.

`StoreFaults = FALSE` says that no write transaction fails; crashes between
transactions remain. The three theorems need it, since the code gives up what it could
not write: a task whose requeue fails in `HandleDeadWorker` stays RUNNING and is in no
map; one whose assignment fails in `GetReadyTask` stays QUEUED and has left the queue;
and `SkipDownstreamTasks` goes on below a task it could not skip. The refinement also
needs that nothing is cancelled: `CancelWorkflowTasks` skips many tasks at once, and
some of them may still run afterwards (`v_terminal`), which is not the lifecycle the
documentation promises.

`FalseDeathsExplained` assumes that the dead threshold is at least a heartbeat period
plus what the worker's clock is behind; the default flags have a threshold of several
periods.

**Types.** `TypeOK` is not inductive: whether the store and the queue keep their types
depends on the locals a thread carries from one step to the next. `TypeInv` adds
`LocalsOK` (at each label the locals that label uses are set, and the label belongs to
that kind of thread) and `PhaseOK` (the main goroutine is in recovery exactly while the
coordinator is starting). `StepFits` shows once that a step of one thread keeps both,
and there is one lemma for each group of actions.

**Late results.** With crashes, store errors, broken streams and any `Overlap`, no
execution that is still out has the id in the record of a task that waits, so the
execution-id check of `CompleteTask` rejects its result. The core is
`WaitingIsUnassigned`: a record that is PENDING or QUEUED carries no execution id. It is
not inductive, because `SubmitWorkflow` writes QUEUED over the record of a root task
without clearing the id. `SubmitInv` adds why that task cannot have been assigned in
between: records of a workflow appear together (`RecordsAppearTogether`), a task without
a record is in no queue, map or thread (`AbsentIsUntouched`), neither are the root tasks
a submission has still to queue (`RootsUntouched`), and a skip walk stays below tasks
that have dependencies (`WalksStayBelow`). Two submissions never share a workflow
(`SubmittersApart`), which is where the assumption is used. The steps outside a
submission all go by `QuietStep`: a step that moves only tasks already known to some
place (`Calm`) and leaves its thread with known tasks only (`Harmless`) keeps
`SubmitInv`.

**One place for every task.** Dependencies, in-degrees, the queue, the two checks and
final results stand and fall together, since each handler relies on what the others left
behind. Their inductive invariant is `TokenInv`. A task is a token: it is in the ready
queue, or in the maps under a worker, or with the thread that has unlocked it and not
yet appended it, or on the list of tasks that the main goroutine or the monitor
requeues; it is in at most one of these, and its record is in a state that fits
(`TokenFit`). A result that is being processed keeps the token in the maps, and
`StatesAt` says what the record may be at each label: RUNNING or, after a cancellation,
SKIPPED before the transaction, what the transaction wrote after it. A task that has a
place or has started has all its dependencies COMPLETE (`PlacedIsReady`), and the
in-degrees count the others (`InDegreeExact`), so that the completion that finds 0 is
the last one. A skip walk meets only tasks that cannot be unlocked any more (`WalkFit`),
hence cannot skip a task that is queued. Each action has a lemma that shows `TokenInv'`
together with `Moves`, what a step may do to a record; most go by one of `FreeStep` (a
thread without a task takes a step), `HoldStep` (a thread goes on with its result) and
`TaskStep` (one task changes place). `SubmitInv` is used for submissions: the tasks they
queue have no place yet.

**Verdicts.** `checkWorkflowCompletion` decides in one transaction that all tasks are
terminal, reads their states in a second and writes the verdict in a third. `VerdictInv`
says what makes that safe in a workflow that nothing cancels (`Plain`): a SKIPPED task is
`Blocked`, that is, it belongs to a set of waiting or skipped tasks each of which depends
on another one of the set or on a failed task. No completion can unlock a member of such a
set (`BlockedStays`), so terminal states stay (`TerminalStays`), and a thread between its
reads and its write (`Settling`) still has what it read. In the same way
`GetWorkflowStatus` reads a final state first and the records later: `ViewInv` says that
by then the records are terminal and will not change, and `CountsAddUp` that their groups
add up.

**No task is forgotten.** `WatchInv` is `RunningIsWatched` with the tasks that recovery
has still to requeue (`Loaded`). `ReachInv` says in which places a QUEUED task may be. A
filter of the queue is what could lose it, so `Filters` says what a thread may filter out:
blocked tasks, or tasks of a workflow whose cancellation is recorded in the thread. A task
is dropped by `GetReadyTask` when the specs of its workflow are not cached; `ReachInv`
therefore adds that a RUNNING workflow is cached once the state is loaded, except while
it is being submitted, when none of its tasks has been queued (`Fresh`).

**The lifecycle.** With the identity on the records as refinement mapping, each action is
shown to be one step of `TaskLifecycle` or to leave the records alone (`EveryLifeStep`).
`TokenInv` gives most of it: `CompleteTask` unlocks exactly the tasks for which it was
the last dependency because in-degrees are exact, and a requeue finds its task RUNNING.
`VerdictInv` gives `Settle`. `LifeInv` adds that a skip walk comes to a task only from
one that is FAILED or SKIPPED (`WalkBelow`), and how the records of a workflow and of its
tasks appear.

TLC finds `TypeInv`, `SubmitInv`, `TokenInv` and `VerdictInv` invariant on the instances
of `join_crash` and `cancel_faults`, `LifeInv` on the former, and `WatchInv` and
`ReachInv` on the former and, without failing transactions, on the latter.

**Queue operators.** Filtering yields a sequence of the same kind that keeps exactly the
other members and stays free of duplicates (`WithoutProperties`), and an arbitrary order
lists every member of its set once (`OrdersProperties`). That the rank-based filter
equals the usual one is evaluated by TLC over all short queues (`WithoutFilters`).

**Worker and monitor.** The slots follow from the types of the messages and executions
(`StreamType`). For the detection time, `CrashInv` says that after a crash no heartbeat
is on its way and the entry is at least as old as the crash plus the skew, and that the
time since the crash and the time to the next scan are together within the bound. For
false deaths, `SteadyInv` says that on an unbroken stream on which nothing had to wait
an entry is replaced before it is older than a heartbeat period: the entry's age and the
time to the next heartbeat are together at most a period plus the skew.

**Cycle detection.** `BuildInv` says that the maps hold exactly the tasks read so far.
`SearchInv` ties colours and calls: the frames of `visit` are the gray tasks, without
repetition, each called for the last dependency its caller looked at, and all
dependencies looked at before are black (`CallsFit`). That black tasks have no cycle is
stated without induction: every set of black tasks has a member that depends on none of
the set (`Sorted`). It holds when a task turns black, since its dependencies were black
before; and a gray task met again closes a cycle of frames.

**Model-checked only.** The liveness properties, which need fairness. `UnlockExact`,
`SkipWalkExact` and `RecordsReadBack`: they compare what loops over lists and recursive
decoders compute with a reference, for which a proof needs induction over the lists.

## Not modelled

- A worker clock that is ahead, which delays detection by as much; several workers in
  `WorkerStream`, whose streams share only the coordinator.
- Concurrent `Send` calls of `runOnce` and `executeTask` on one stream, which gRPC does
  not allow: sends are atomic and in any order here.
- A second stream handler for a worker that reconnects while the first one still
  processes a result; graceful stop, which waits for open worker streams; a worker
  stopped by a signal.
- That `WorkerStream` implements the worker environment of `Coordinator` is not checked:
  each has the messages and verdicts the other abstracts from.
- Read errors of the store and damaged records. A record written before downstream
  lists existed is decoded with an empty list (`RecordsReadBack`), and its completion
  then unlocks nothing.
- Task ids shared by two workflows. Workflows without tasks are accepted and never
  settled; `AcceptedSettles` excludes them.
- The encoding of worker records and `StoreWorker`, which have no caller. The watchdog
  and metrics, which change nothing and are read by nobody in the system; the HTML page
  and the printing of the CLI; generated protocol code but for its enumerations.
- Root tasks that a crash in the middle of a submission leaves PENDING, which nobody
  queues: the steps are in the model, and no run states it.

## Plan

A lifecycle for cancelled and FAIL_FAST workflows, whose tasks may still be assigned and
get results after they were skipped (`v_terminal`), and the refinement for those.
