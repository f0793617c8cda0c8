------------------------------ MODULE StateStore ------------------------------
(***************************************************************************)
(* The persistent state of the scheduler (internal/store).  BoltDB admits  *)
(* one write transaction at a time, so each transaction is one atomic      *)
(* action here; the modules that use the store conjoin these actions with  *)
(* what their own step does.                                               *)
(*                                                                         *)
(* A record of the task_state bucket is kept as four functions of the      *)
(* task.  Its WorkflowID and DownstreamTaskIDs never change after          *)
(* InitializeTasksForWorkflow, so they are the constants WfOf and Deps.    *)
(***************************************************************************)
EXTENDS Integers, Sequences, FiniteSets

CONSTANTS
    Workflows,      \* workflow ids clients submit
    Tasks,          \* task ids, over all workflows
    Workers,        \* worker ids
    Execs,          \* execution ids handed to workers (UUIDs)
    WfOf,           \* the workflow of a task
    Deps,           \* the dependencies of a task, as a set of task ids
    Nil             \* no value

\* Task ids are unique over all workflows: the bucket is keyed by the task id.
ASSUME StoreAssumption ==
    /\ WfOf \in [Tasks -> Workflows]
    /\ Deps \in [Tasks -> SUBSET Tasks]
    /\ \A t \in Tasks : \A d \in Deps[t] : WfOf[d] = WfOf[t]
    /\ IsFiniteSet(Tasks)
    /\ Nil \notin Tasks \cup Workers \cup Execs \cup Workflows

TaskStates == {"PENDING", "QUEUED", "RUNNING", "COMPLETE", "FAILED", "SKIPPED"}
Terminal == {"COMPLETE", "FAILED", "SKIPPED"}
WfStates == {"RUNNING", "COMPLETE", "FAILED", "CANCELLED"}

VARIABLES
    taskState,      \* State of the task's record; "ABSENT" without a record
    execID,         \* ExecutionID of the record.  Nil stands for an id no
                    \* worker was ever given: the empty one of a new record
                    \* and the one RequeueTask generates
    inDegree,       \* InDegree of the record
    attempts,       \* AttemptCount of the record
    wfState,        \* State in the workflow_state bucket, or "ABSENT"
    stored          \* the workflows with a spec in the workflows bucket

taskVars == <<taskState, execID, inDegree, attempts>>
dbVars == <<taskState, execID, inDegree, attempts, wfState, stored>>

TasksOf(wf) == {t \in Tasks : WfOf[t] = wf}
Downstream(t) == {u \in Tasks : t \in Deps[u]}

\* The tasks of a workflow that have a record (GetTasksForWorkflow).
Recorded(wf) == {t \in TasksOf(wf) : taskState[t] # "ABSENT"}

StoreTypeOK ==
    /\ taskState \in [Tasks -> TaskStates \cup {"ABSENT"}]
    /\ execID \in [Tasks -> Execs \cup {Nil}]
    /\ inDegree \in [Tasks -> Nat]
    /\ attempts \in [Tasks -> Nat]
    /\ wfState \in [Workflows -> WfStates \cup {"ABSENT"}]
    /\ stored \in SUBSET Workflows

StoreInit ==
    /\ taskState = [t \in Tasks |-> "ABSENT"]
    /\ execID = [t \in Tasks |-> Nil]
    /\ inDegree = [t \in Tasks |-> 0]
    /\ attempts = [t \in Tasks |-> 0]
    /\ wfState = [wf \in Workflows |-> "ABSENT"]
    /\ stored = {}
-----------------------------------------------------------------------------
TxStoreWorkflow(wf) ==
    /\ stored' = stored \cup {wf}
    /\ UNCHANGED <<taskVars, wfState>>

\* InitWorkflowState and UpdateWorkflowState both put the record, whether or
\* not there was one and whatever state it was in.
TxSetWorkflowState(wf, s) ==
    /\ wfState' = [wfState EXCEPT ![wf] = s]
    /\ UNCHANGED <<taskVars, stored>>

\* Every task of the workflow gets a new record, over any old one.
TxInitializeTasks(wf) ==
    /\ taskState' = [t \in Tasks |-> IF WfOf[t] = wf THEN "PENDING" ELSE taskState[t]]
    /\ execID' = [t \in Tasks |-> IF WfOf[t] = wf THEN Nil ELSE execID[t]]
    /\ inDegree' = [t \in Tasks |-> IF WfOf[t] = wf THEN Cardinality(Deps[t]) ELSE inDegree[t]]
    /\ attempts' = [t \in Tasks |-> IF WfOf[t] = wf THEN 0 ELSE attempts[t]]
    /\ UNCHANGED <<wfState, stored>>

TxUpdateTaskState(t, s) ==
    /\ taskState' = [taskState EXCEPT ![t] = s]
    /\ UNCHANGED <<execID, inDegree, attempts, wfState, stored>>

\* The record becomes RUNNING whatever its state was.
TxAssignTask(t, e) ==
    /\ taskState' = [taskState EXCEPT ![t] = "RUNNING"]
    /\ execID' = [execID EXCEPT ![t] = e]
    /\ UNCHANGED <<inDegree, attempts, wfState, stored>>

\* The downstream tasks whose last dependency is t: the ready list that
\* CompleteTask returns.  Only PENDING tasks are touched.
MutUnlocks(t) ==
    {u \in Downstream(t) : taskState[u] = "PENDING" /\ inDegree[u] <= 2}
Unlocks(t) ==
    {u \in Downstream(t) : taskState[u] = "PENDING" /\ inDegree[u] <= 1}

\* A second completion under the same execution id changes nothing.
Unlocked(t) == IF taskState[t] = "COMPLETE" THEN {} ELSE Unlocks(t)

\* The tasks whose in-degree drops by one; it never drops below zero.
MutDecremented(t) == {}
Decremented(t) ==
    {u \in Downstream(t) : taskState[t] # "COMPLETE" /\ taskState[u] = "PENDING" /\ inDegree[u] > 0}

\* One transaction: the task becomes COMPLETE, the in-degree of its PENDING
\* downstream tasks drops by one, and those at zero become QUEUED.
TxCompleteTask(t, e) ==
    /\ execID[t] = e
    /\ taskState' = [u \in Tasks |-> IF u = t THEN "COMPLETE"
                                     ELSE IF u \in Unlocked(t) THEN "QUEUED"
                                     ELSE taskState[u]]
    /\ inDegree' = [u \in Tasks |-> IF u \in Decremented(t) THEN inDegree[u] - 1 ELSE inDegree[u]]
    /\ UNCHANGED <<execID, attempts, wfState, stored>>

\* Neither the state nor the execution id of the record is looked at.
TxFailTask(t, n) ==
    /\ taskState' = [taskState EXCEPT ![t] = "FAILED"]
    /\ attempts' = [attempts EXCEPT ![t] = n]
    /\ UNCHANGED <<execID, inDegree, wfState, stored>>

\* Back to the queue under a new execution id; AttemptCount is not written.
MutTxRequeueTask(t) ==
    /\ taskState' = [taskState EXCEPT ![t] = "QUEUED"]
    /\ UNCHANGED <<execID, inDegree, attempts, wfState, stored>>
TxRequeueTask(t) ==
    /\ taskState' = [taskState EXCEPT ![t] = "QUEUED"]
    /\ execID' = [execID EXCEPT ![t] = Nil]
    /\ UNCHANGED <<inDegree, attempts, wfState, stored>>

\* What CancelWorkflowTasks turns to SKIPPED and returns, RUNNING tasks
\* included.
MutCancellable(wf) == {t \in Recorded(wf) : taskState[t] \notin {"FAILED", "SKIPPED"}}
Cancellable(wf) == {t \in Recorded(wf) : taskState[t] \notin Terminal}

TxCancelWorkflowTasks(wf) ==
    /\ taskState' = [t \in Tasks |-> IF t \in Cancellable(wf) THEN "SKIPPED" ELSE taskState[t]]
    /\ UNCHANGED <<execID, inDegree, attempts, wfState, stored>>

IsWorkflowComplete(wf) == \A t \in Recorded(wf) : taskState[t] \in Terminal

\* The state checkWorkflowCompletion derives from GetTaskStatusesForWorkflow.
MutFinalState(wf) == "COMPLETE"
FinalState(wf) ==
    IF \E t \in Recorded(wf) : taskState[t] = "FAILED" THEN "FAILED" ELSE "COMPLETE"
=============================================================================
