----------------------------- MODULE DagExecution -----------------------------
(***************************************************************************)
(* A validated DAG drives its execution through the records that           *)
(* InitializeTasksForWorkflow makes of it: in-degrees count list entries,  *)
(* downstream lists may name a task more than once.  One handler runs at a *)
(* time here; Coordinator has the interleavings, over dependency sets.     *)
(* The records are written and read back through Serialization.            *)
(***************************************************************************)
EXTENDS DagResolver, Serialization

CONSTANTS
    Texts,      \* outputs a task may have
    NewExec,    \* the execution id of an assignment
    WorkflowID, \* the id of the workflow
    Now         \* a time in milliseconds; times are not told apart

VARIABLES
    rec,        \* the task_state bucket: records by task id
    wf,         \* the record of the workflow
    visiting    \* SkipDownstreamTasks: its queue and its visited set

execVars == <<rec, wf, visiting>>
allVars == <<dagVars, execVars>>

NoVisit == [queue |-> <<>>, visited |-> {}]
NoWorkflow == [workflowID |-> WorkflowID, state |-> "ABSENT", submittedAt |-> 0, completedAt |-> 0]
Done == {"COMPLETE", "FAILED", "SKIPPED"}

ExecInit ==
    /\ DagInit
    /\ rec = <<>>
    /\ wf = NoWorkflow
    /\ visiting = NoVisit
-----------------------------------------------------------------------------
(* What the transactions make of a table of records. *)

\* InitializeTasksForWorkflow, and QUEUED for the roots of GetReadyTasks.
Initialized ==
    [t \in tasks |->
        [taskID |-> t, workflowID |-> WorkflowID,
         state |-> IF inDegree[t] = 0 THEN "QUEUED" ELSE "PENDING", executionID |-> <<>>,
         attemptCount |-> 0, lastUpdated |-> Now, output |-> <<>>, error |-> <<>>,
         inDegree |-> inDegree[t], downstreamTaskIDs |-> downstream[t]]]

Assigned(R, t) == [R EXCEPT ![t].state = "RUNNING", ![t].executionID = NewExec]

\* One turn of the loop in CompleteTask over the downstream list.
MutDecrement(R, d) ==
    IF d \notin DOMAIN R \/ R[d].state # "PENDING" THEN R
    ELSE [R EXCEPT ![d].inDegree = IF @ = 0 THEN 0 ELSE @ - 1, ![d].state = "QUEUED"]
Decrement(R, d) ==
    IF d \notin DOMAIN R \/ R[d].state # "PENDING" THEN R
    ELSE LET n == IF R[d].inDegree = 0 THEN 0 ELSE R[d].inDegree - 1 IN
         [R EXCEPT ![d].inDegree = n, ![d].state = IF n = 0 THEN "QUEUED" ELSE @]

Completed(R, t, output) ==
    FoldLeft(Decrement, [R EXCEPT ![t].state = "COMPLETE", ![t].output = output],
             R[t].downstreamTaskIDs)

Failed(R, t, error) ==
    [R EXCEPT ![t].state = "FAILED", ![t].error = error, ![t].attemptCount = 1]

\* One turn of SkipDownstreamTasks, for the head of its queue.
Skipped(R, v) ==
    LET t == Head(v.queue) IN
    IF t \in v.visited \/ R[t].state \in Done THEN R ELSE [R EXCEPT ![t].state = "SKIPPED"]

MutWalked(R, v) ==
    LET t == Head(v.queue) IN
    [queue |-> IF t \in v.visited \/ R[t].state \in Done THEN Tail(v.queue)
               ELSE R[t].downstreamTaskIDs,
     visited |-> v.visited \cup {t}]
Walked(R, v) ==
    LET t == Head(v.queue) IN
    [queue |-> IF t \in v.visited THEN Tail(v.queue)
               ELSE Tail(v.queue) \o R[t].downstreamTaskIDs,
     visited |-> v.visited \cup {t}]

\* UpdateWorkflowState with the verdict of checkWorkflowCompletion.
Settled(R, w) ==
    [w EXCEPT !.state = IF \E t \in DOMAIN R : R[t].state = "FAILED" THEN "FAILED" ELSE "COMPLETE",
              !.completedAt = Now]
-----------------------------------------------------------------------------
SubmitWorkflow ==
    /\ pc = "valid"
    /\ pc' = "run"
    /\ rec' = Initialized
    /\ wf' = [NoWorkflow EXCEPT !.state = "RUNNING", !.submittedAt = Now]
    /\ UNCHANGED <<spec, graphVars, color, todo, stack, visiting>>

AssignTask(t) ==
    /\ pc = "run" /\ rec[t].state = "QUEUED"
    /\ rec' = Assigned(rec, t)
    /\ UNCHANGED <<dagVars, wf, visiting>>

CompleteTask(t, output) ==
    /\ pc = "run" /\ rec[t].state = "RUNNING"
    /\ rec' = Completed(rec, t, output)
    /\ pc' = "check"
    /\ UNCHANGED <<spec, graphVars, color, todo, stack, wf, visiting>>

FailTask(t, error) ==
    /\ pc = "run" /\ rec[t].state = "RUNNING"
    /\ rec' = Failed(rec, t, error)
    /\ pc' = "skip"
    /\ visiting' = [queue |-> rec[t].downstreamTaskIDs, visited |-> {}]
    /\ UNCHANGED <<spec, graphVars, color, todo, stack, wf>>

SkipTask ==
    /\ pc = "skip" /\ visiting.queue # <<>>
    /\ rec' = Skipped(rec, visiting)
    /\ visiting' = Walked(rec, visiting)
    /\ UNCHANGED <<dagVars, wf>>

SkipReturn ==
    /\ pc = "skip" /\ visiting.queue = <<>>
    /\ pc' = "check"
    /\ visiting' = NoVisit
    /\ UNCHANGED <<spec, graphVars, color, todo, stack, rec, wf>>

\* checkWorkflowCompletion, after every result.
CheckCompletion ==
    /\ pc = "check"
    /\ pc' = "run"
    /\ wf' = IF \A t \in DOMAIN rec : rec[t].state \in Done THEN Settled(rec, wf) ELSE wf
    /\ UNCHANGED <<spec, graphVars, color, todo, stack, rec, visiting>>

ExecStep ==
    \/ SubmitWorkflow
    \/ \E t \in DOMAIN rec : \/ AssignTask(t)
                             \/ \E x \in Texts : CompleteTask(t, x) \/ FailTask(t, x)
    \/ SkipTask \/ SkipReturn \/ CheckCompletion

ExecNext == (ResolveStep /\ UNCHANGED execVars) \/ ExecStep

ExecSpec == ExecInit /\ [][ExecNext]_allVars

\* The handlers go on to their end, and workers ask and report for ever.
FairExecSpec == ExecSpec /\ WF_allVars(ExecNext)
-----------------------------------------------------------------------------
(* Properties. *)

\* In-degrees and downstream lists agree, also for lists that name a task
\* several times: while a task waits its in-degree is the number of entries
\* of its dependency list that are not complete, and CompleteTask queues a
\* task only when all of them are.
UnlockExact ==
    \A t \in DOMAIN rec :
        LET open == {i \in DOMAIN dependencies[t] : rec[dependencies[t][i]].state # "COMPLETE"} IN
        /\ rec[t].state = "PENDING" => rec[t].inDegree = Cardinality(open)
        /\ rec[t].state \in {"QUEUED", "RUNNING", "COMPLETE", "FAILED"} => open = {}

\* Outside a walk of SkipDownstreamTasks exactly the tasks below a failed
\* task are SKIPPED, however the paths to them cross.
SkipWalkExact ==
    pc \in {"run", "check"} =>
        \A t \in DOMAIN rec :
            rec[t].state = "SKIPPED" <=>
                \E d \in Members(dependencies[t]) : rec[d].state \in {"FAILED", "SKIPPED"}

\* Every record a workflow goes through is read back by unmarshalTaskRecord
\* and unmarshalWorkflowState as it was written, empty strings, zero bytes
\* and repeated ids included; a record written before downstream lists were
\* stored is read back with an empty one.
RecordsReadBack ==
    /\ \A t \in DOMAIN rec :
        LET data == marshalTaskRecord(rec[t])
            old == Encode(TaskLayout, TaskFields(rec[t]))
        IN  /\ Decodable(data) /\ unmarshalTaskRecord(data) = rec[t]
            /\ Decodable(old)
            /\ unmarshalTaskRecord(old) = [rec[t] EXCEPT !.downstreamTaskIDs = <<>>]
    /\ wf # NoWorkflow => unmarshalWorkflowState(marshalWorkflowState(wf)) = wf

\* A workflow with tasks that ValidateAndSort accepts is never stuck:
\* whatever its shape and whichever tasks fail, it is settled in the end.
AcceptedSettles ==
    (pc = "valid" /\ spec # <<>>) ~> (pc = "run" /\ wf.state \in {"COMPLETE", "FAILED"})
=============================================================================
