---------------------------- MODULE TaskLifecycle ----------------------------
(***************************************************************************)
(* What the scheduler promises its clients: the lifecycle of tasks and     *)
(* workflows as one atomic step per transition, with no queue, no          *)
(* execution ids, no threads and no crashes.  A task runs only after all   *)
(* its dependencies, a result is final, a task is skipped only below a     *)
(* failure, and a workflow is settled once, by the results of its tasks.   *)
(***************************************************************************)
CONSTANTS Workflows, Tasks, WfOf, Deps

VARIABLES
    task,       \* state of a task, "ABSENT" before its workflow's submission
    workflow    \* state of a workflow

Init ==
    /\ task = [t \in Tasks |-> "ABSENT"]
    /\ workflow = [wf \in Workflows |-> "ABSENT"]

Move(t, from, to) ==
    /\ task[t] = from
    /\ task' = [task EXCEPT ![t] = to]
    /\ UNCHANGED workflow

Accept(wf) ==
    /\ workflow[wf] = "ABSENT"
    /\ workflow' = [workflow EXCEPT ![wf] = "RUNNING"]
    /\ UNCHANGED task

\* All tasks of an accepted workflow appear together.
Create(wf) ==
    /\ workflow[wf] = "RUNNING"
    /\ \A t \in Tasks : WfOf[t] = wf => task[t] = "ABSENT"
    /\ task' = [t \in Tasks |-> IF WfOf[t] = wf THEN "PENDING" ELSE task[t]]
    /\ UNCHANGED workflow

QueueRoot(t) == Deps[t] = {} /\ Move(t, "PENDING", "QUEUED")

Assign(t) == Move(t, "QUEUED", "RUNNING")

\* Completion unlocks, in the same step, every waiting task for which it was
\* the last missing dependency.
Complete(t) ==
    /\ task[t] = "RUNNING"
    /\ task' = [u \in Tasks |->
                   IF u = t THEN "COMPLETE"
                   ELSE IF /\ task[u] = "PENDING" /\ t \in Deps[u]
                           /\ \A d \in Deps[u] \ {t} : task[d] = "COMPLETE"
                        THEN "QUEUED"
                   ELSE task[u]]
    /\ UNCHANGED workflow

\* Retry, dead worker or restart.
Requeue(t) == Move(t, "RUNNING", "QUEUED")

Fail(t) == Move(t, "RUNNING", "FAILED")

Skip(t) ==
    /\ \E d \in Deps[t] : task[d] \in {"FAILED", "SKIPPED"}
    /\ Move(t, "PENDING", "SKIPPED")

Settle(wf) ==
    LET mine == {t \in Tasks : WfOf[t] = wf} IN
    /\ workflow[wf] = "RUNNING"
    /\ \A t \in mine : task[t] \in {"COMPLETE", "FAILED", "SKIPPED"}
    /\ workflow' = [workflow EXCEPT ![wf] =
                       IF \E t \in mine : task[t] = "FAILED" THEN "FAILED" ELSE "COMPLETE"]
    /\ UNCHANGED task

Next ==
    \/ \E wf \in Workflows : Accept(wf) \/ Create(wf) \/ Settle(wf)
    \/ \E t \in Tasks : \/ QueueRoot(t) \/ Assign(t) \/ Complete(t)
                        \/ Requeue(t) \/ Fail(t) \/ Skip(t)

Spec == Init /\ [][Next]_<<task, workflow>>
=============================================================================
