-------------------------------- MODULE Losses --------------------------------
(***************************************************************************)
(* Coordinator with a history variable: the assignments of which the       *)
(* coordinator will never hear, because the worker crashed or its stream   *)
(* broke before the result arrived.  Nobody resends them.  It tells a task *)
(* whose result was lost on the way from one that a handler forgot.        *)
(***************************************************************************)
EXTENDS Coordinator

VARIABLE lost   \* the members of held that were lost and are still the
                \* execution their task's record is at

LossInit == lost = {}

\* An entry is of interest for as long as the record names its execution.
Current(L) == {h \in L : execID'[h[2]] = h[3]}

Loss ==
    /\ \E w \in Workers : WorkerCrash(w) \/ StreamBreak(w)
    /\ lost' = Current(lost \cup (held \ held'))

\* The disjuncts of Next other than these two faults.
OtherStep ==
    /\ \/ \E w \in Workers : Receive(w) \/ ResultStep(w) \/ HandleDeadWorker(w)
       \/ \E c \in Clients : SubmitWorkflow(c) \/ CancelWorkflow(c) \/ SubmitStep(c)
       \/ \E x \in Workers \cup Clients : CancelStep(x)
       \/ DaemonStep
       \/ Crash
       \/ \E x \in Threads : StoreError(x)
    /\ lost' = Current(lost)

LossNext == Loss \/ OtherStep

LossSpec == Init /\ LossInit /\ [][LossNext]_<<vars, lost>> /\ Fairness
-----------------------------------------------------------------------------
\* The assignment of a running task, or its result, was lost, and its worker
\* is not going to be declared dead: it goes on heartbeating on a new stream,
\* or it died before its first heartbeat.
Stranded(t) ==
    /\ taskState[t] = "RUNNING"
    /\ <<runningTasks[t], t, execID[t]>> \in lost
    /\ runningTasks[t] \in alive \/ runningTasks[t] \notin tracked

\* FAIL_FAST has ended the workflow with the verdict FAILED.
FailedFast(wf) == Policy[wf] = "FAIL_FAST" /\ wfState[wf] = "FAILED"

\* A task that was queued is executed and gets a result, or is skipped,
\* although workers die and lose streams, unless it is stranded for good: a
\* report that has reached CompleteTask or FailTask is applied.  One more
\* exception is a task that HandleDeadWorker queues again after FAIL_FAST
\* skipped it, which stays QUEUED in a workflow that is over.
QueuedUnlessStranded ==
    \A t \in Tasks :
        taskState[t] = "QUEUED" ~> \/ taskState[t] \in Terminal
                                  \/ FailedFast(WfOf[t])
                                  \/ []Stranded(t)

\* A submitted workflow is settled, unless one of its tasks is stranded for
\* good: of the handlers that end its last tasks at the same time, one sees
\* in checkWorkflowCompletion that it is done.
SettledUnlessStranded ==
    \A wf \in Workflows :
        wf \in stored ~> \/ wfState[wf] \in WfStates \ {"RUNNING"}
                         \/ \E t \in TasksOf(wf) : []Stranded(t)
=============================================================================
