----------------------------- MODULE StatusReader -----------------------------
(***************************************************************************)
(* A client that follows a workflow (cli status --watch) while the         *)
(* coordinator works on it.  GetWorkflowStatus of the gRPC service, like   *)
(* the two dashboard handlers, reads the workflow's state and the task     *)
(* records in two transactions and holds no lock between them.  The client *)
(* asks again until a reply carries a final state, and that reply is the   *)
(* last thing it shows.                                                    *)
(***************************************************************************)
EXTENDS Coordinator

CONSTANT Followed   \* the workflow the client follows

VARIABLE view       \* the call in progress, or the final reply

ASSUME FollowedAssumption == Followed \in Workflows

NoCall == [pc |-> "idle"]

StatusInit == view = NoCall

\* What the two read transactions return.
GetWorkflowState == wfState[Followed]
GetTaskStatuses == [t \in Recorded(Followed) |-> taskState[t]]

\* TaskCount, DoneCount and FailedCount of a reply.
Counts(statuses) ==
    LET In(S) == Cardinality({t \in DOMAIN statuses : statuses[t] \in S})
    IN [task |-> Cardinality(DOMAIN statuses),
        done |-> In({"COMPLETE", "SKIPPED"}), failed |-> In({"FAILED"})]

isTerminalState(s) == s \in {"COMPLETE", "FAILED", "CANCELLED"}

\* A reply reaches the client, which stops asking if the state is final.
Replied(s, statuses) ==
    view' = IF isTerminalState(s)
            THEN [pc |-> "shown", state |-> s, counts |-> Counts(statuses)]
            ELSE NoCall

\* A call: the first read transaction, which fails with ErrWorkflowNotFound
\* when there is no record, then the second one and the reply.
MutGetWorkflowStatus ==
    \/ /\ up /\ view.pc = "idle"
       /\ GetWorkflowState # "ABSENT"
       /\ view' = [pc |-> "read", statuses |-> GetTaskStatuses]
    \/ /\ view.pc = "read"
       /\ Replied(GetWorkflowState, view.statuses)
GetWorkflowStatus ==
    \/ /\ up /\ view.pc = "idle"
       /\ GetWorkflowState # "ABSENT"
       /\ view' = [pc |-> "read", state |-> GetWorkflowState]
    \/ /\ view.pc = "read"
       /\ Replied(view.state, GetTaskStatuses)

\* The process dies and the call with it.
CallLost == view' = IF view.pc = "read" THEN NoCall ELSE view

StatusStep == GetWorkflowStatus /\ UNCHANGED vars

CoordinatorStep ==
    /\ Next
    /\ IF up /\ ~up' THEN CallLost ELSE UNCHANGED view

StatusNext == CoordinatorStep \/ StatusStep

StatusSpec == Init /\ StatusInit /\ [][StatusNext]_<<vars, view>>
-----------------------------------------------------------------------------
\* The final reply of GetWorkflowStatus adds up, although its parts are from
\* two moments: every task is done or failed, and the state is the one the
\* counts justify.  It also stays true: no task record changes its group
\* after the client has stopped asking.
FinalReplyStands ==
    (view.pc = "shown" /\ Followed \notin Cancels /\ Policy[Followed] # "FAIL_FAST") =>
        /\ view.counts = Counts(GetTaskStatuses)
        /\ view.counts.task = Cardinality(TasksOf(Followed))
        /\ view.counts.done + view.counts.failed = view.counts.task
        /\ (view.state = "FAILED") <=> (view.counts.failed > 0)
=============================================================================
