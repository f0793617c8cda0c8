-------------------------- MODULE LifecycleProofs ---------------------------
(***************************************************************************)
(* What steps do to whole workflows: they settle one by what its tasks say *)
(* (VerdictInv), and when nothing cancels a workflow and no transaction    *)
(* fails, each is a step of TaskLifecycle.                                 *)
(***************************************************************************)
EXTENDS CoordinatorProofs

\* The provers tried at a leaf that names none, in this order.
USE SMTT(30), ZenonT(20), SMTT(40)

-----------------------------------------------------------------------------
(* Verdicts. *)

LEMMA SettlingStays ==
    ASSUME Stepped, VerdictInv, NEW x \in Threads, thr'[x] = thr[x]
    PROVE  Settling(thr[x])'
<1>1. PICK wf : wf = thr[x].wf
  OBVIOUS
<1>2. Settling(thr[x])
  BY DEF VerdictInv
<1> QED
  BY <1>1, <1>2, PlainStays DEF Settling, Plain, HasFailure, Recorded, TasksOf, Done, FinalState

LEMMA VerdictStep ==
    ASSUME Stepped, VerdictInv,
           \A t \in Tasks : taskState'[t] = "SKIPPED" /\ Plain(WfOf[t]) =>
               taskState[t] = "SKIPPED" \/ (Blocked(t) /\ HasFailure(WfOf[t])),
           \A x \in Threads : thr'[x] = thr[x] \/ Settling(thr[x])',
           \A wf \in Workflows : Plain(wf) =>
               wfState'[wf] \in {wfState[wf], "RUNNING"} \/ (Done(wf) /\ wfState'[wf] = FinalState(wf))
    PROVE  VerdictInv'
<1>1. ASSUME NEW t \in Tasks, taskState'[t] = "SKIPPED", Plain(WfOf[t])
      PROVE  Blocked(t)' /\ HasFailure(WfOf[t])'
  <2>1. Blocked(t) /\ HasFailure(WfOf[t])
    BY <1>1 DEF VerdictInv
  <2> QED
    BY ZenonT(30), <2>1, BlockedStays, PlainStays
<1>2. ASSUME NEW x \in Threads PROVE Settling(thr[x])'
  BY ZenonT(30), SettlingStays
<1>3. ASSUME NEW wf \in Workflows, Plain(wf)
      PROVE  wfState'[wf] \in {"ABSENT", "RUNNING"} \/ (Done(wf)' /\ wfState'[wf] = FinalState(wf)')
  <2>1. wfState'[wf] \in {"ABSENT", "RUNNING"} \/ (Done(wf) /\ wfState'[wf] = FinalState(wf))
    BY <1>3 DEF VerdictInv
  <2> QED
    BY ZenonT(30), <1>3, <2>1, PlainStays
<1> QED
  BY ZenonT(30), <1>1, <1>2, <1>3 DEF VerdictInv, Plain

\* Steps that have nothing to do with settling.
LEMMA VerdictQuiet ==
    ASSUME Stepped, VerdictInv,
           \A t \in Tasks : taskState'[t] = "SKIPPED" => taskState[t] = "SKIPPED",
           \A x \in Threads : thr'[x] = thr[x] \/ thr'[x].pc \notin SettlePCs,
           \A wf \in Workflows : wfState'[wf] \in {wfState[wf], "RUNNING"}
    PROVE  VerdictInv'
<1>1. \A x \in Threads : thr'[x] = thr[x] \/ Settling(thr[x])'
  BY DEF Settling, SettlePCs
<1> QED
  BY ZenonT(30), <1>1, VerdictStep

\* A step of one thread that writes no record and reaches r.
LEMMA VerdictRead ==
    ASSUME Stepped, VerdictInv, NEW x \in Threads, NEW r, Becomes(x, r), UNCHANGED <<taskState, wfState>>,
           Settling(r)
    PROVE  VerdictInv'
<1>1. thr'[x] = r /\ \A y \in Threads : y # x => thr'[y] = thr[y]
  BY DEF Becomes, Stepped, TypeInv, TypeOK
<1>2. Settling(thr[x])'
  BY <1>1 DEF Settling, SettlePCs, Plain, HasFailure, Recorded, TasksOf, Done, FinalState
<1> QED
  BY ZenonT(30), <1>1, <1>2, VerdictStep

\* checkWorkflowCompletion.
LEMMA CheckVerdict ==
    ASSUME Stepped, VerdictInv, NEW x \in Threads,
           CheckDone(x) \/ CheckStatuses(x) \/ SetWorkflowState(x) \/ FilterQueue(x) \/ SkipDone(x)
    PROVE  VerdictInv'
<1>1. PICK wf : wf = thr[x].wf
  OBVIOUS
<1>2. Settling(thr[x]) /\ thr[x] \in ThreadState /\ (thr[x].pc \in SettlePCs => wf \in Workflows)
  BY <1>1, LocalsType DEF VerdictInv, Stepped, LocalsFit, SettlePCs
<1>3. Settling(Idle)
  BY DEF Settling, SettlePCs, Idle
<1>4. CASE CheckDone(x)
  <2>1. UNCHANGED <<taskState, wfState>>
    BY <1>4 DEF CheckDone, dbVars
  <2>2. CASE ~IsWorkflowComplete(wf)
    BY <1>1, <1>3, <1>4, <2>1, <2>2, VerdictRead DEF CheckDone, Return
  <2>3. CASE IsWorkflowComplete(wf)
    <3> DEFINE r == [thr[x] EXCEPT !.pc = "chkStatus"]
    <3>1. Becomes(x, r) /\ thr[x].pc = "chkDone"
      BY <1>1, <1>4, <2>3 DEF CheckDone, Goto, At
    <3>2. r.pc = "chkStatus" /\ r.wf = wf
      BY <1>1, <1>2 DEF ThreadState
    <3>3. Plain(wf) => Recorded(wf) # {}
      BY <1>1, <1>2, <3>1 DEF Settling, SettlePCs
    <3>4. Recorded(wf) # {} => TasksOf(wf) # {} /\ Recorded(wf) = TasksOf(wf)
      BY Together DEF Recorded, TasksOf, RecordsAppearTogether
    <3>5. Plain(wf) => Done(wf)
      BY ZenonT(30), <2>3, <3>3, <3>4 DEF Done, IsWorkflowComplete
    <3> HIDE DEF r
    <3>6. Settling(r)
      BY <3>2, <3>3, <3>5 DEF Settling
    <3> QED
      BY ZenonT(30), <2>1, <3>1, <3>6, VerdictRead
  <2> QED
    BY <2>2, <2>3
<1>5. CASE CheckStatuses(x)
  <2> DEFINE r == [thr[x] EXCEPT !.pc = "setState", !.fin = FinalState(thr[x].wf)]
  <2>1. Becomes(x, r) /\ thr[x].pc = "chkStatus" /\ UNCHANGED <<taskState, wfState>>
    BY <1>5 DEF CheckStatuses, At, dbVars
  <2>2. r.pc = "setState" /\ r.wf = wf /\ r.fin = FinalState(wf)
    BY <1>1, <1>2 DEF ThreadState
  <2>3. Plain(wf) => Done(wf) /\ Recorded(wf) # {}
    BY <1>1, <1>2, <2>1 DEF Settling, SettlePCs
  <2> HIDE DEF r
  <2>4. Settling(r)
    BY <2>2, <2>3 DEF Settling
  <2> QED
    BY ZenonT(30), <2>1, <2>4, VerdictRead
<1>6. CASE SetWorkflowState(x)
  <2>1. thr[x].pc = "setState" /\ UNCHANGED taskState /\ wfState' = [wfState EXCEPT ![wf] = thr[x].fin]
    BY <1>1, <1>6 DEF SetWorkflowState, At, TxSetWorkflowState, taskVars
  <2>2. Plain(wf) => Done(wf) /\ thr[x].fin = FinalState(wf)
    BY <1>1, <1>2, <2>1 DEF Settling, SettlePCs
  <2>3. \A v \in Workflows : Plain(v) =>
            wfState'[v] \in {wfState[v], "RUNNING"} \/ (Done(v) /\ wfState'[v] = FinalState(v))
    <3>1. wfState \in [Workflows -> WfStates \cup {"ABSENT"}]
      BY ZenonT(30) DEF Stepped, TypeInv, TypeOK, StoreTypeOK
    <3> QED
      BY <2>1, <2>2, <3>1
  <2>4. \A y \in Threads : thr'[y] = thr[y] \/ thr'[y] = Idle
    BY <1>6 DEF SetWorkflowState, Return, Becomes, Stepped, TypeInv, TypeOK
  <2>5. \A y \in Threads : thr'[y] = thr[y] \/ Settling(thr[y])'
    BY <2>4 DEF Settling, SettlePCs, Idle
  <2> QED
    BY ZenonT(30), <2>1, <2>3, <2>5, VerdictStep
<1>7. CASE FilterQueue(x)
  <2> DEFINE r == [thr[x] EXCEPT !.pc = IF thr[x].fin = Nil THEN "chkDone" ELSE "setState"]
  <2>1. Becomes(x, r) /\ thr[x].pc = "filter" /\ UNCHANGED <<taskState, wfState>>
    BY <1>7 DEF FilterQueue, Goto, At, dbVars
  <2>2. r.wf = wf /\ r.pc \in {"chkDone", "setState"} /\ (Plain(wf) => r.pc = "chkDone" /\ Recorded(wf) # {})
    BY <1>1, <1>2, <2>1 DEF ThreadState, Settling, SettlePCs
  <2> HIDE DEF r
  <2>3. Settling(r)
    BY <2>2 DEF Settling
  <2> QED
    BY ZenonT(30), <2>1, <2>3, VerdictRead
<1>8. CASE SkipDone(x)
  <2> DEFINE r == [thr[x] EXCEPT !.pc = IF thr[x].out = {} THEN "chkDone" ELSE "filter"]
  <2>1. Becomes(x, r) /\ thr[x].pc = "skip" /\ UNCHANGED <<taskState, wfState>>
    BY <1>8 DEF SkipDone, Goto, At, dbVars
  <2>2. r.wf = wf /\ r.fin = thr[x].fin /\ r.pc \in {"chkDone", "filter"}
    BY <1>1, <1>2 DEF ThreadState
  <2>3. Plain(wf) => thr[x].fin = Nil /\ Recorded(wf) # {}
    BY <1>1, <1>2, <2>1 DEF Settling, SettlePCs
  <2> HIDE DEF r
  <2>4. Settling(r)
    BY <2>2, <2>3 DEF Settling
  <2> QED
    BY ZenonT(30), <2>1, <2>4, VerdictRead
<1> QED
  BY <1>4, <1>5, <1>6, <1>7, <1>8

\* The steps that start to settle or to stop a workflow.
LEMMA ResultVerdict ==
    ASSUME Stepped, VerdictInv, NEW w \in Workers, CompleteTaskClean(w) \/ FailTaskFailed(w)
    PROVE  VerdictInv'
<1>1. PICK t : t = thr[w].task
  OBVIOUS
<1>2. w \in Threads /\ thr[w].pc \in ResultPCs
  BY ThreadsType DEF CompleteTaskClean, FailTaskFailed, At, ResultPCs
<1>3. t \in Tasks
  BY <1>1, <1>2, ResultRecord DEF Stepped
<1>4. Settling(Idle)
  BY DEF Settling, SettlePCs, Idle
<1>5. CASE CompleteTaskClean(w)
  <2> DEFINE r == [Idle EXCEPT !.pc = "chkDone", !.wf = WfOf[t]]
  <2>1. (Becomes(w, r) \/ Becomes(w, Idle)) /\ UNCHANGED <<taskState, wfState>>
    BY <1>1, <1>5 DEF CompleteTaskClean, Return, dbVars
  <2>2. t \in Recorded(WfOf[t])
    BY <1>1, <1>2, <1>3, <1>5, ResultRecord DEF CompleteTaskClean, At, Recorded, TasksOf, Stepped
  <2>3. r.pc = "chkDone" /\ r.wf = WfOf[t]
    BY DEF Idle
  <2> HIDE DEF r
  <2>4. Settling(r)
    BY <2>2, <2>3 DEF Settling
  <2> QED
    BY ZenonT(30), <1>2, <1>4, <2>1, <2>4, VerdictRead
<1>6. CASE FailTaskFailed(w)
  <2> DEFINE c == [Idle EXCEPT !.pc = "cancelTx", !.wf = WfOf[t], !.fin = "FAILED"]
  <2> DEFINE s == [Idle EXCEPT !.pc = "skip", !.wf = WfOf[t], !.todo = Downstream(t), !.seen = Downstream(t)]
  <2>1. /\ Becomes(w, Idle) \/ (Becomes(w, c) /\ Policy[WfOf[t]] = "FAIL_FAST") \/ Becomes(w, s)
        /\ UNCHANGED <<taskState, wfState>>
    BY <1>1, <1>6 DEF FailTaskFailed, Return, dbVars
  <2>2. t \in Recorded(WfOf[t]) /\ t \in TasksOf(WfOf[t]) /\ taskState[t] = "FAILED"
    BY <1>1, <1>2, <1>3, <1>6, ResultRecord DEF FailTaskFailed, At, Recorded, TasksOf, Stepped
  <2>3. Downstream(t) \subseteq TasksOf(WfOf[t])
    BY DepsType DEF Downstream, TasksOf
  <2>4. c.pc = "cancelTx" /\ c.wf = WfOf[t]
    BY DEF Idle
  <2>5. s.pc = "skip" /\ s.wf = WfOf[t] /\ s.seen = Downstream(t) /\ s.fin = Nil
    BY DEF Idle
  <2> HIDE DEF c, s
  <2>6. Policy[WfOf[t]] = "FAIL_FAST" => Settling(c)
    BY <2>4 DEF Settling, Plain
  <2>7. Settling(s)
    BY <2>2, <2>3, <2>5 DEF Settling, HasFailure
  <2> QED
    BY ZenonT(30), <1>2, <1>4, <2>1, <2>6, <2>7, VerdictRead
<1> QED
  BY <1>5, <1>6

\* The walk of SkipDownstreamTasks.
LEMMA SkipVerdict ==
    ASSUME Stepped, VerdictInv, NEW x \in Threads, SkipVisit(x) \/ SkipWrite(x)
    PROVE  VerdictInv'
<1>1. PICK wf : wf = thr[x].wf
  OBVIOUS
<1>2. /\ thr[x] \in ThreadState /\ thr[x].pc \in {"skip", "skipWrite"} /\ thr[x].seen \subseteq TasksOf(wf)
      /\ Plain(wf) => HasFailure(wf) /\ thr[x].fin = Nil /\ Recorded(wf) # {}
  BY ZenonT(30), <1>1, LocalsType DEF VerdictInv, Settling, SettlePCs, Stepped, SkipVisit, SkipWrite, At
<1>3. CASE SkipVisit(x)
  <2>1. PICK u \in thr[x].todo : Becomes(x, [thr[x] EXCEPT
            !.todo = (@ \ {u}) \cup (Downstream(u) \ thr[x].seen),
            !.seen = @ \cup (Downstream(u) \ thr[x].seen), !.task = u,
            !.pc = IF taskState[u] \in Terminal THEN "skip" ELSE "skipWrite"])
    BY ZenonT(30), <1>3 DEF SkipVisit
  <2> DEFINE r == [thr[x] EXCEPT
            !.todo = (@ \ {u}) \cup (Downstream(u) \ thr[x].seen),
            !.seen = @ \cup (Downstream(u) \ thr[x].seen), !.task = u,
            !.pc = IF taskState[u] \in Terminal THEN "skip" ELSE "skipWrite"]
  <2>2. Becomes(x, r) /\ UNCHANGED <<taskState, wfState>>
    BY ZenonT(30), <1>3, <2>1 DEF SkipVisit, dbVars
  <2>3. u \in TasksOf(wf)
    BY <1>2 DEF Stepped, SubmitInv, WalksStayBelow
  <2>4. Downstream(u) \subseteq TasksOf(wf)
    BY <2>3, DepsType DEF Downstream, TasksOf
  <2>5. /\ r.pc \in {"skip", "skipWrite"} /\ r.wf = wf /\ r.fin = thr[x].fin
        /\ r.seen = thr[x].seen \cup (Downstream(u) \ thr[x].seen)
    BY <1>1, <1>2 DEF ThreadState
  <2> HIDE DEF r
  <2>6. r.seen \subseteq TasksOf(wf)
    BY ZenonT(30), <1>2, <2>4, <2>5
  <2>7. Settling(r)
    BY <1>2, <2>5, <2>6 DEF Settling
  <2> QED
    BY ZenonT(30), <2>2, <2>7, VerdictRead
<1>4. CASE SkipWrite(x)
  <2>1. PICK u : u = thr[x].task
    OBVIOUS
  <2> DEFINE r == [thr[x] EXCEPT !.pc = "skip", !.out = @ \cup {u}]
  <2>2. /\ thr[x].pc = "skipWrite" /\ Becomes(x, r) /\ UNCHANGED wfState
        /\ taskState' = [taskState EXCEPT ![u] = "SKIPPED"]
    BY <1>4, <2>1 DEF SkipWrite, At, TxUpdateTaskState
  <2>3. u \in thr[x].seen /\ u \in Tasks /\ thr[x].seen \in SUBSET Tasks
    BY <1>2, <2>1, <2>2 DEF Stepped, SubmitInv, WalksStayBelow, TasksOf
  <2>4. Blocked(u)
    <3>1. \A v \in thr[x].seen : /\ taskState[v] \in {"PENDING", "SKIPPED"}
                                 /\ \E d \in Deps[v] : d \in thr[x].seen \/ taskState[d] = "FAILED"
      <4>1. WalkFit(thr[x], taskState)
        BY ZenonT(30), <1>2 DEF Stepped, TokenInv
      <4> QED
        BY <2>2, <4>1 DEF WalkFit
    <3> QED
      BY ZenonT(30), <2>3, <3>1 DEF Blocked
  <2>5. WfOf[u] = wf
    BY <1>2, <2>3 DEF TasksOf
  <2>6. ASSUME NEW t \in Tasks, taskState'[t] = "SKIPPED", Plain(WfOf[t])
        PROVE  taskState[t] = "SKIPPED" \/ (Blocked(t) /\ HasFailure(WfOf[t]))
    <3>1. CASE t = u
      BY ZenonT(30), <1>2, <2>4, <2>5, <2>6, <3>1
    <3>2. CASE t # u
      BY <2>2, <2>6, <3>2 DEF Stepped, TypeInv, TypeOK, StoreTypeOK
    <3> QED
      BY <3>1, <3>2
  <2>7. thr'[x] = r /\ \A y \in Threads : y # x => thr'[y] = thr[y]
    BY <2>2 DEF Becomes, Stepped, TypeInv, TypeOK
  <2>8. r.pc = "skip" /\ r.wf = wf /\ r.fin = thr[x].fin /\ r.seen = thr[x].seen
    BY <1>1, <1>2 DEF ThreadState
  <2> HIDE DEF r
  <2>9. Settling(thr[x])'
    <3>1. Plain(wf) => HasFailure(wf)' /\ Recorded(wf)' # {}
      BY ZenonT(30), <1>2, PlainStays
    <3>2. Plain(wf)' = Plain(wf) /\ TasksOf(wf)' = TasksOf(wf)
      BY DEF Plain, TasksOf
    <3> QED
      BY ZenonT(30), <1>2, <2>7, <2>8, <3>1, <3>2 DEF Settling
  <2> QED
    BY ZenonT(30), <2>2, <2>6, <2>7, <2>9, VerdictStep
<1> QED
  BY <1>3, <1>4

\* Cancellation, by a client or by FAIL_FAST, is not of a plain workflow.
LEMMA CancelVerdict ==
    ASSUME Stepped, VerdictInv, NEW x \in Threads, CancelTasks(x) \/ CancelWorkflow(x)
    PROVE  VerdictInv'
<1>1. CASE CancelTasks(x)
  <2>1. PICK wf : wf = thr[x].wf
    OBVIOUS
  <2> DEFINE r == [thr[x] EXCEPT !.pc = "filter", !.out = Cancellable(thr[x].wf)]
  <2>2. /\ thr[x].pc = "cancelTx" /\ Becomes(x, r) /\ UNCHANGED wfState
        /\ taskState' = [t \in Tasks |-> IF t \in Cancellable(wf) THEN "SKIPPED" ELSE taskState[t]]
    BY <1>1, <2>1 DEF CancelTasks, At, TxCancelWorkflowTasks
  <2>3. ~Plain(wf)
    BY <2>1, <2>2 DEF VerdictInv, Settling, SettlePCs
  <2>4. \A t \in Tasks : taskState'[t] = "SKIPPED" /\ Plain(WfOf[t]) => taskState[t] = "SKIPPED"
    BY <2>2, <2>3 DEF Cancellable, Recorded, TasksOf
  <2>5. r.pc = "filter" /\ r.wf = wf
    BY <2>1, LocalsType DEF ThreadState, Stepped
  <2>6. thr'[x] = r /\ \A y \in Threads : y # x => thr'[y] = thr[y]
    BY <2>2 DEF Becomes, Stepped, TypeInv, TypeOK
  <2> HIDE DEF r
  <2>7. Settling(thr[x])'
    BY <2>3, <2>5, <2>6 DEF Settling, Plain
  <2> QED
    BY ZenonT(30), <2>2, <2>4, <2>6, <2>7, VerdictStep
<1>2. CASE CancelWorkflow(x)
  <2>1. PICK wf \in Cancels : Becomes(x, [Idle EXCEPT !.pc = "cancelTx", !.wf = wf, !.fin = "CANCELLED"])
    BY ZenonT(30), <1>2 DEF CancelWorkflow
  <2> DEFINE r == [Idle EXCEPT !.pc = "cancelTx", !.wf = wf, !.fin = "CANCELLED"]
  <2>2. r.pc = "cancelTx" /\ r.wf = wf
    BY DEF Idle
  <2>3. Becomes(x, r) /\ UNCHANGED <<taskState, wfState>>
    BY ZenonT(30), <1>2, <2>1 DEF CancelWorkflow, dbVars
  <2> HIDE DEF r
  <2>4. Settling(r)
    BY <2>2 DEF Settling, Plain
  <2> QED
    BY ZenonT(30), <2>3, <2>4, VerdictRead
<1> QED
  BY <1>1, <1>2

\* A transaction that makes no task SKIPPED and leaves the workflows alone.
NoSkip == UNCHANGED wfState /\ \A t \in Tasks : taskState'[t] = "SKIPPED" => taskState[t] = "SKIPPED"

LEMMA TxNoSkip ==
    ASSUME TypeInv, NEW t, NEW e, NEW n,
           \/ TxAssignTask(t, e) \/ TxCompleteTask(t, e) \/ TxFailTask(t, n) \/ TxRequeueTask(t)
           \/ TxUpdateTaskState(t, "QUEUED") \/ TxInitializeTasks(t) \/ UNCHANGED dbVars
    PROVE  NoSkip
<1>1. CASE TxCompleteTask(t, e)
  BY <1>1 DEF NoSkip, TxCompleteTask
<1>2. CASE TxInitializeTasks(t) \/ UNCHANGED dbVars
  BY <1>2 DEF NoSkip, TxInitializeTasks, dbVars
<1>3. CASE TxAssignTask(t, e) \/ TxFailTask(t, n)
  BY ZenonT(30), <1>3 DEF NoSkip, TxAssignTask, TxFailTask, TypeInv, TypeOK, StoreTypeOK
<1>4. CASE TxRequeueTask(t) \/ TxUpdateTaskState(t, "QUEUED")
  BY ZenonT(30), <1>4 DEF NoSkip, TxRequeueTask, TxUpdateTaskState, TypeInv, TypeOK, StoreTypeOK
<1> QED
  BY <1>1, <1>2, <1>3, <1>4

LEMMA VerdictElsewhere ==
    ASSUME Stepped, VerdictInv, NoSkip, NEW x \in Threads, NEW r,
           UNCHANGED thr \/ (Becomes(x, r) /\ r.pc \notin SettlePCs)
    PROVE  VerdictInv'
<1>1. \A y \in Threads : thr'[y] = thr[y] \/ thr'[y].pc \notin SettlePCs
  BY DEF Becomes, Stepped, TypeInv, TypeOK
<1> QED
  BY <1>1, VerdictQuiet DEF NoSkip

\* Write transactions that fail.
LEMMA StoreErrorVerdict ==
    ASSUME Stepped, VerdictInv, NEW x \in Threads, StoreError(x)
    PROVE  VerdictInv'
<1>1. UNCHANGED <<taskState, wfState>>
  BY DEF StoreError, dbVars
<1>2. CASE thr[x].pc = "skipWrite"
  <2> DEFINE r == [thr[x] EXCEPT !.pc = "skip"]
  <2>1. Becomes(x, r)
    BY ZenonT(30), <1>2 DEF StoreError, Goto, At
  <2>2. /\ r.pc = "skip" /\ r.wf = thr[x].wf /\ r.fin = thr[x].fin /\ r.seen = thr[x].seen
    BY LocalsType DEF ThreadState, Stepped
  <2>3. Settling(thr[x])
    BY DEF VerdictInv
  <2> HIDE DEF r
  <2>4. Settling(r)
    BY ZenonT(30), <1>2, <2>2, <2>3 DEF Settling, SettlePCs
  <2> QED
    BY ZenonT(30), <1>1, <2>1, <2>4, VerdictRead
<1>3. CASE thr[x].pc # "skipWrite"
  <2>1. NoSkip
    BY <1>1 DEF NoSkip
  <2>2. \/ Becomes(x, Idle)
        \/ \E t \in thr[x].todo : Becomes(x, [thr[x] EXCEPT !.todo = @ \ {t}]) /\ thr[x].pc \in {"dwRequeue", "rcRequeue"}
    BY ZenonT(30), <1>3 DEF StoreError, Return, At
  <2>3. CASE Becomes(x, Idle)
    BY <2>1, <2>3, VerdictElsewhere DEF Idle, SettlePCs
  <2>4. ASSUME NEW t \in thr[x].todo, Becomes(x, [thr[x] EXCEPT !.todo = @ \ {t}]),
               thr[x].pc \in {"dwRequeue", "rcRequeue"}
        PROVE  VerdictInv'
    BY <2>1, <2>4, VerdictElsewhere, LocalsType DEF SettlePCs, ThreadState, Stepped
  <2> QED
    BY ZenonT(30), <2>2, <2>3, <2>4
<1> QED
  BY <1>2, <1>3

\* What a worker sends, and the results whose processing only begins.
LEMMA WorkerVerdict ==
    ASSUME Stepped, VerdictInv, NEW w \in Workers,
           \/ Receive(w) \/ CompleteTaskTx(w) \/ FailTaskRead(w) \/ FailTaskRequeue(w)
           \/ FailTaskRequeued(w) \/ FailTaskFail(w) \/ HandleDeadWorker(w)
    PROVE  VerdictInv'
<1>0. w \in Threads /\ Daemon \in Threads /\ thr[w] \in ThreadState /\ TypeInv
  BY ThreadsType, LocalsType DEF Stepped
<1>1. CASE GetReadyTask(w)
  <2>1. UNCHANGED thr /\ (UNCHANGED dbVars \/ \E t, e : TxAssignTask(t, e))
    BY ZenonT(30), <1>1 DEF GetReadyTask
  <2>2. NoSkip
    BY ZenonT(30), <1>0, <2>1, TxNoSkip
  <2> QED
    BY ZenonT(30), <1>0, <2>1, <2>2, VerdictElsewhere
<1>2. CASE Heartbeat(w)
  <2>1. UNCHANGED thr /\ UNCHANGED dbVars
    BY ZenonT(30), <1>2 DEF Heartbeat
  <2> QED
    BY ZenonT(30), <1>0, <2>1, TxNoSkip, VerdictElsewhere
<1>3. ASSUME NEW t, NEW o, NEW p \in {"ctTx", "ftRead"}, ResultArrives(w, t, o, p) PROVE VerdictInv'
  <2>1. PICK e : UNCHANGED dbVars /\ (UNCHANGED thr \/ Becomes(w, [Idle EXCEPT !.pc = p, !.task = t, !.eid = e]))
    BY ZenonT(30), <1>3 DEF ResultArrives
  <2>2. [Idle EXCEPT !.pc = p, !.task = t, !.eid = e].pc \notin SettlePCs
    BY DEF Idle, SettlePCs
  <2> QED
    BY ZenonT(30), <1>0, <2>1, <2>2, TxNoSkip, VerdictElsewhere
<1>4. CASE CompleteTaskTx(w)
  <2> DEFINE r == [thr[w] EXCEPT !.pc = "ctClean", !.out = Unlocked(thr[w].task)]
  <2>1. \/ TxCompleteTask(thr[w].task, thr[w].eid) /\ Becomes(w, r)
        \/ UNCHANGED dbVars /\ Becomes(w, Idle)
    BY ZenonT(30), <1>4 DEF CompleteTaskTx, Return
  <2>2. r.pc \notin SettlePCs /\ Idle.pc \notin SettlePCs
    BY <1>0 DEF ThreadState, Idle, SettlePCs
  <2> HIDE DEF r
  <2> QED
    BY ZenonT(30), <1>0, <2>1, <2>2, TxNoSkip, VerdictElsewhere
<1>5. CASE FailTaskRead(w)
  <2> DEFINE n == attempts[thr[w].task] + 1
  <2> DEFINE r == [thr[w] EXCEPT !.att = n, !.pc = IF n < RetryLimit(thr[w].task) THEN "ftRequeue" ELSE "ftFail"]
  <2>1. UNCHANGED dbVars /\ Becomes(w, r)
    BY ZenonT(30), <1>5 DEF FailTaskRead
  <2>2. r.pc \notin SettlePCs
    BY <1>0 DEF ThreadState, SettlePCs
  <2> HIDE DEF r
  <2> QED
    BY ZenonT(30), <1>0, <2>1, <2>2, TxNoSkip, VerdictElsewhere
<1>6. CASE FailTaskRequeue(w) \/ FailTaskFail(w)
  <2>1. PICK p \in {"ftRequeued", "ftFailed"} : Becomes(w, [thr[w] EXCEPT !.pc = p])
    BY ZenonT(30), <1>6 DEF FailTaskRequeue, FailTaskFail, Goto
  <2>2. TxRequeueTask(thr[w].task) \/ TxFailTask(thr[w].task, thr[w].att)
    BY ZenonT(30), <1>6 DEF FailTaskRequeue, FailTaskFail
  <2>3. [thr[w] EXCEPT !.pc = p].pc \notin SettlePCs
    BY <1>0 DEF ThreadState, SettlePCs
  <2> QED
    BY ZenonT(30), <1>0, <2>1, <2>2, <2>3, TxNoSkip, VerdictElsewhere
<1>7. CASE FailTaskRequeued(w)
  <2>1. UNCHANGED dbVars /\ Becomes(w, Idle)
    BY ZenonT(30), <1>7 DEF FailTaskRequeued, Return
  <2>2. Idle.pc \notin SettlePCs
    BY DEF Idle, SettlePCs
  <2> QED
    BY ZenonT(30), <1>0, <2>1, <2>2, TxNoSkip, VerdictElsewhere
<1>8. CASE HandleDeadWorker(w)
  <2>1. PICK dead : UNCHANGED dbVars /\ Becomes(Daemon, [Idle EXCEPT !.pc = "dwRequeue", !.who = w, !.todo = dead])
    BY ZenonT(30), <1>8 DEF HandleDeadWorker
  <2>2. [Idle EXCEPT !.pc = "dwRequeue", !.who = w, !.todo = dead].pc \notin SettlePCs
    BY DEF Idle, SettlePCs
  <2> QED
    BY ZenonT(30), <1>0, <2>1, <2>2, TxNoSkip, VerdictElsewhere
<1> QED
  BY ZenonT(30), <1>1, <1>2, <1>3, <1>4, <1>5, <1>6, <1>7, <1>8 DEF Receive, CompleteTask, FailTask

\* Submissions.
LEMMA SubmitVerdict ==
    ASSUME Stepped, VerdictInv, NEW c \in Clients, SubmitWorkflow(c) \/ SubmitStep(c)
    PROVE  VerdictInv'
<1>0. c \in Threads /\ thr[c] \in ThreadState /\ TypeInv
  BY ThreadsType, LocalsType DEF Stepped
<1>1. CASE SubmitWorkflow(c)
  <2>1. PICK wf : Becomes(c, [Idle EXCEPT !.pc = "sbInitWf", !.wf = wf]) /\ TxStoreWorkflow(wf)
    BY ZenonT(30), <1>1 DEF SubmitWorkflow
  <2>2. NoSkip
    BY <2>1 DEF NoSkip, TxStoreWorkflow, taskVars
  <2>3. [Idle EXCEPT !.pc = "sbInitWf", !.wf = wf].pc \notin SettlePCs
    BY DEF Idle, SettlePCs
  <2> QED
    BY ZenonT(30), <1>0, <2>1, <2>2, <2>3, VerdictElsewhere
<1>2. CASE SubmitInitWorkflow(c)
  <2>1. /\ Becomes(c, [thr[c] EXCEPT !.pc = "sbInitTasks"]) /\ UNCHANGED taskState
        /\ wfState' = [wfState EXCEPT ![thr[c].wf] = "RUNNING"]
    BY <1>2 DEF SubmitInitWorkflow, TxSetWorkflowState, Goto, taskVars
  <2>2. \A y \in Threads : thr'[y] = thr[y] \/ thr'[y].pc = "sbInitTasks"
    BY <1>0, <2>1 DEF Becomes, ThreadState, TypeInv, TypeOK
  <2>3. \A y \in Threads : thr'[y] = thr[y] \/ thr'[y].pc \notin SettlePCs
    BY <2>2 DEF SettlePCs
  <2>4. \A wf \in Workflows : wfState'[wf] \in {wfState[wf], "RUNNING"}
    BY <1>0, <2>1 DEF TypeInv, TypeOK, StoreTypeOK
  <2> QED
    BY ZenonT(30), <2>1, <2>3, <2>4, VerdictQuiet
<1>3. CASE SubmitInitTasks(c)
  <2>1. TxInitializeTasks(thr[c].wf) /\ Becomes(c, [thr[c] EXCEPT !.pc = "sbLock"])
    BY ZenonT(30), <1>3 DEF SubmitInitTasks, Goto
  <2>2. [thr[c] EXCEPT !.pc = "sbLock"].pc \notin SettlePCs
    BY <1>0 DEF ThreadState, SettlePCs
  <2> QED
    BY ZenonT(30), <1>0, <2>1, <2>2, TxNoSkip, VerdictElsewhere
<1>4. CASE SubmitLock(c)
  <2>1. PICK T : UNCHANGED dbVars /\ Becomes(c, [thr[c] EXCEPT !.pc = "sbQueue", !.todo = T])
    BY ZenonT(30), <1>4 DEF SubmitLock
  <2>2. [thr[c] EXCEPT !.pc = "sbQueue", !.todo = T].pc \notin SettlePCs
    BY <1>0 DEF ThreadState, SettlePCs
  <2> QED
    BY ZenonT(30), <1>0, <2>1, <2>2, TxNoSkip, VerdictElsewhere
<1>5. CASE SubmitQueue(c)
  <2>1. PICK t : TxUpdateTaskState(t, "QUEUED") /\ Becomes(c, [thr[c] EXCEPT !.todo = @ \ {t}])
    BY ZenonT(30), <1>5 DEF SubmitQueue
  <2>2. [thr[c] EXCEPT !.todo = @ \ {t}].pc \notin SettlePCs
    BY <1>0, <1>5 DEF SubmitQueue, At, ThreadState, SettlePCs
  <2> QED
    BY ZenonT(30), <1>0, <2>1, <2>2, TxNoSkip, VerdictElsewhere
<1>6. CASE SubmitReturn(c)
  <2>1. UNCHANGED dbVars /\ Becomes(c, Idle)
    BY ZenonT(30), <1>6 DEF SubmitReturn, Return
  <2>2. Idle.pc \notin SettlePCs
    BY DEF Idle, SettlePCs
  <2> QED
    BY ZenonT(30), <1>0, <2>1, <2>2, TxNoSkip, VerdictElsewhere
<1> QED
  BY <1>1, <1>2, <1>3, <1>4, <1>5, <1>6 DEF SubmitStep

\* The monitor, recovery, crashes.
LEMMA DaemonVerdict ==
    ASSUME Stepped, VerdictInv, DaemonStep \/ Crash
    PROVE  VerdictInv'
<1>0. Daemon \in Threads /\ thr[Daemon] \in ThreadState /\ TypeInv
  BY ThreadsType, LocalsType DEF Stepped
<1>1. CASE DeadRequeue
  <2>1. PICK t : TxRequeueTask(t)
               /\ Becomes(Daemon, [thr[Daemon] EXCEPT !.pc = "dwAppend", !.task = t, !.todo = @ \ {t}])
    BY ZenonT(30), <1>1 DEF DeadRequeue
  <2>2. [thr[Daemon] EXCEPT !.pc = "dwAppend", !.task = t, !.todo = @ \ {t}].pc \notin SettlePCs
    BY <1>0 DEF ThreadState, SettlePCs
  <2> QED
    BY ZenonT(30), <1>0, <2>1, <2>2, TxNoSkip, VerdictElsewhere
<1>2. CASE DeadAppend \/ DeadRemove
  <2>1. /\ UNCHANGED dbVars
        /\ Becomes(Daemon, Idle) \/ \E p \in {"dwRequeue", "dwForget"} : Becomes(Daemon, [thr[Daemon] EXCEPT !.pc = p])
    BY ZenonT(30), <1>2 DEF DeadAppend, DeadRemove, Goto, Return
  <2>2. Idle.pc \notin SettlePCs /\ \A p \in {"dwRequeue", "dwForget"} : [thr[Daemon] EXCEPT !.pc = p].pc \notin SettlePCs
    BY <1>0 DEF ThreadState, Idle, SettlePCs
  <2> QED
    BY ZenonT(30), <1>0, <2>1, <2>2, TxNoSkip, VerdictElsewhere
<1>3. CASE LoadStateFromDB \/ Start
  <2> DEFINE r == [Idle EXCEPT !.pc = "rcRequeue", !.todo = Interrupted]
  <2>1. UNCHANGED dbVars /\ (Becomes(Daemon, r) \/ Becomes(Daemon, Idle))
    BY ZenonT(30), <1>3 DEF LoadStateFromDB, Start, Return
  <2>2. r.pc \notin SettlePCs /\ Idle.pc \notin SettlePCs
    BY DEF Idle, SettlePCs
  <2> HIDE DEF r
  <2> QED
    BY ZenonT(30), <1>0, <2>1, <2>2, TxNoSkip, VerdictElsewhere
<1>4. CASE PrepareRecovery
  <2>1. PICK t : TxRequeueTask(t) /\ Becomes(Daemon, [thr[Daemon] EXCEPT !.todo = @ \ {t}])
    BY ZenonT(30), <1>4 DEF PrepareRecovery
  <2>2. [thr[Daemon] EXCEPT !.todo = @ \ {t}].pc \notin SettlePCs
    BY <1>0, <1>4 DEF PrepareRecovery, ThreadState, SettlePCs
  <2> QED
    BY ZenonT(30), <1>0, <2>1, <2>2, TxNoSkip, VerdictElsewhere
<1>5. CASE Crash
  <2>1. UNCHANGED dbVars /\ \A y \in Threads : thr'[y] = Idle
    BY ZenonT(30), <1>5 DEF Crash
  <2>2. NoSkip
    BY ZenonT(30), <1>0, <2>1, TxNoSkip
  <2>3. \A y \in Threads : thr'[y].pc \notin SettlePCs
    BY <2>1 DEF Idle, SettlePCs
  <2> QED
    BY <2>2, <2>3, VerdictQuiet DEF NoSkip
<1> QED
  BY <1>1, <1>2, <1>3, <1>4, <1>5 DEF DaemonStep

\* Every step preserves the verdicts.
LEMMA VerdictNext ==
    ASSUME Stepped, VerdictInv, [Next]_vars
    PROVE  VerdictInv'
<1>0. Workers \subseteq Threads /\ Clients \subseteq Threads /\ Daemon \in Threads /\ TypeInv
  BY ThreadsType DEF Stepped
<1>1. ASSUME NEW w \in Workers, Receive(w) \/ ResultStep(w) \/ HandleDeadWorker(w) PROVE VerdictInv'
  BY ZenonT(30), <1>0, <1>1, WorkerVerdict, CheckVerdict, ResultVerdict, SkipVerdict DEF ResultStep
<1>2. ASSUME NEW c \in Clients, SubmitWorkflow(c) \/ CancelWorkflow(c) \/ SubmitStep(c) PROVE VerdictInv'
  BY ZenonT(30), <1>0, <1>2, SubmitVerdict, CancelVerdict
<1>3. ASSUME NEW x \in Workers \cup Clients, CancelStep(x) PROVE VerdictInv'
  BY ZenonT(30), <1>0, <1>3, CheckVerdict, CancelVerdict DEF CancelStep
<1>4. CASE DaemonStep
  BY ZenonT(30), <1>4, DaemonVerdict
<1>5. CASE EnvStep
  <2>1. ASSUME NEW w \in Workers, WorkerCrash(w) \/ StreamBreak(w) PROVE UNCHANGED <<dbVars, thr>>
    BY ZenonT(30), <2>1 DEF WorkerCrash, StreamBreak
  <2> QED
    BY ZenonT(30), <1>0, <1>5, <2>1, DaemonVerdict, StoreErrorVerdict, TxNoSkip, VerdictElsewhere DEF EnvStep
<1>6. CASE UNCHANGED vars
  BY ZenonT(30), <1>0, <1>6, TxNoSkip, VerdictElsewhere DEF vars
<1> QED
  BY ZenonT(30), <1>1, <1>2, <1>3, <1>4, <1>5, <1>6 DEF Next

LEMMA VerdictInit == Init => VerdictInv
<1> SUFFICES ASSUME Init PROVE VerdictInv
  OBVIOUS
<1>1. \A t \in Tasks : taskState[t] = "ABSENT"
  BY DEF Init, StoreInit
<1>2. \A wf \in Workflows : wfState[wf] = "ABSENT"
  BY DEF Init, StoreInit
<1>3. \A x \in Threads : thr[x].pc = "idle"
  BY DEF Init, Idle
<1> QED
  BY ZenonT(30), <1>1, <1>2, <1>3 DEF VerdictInv, Settling, SettlePCs

\* What the invariant says of a settled workflow.
LEMMA VerdictFollows ==
    ASSUME TypeInv, VerdictInv
    PROVE  VerdictStands
<1> SUFFICES ASSUME NEW wf \in Workflows, Plain(wf)
             PROVE  /\ wfState[wf] = "COMPLETE" => \A t \in TasksOf(wf) : taskState[t] = "COMPLETE"
                    /\ wfState[wf] = "FAILED" => /\ \A t \in TasksOf(wf) : taskState[t] \in Terminal
                                                 /\ \E t \in TasksOf(wf) : taskState[t] = "FAILED"
  BY ZenonT(30) DEF VerdictStands, Plain
<1>1. wfState[wf] \in {"COMPLETE", "FAILED"} => Done(wf) /\ wfState[wf] = FinalState(wf)
  BY DEF VerdictInv
<1>2. Done(wf) => Recorded(wf) = TasksOf(wf)
  BY DEF Done, Recorded, TasksOf, Terminal
<1>3. ASSUME wfState[wf] = "COMPLETE", NEW t \in TasksOf(wf) PROVE taskState[t] = "COMPLETE"
  <2>1. Done(wf) /\ ~HasFailure(wf)
    BY <1>1, <1>2, <1>3 DEF FinalState, HasFailure
  <2>2. t \in Tasks /\ WfOf[t] = wf
    BY DEF TasksOf
  <2>3. taskState[t] # "SKIPPED"
    BY ZenonT(30), <2>1, <2>2 DEF VerdictInv
  <2> QED
    BY <2>1, <2>3 DEF Done, HasFailure, Terminal
<1>4. ASSUME wfState[wf] = "FAILED"
      PROVE  (\A t \in TasksOf(wf) : taskState[t] \in Terminal) /\ \E t \in TasksOf(wf) : taskState[t] = "FAILED"
  BY <1>1, <1>2, <1>4 DEF FinalState, Done
<1> QED
  BY <1>3, <1>4

-----------------------------------------------------------------------------
(* The promised lifecycle. *)

\* Nothing cancels anything.
AllPlain == \A wf \in Workflows : Plain(wf)

\* Where the steps of the lifecycle are shown.
Lived == Stepped /\ VerdictInv /\ AllPlain /\ LifeInv

\* A step of the lifecycle, or one that is invisible in it.
LifeStep == Lifecycle!Next \/ UNCHANGED <<taskState, wfState>>

\* A task that has been unlocked is not SKIPPED.
LEMMA PlacedNotSkipped ==
    ASSUME Lived, NEW t \in Tasks, Placed(t) PROVE taskState[t] # "SKIPPED"
<1>1. WfOf[t] \in Workflows
  BY StoreAssumption
<1> QED
  BY ZenonT(30), <1>1, BlockedUnplaced DEF Lived, Stepped, VerdictInv, AllPlain

\* One task moves.
LEMMA MoveTask ==
    ASSUME NEW t \in Tasks, NEW to, taskState' = [taskState EXCEPT ![t] = to], wfState' = wfState,
           \/ taskState[t] = "QUEUED" /\ to = "RUNNING"
           \/ taskState[t] = "RUNNING" /\ to \in {"QUEUED", "FAILED"}
           \/ taskState[t] = "PENDING" /\ to = "QUEUED" /\ Deps[t] = {}
           \/ taskState[t] = "PENDING" /\ to = "SKIPPED" /\ \E d \in Deps[t] : taskState[d] \in {"FAILED", "SKIPPED"}
    PROVE  LifeStep
<1>1. CASE taskState[t] = "QUEUED" /\ to = "RUNNING"
  BY ZenonT(30), <1>1 DEF LifeStep, Lifecycle!Next, Lifecycle!Assign, Lifecycle!Move
<1>2. CASE taskState[t] = "RUNNING" /\ to = "QUEUED"
  BY ZenonT(30), <1>2 DEF LifeStep, Lifecycle!Next, Lifecycle!Requeue, Lifecycle!Move
<1>3. CASE taskState[t] = "RUNNING" /\ to = "FAILED"
  BY ZenonT(30), <1>3 DEF LifeStep, Lifecycle!Next, Lifecycle!Fail, Lifecycle!Move
<1>4. CASE taskState[t] = "PENDING" /\ to = "QUEUED" /\ Deps[t] = {}
  BY ZenonT(30), <1>4 DEF LifeStep, Lifecycle!Next, Lifecycle!QueueRoot, Lifecycle!Move
<1>5. CASE taskState[t] = "PENDING" /\ to = "SKIPPED" /\ \E d \in Deps[t] : taskState[d] \in {"FAILED", "SKIPPED"}
  BY ZenonT(30), <1>5 DEF LifeStep, Lifecycle!Next, Lifecycle!Skip, Lifecycle!Move
<1> QED
  BY <1>1, <1>2, <1>3, <1>4, <1>5

\* A set with t in it has at most one element just if t is the only one.
LEMMA OnlyOne ==
    ASSUME NEW S, IsFiniteSet(S), NEW t \in S PROVE Cardinality(S) <= 1 <=> S \subseteq {t}
<1>1. IsFiniteSet(S \ {t}) /\ Cardinality(S \ {t}) = Cardinality(S) - 1
  BY FS_RemoveElement
<1>2. Cardinality(S) \in Nat /\ Cardinality(S \ {t}) \in Nat
  BY <1>1, FS_CardinalityType
<1>3. Cardinality(S \ {t}) = 0 <=> S \ {t} = {}
  BY ZenonT(30), <1>1, FS_EmptySet
<1> QED
  BY <1>1, <1>2, <1>3

\* The transaction of CompleteTask unlocks what the lifecycle unlocks.
LEMMA CompleteLife ==
    ASSUME Lived, NEW w \in Workers, CompleteTaskTx(w) PROVE LifeStep
<1>1. PICK t : t = thr[w].task
  OBVIOUS
<1>2. thr[w].pc = "ctTx"
  BY DEF CompleteTaskTx, At
<1>3. t \in Tasks /\ taskState[t] = "RUNNING"
  BY ZenonT(30), <1>1, <1>2, ResultRecord, PlacedNotSkipped DEF Lived, Stepped, ResultPCs, BeforeTx
<1>4. CASE UNCHANGED dbVars
  BY <1>4 DEF LifeStep, dbVars
<1>5. CASE TxCompleteTask(t, thr[w].eid)
  <2> DEFINE Open(u) == {d \in Deps[u] : taskState[d] # "COMPLETE"}
  <2>1. ASSUME NEW u \in Tasks, u # t
        PROVE  u \in Unlocked(t) <=> /\ taskState[u] = "PENDING" /\ t \in Deps[u]
                                     /\ \A d \in Deps[u] \ {t} : taskState[d] = "COMPLETE"
    <3>1. CASE taskState[u] = "PENDING" /\ t \in Deps[u]
      <4>1. IsFiniteSet(Open(u))
        <5>1. Open(u) \subseteq Tasks /\ IsFiniteSet(Tasks)
          BY StoreAssumption
        <5> QED
          BY <5>1, FS_Subset
      <4>2. t \in Open(u)
        BY <1>3, <3>1
      <4>3. inDegree[u] = Cardinality(Open(u))
        BY ZenonT(30), <3>1 DEF Lived, Stepped, TokenInv, InDegreeExact
      <4>4. inDegree[u] <= 1 <=> Open(u) \subseteq {t}
        <5> HIDE DEF Open
        <5> QED
          BY <4>1, <4>2, <4>3, OnlyOne
      <4>5. u \in Unlocked(t) <=> inDegree[u] <= 1
        BY <1>3, <3>1 DEF Unlocked, Unlocks, Downstream
      <4>6. Open(u) \subseteq {t} <=> \A d \in Deps[u] \ {t} : taskState[d] = "COMPLETE"
        BY ZenonT(30)
      <4> QED
        BY ZenonT(30), <3>1, <4>4, <4>5, <4>6
    <3>2. CASE ~(taskState[u] = "PENDING" /\ t \in Deps[u])
      BY ZenonT(30), <1>3, <3>2 DEF Unlocked, Unlocks, Downstream
    <3> QED
      BY ZenonT(30), <3>1, <3>2
  <2>2. taskState' = [u \in Tasks |-> IF u = t THEN "COMPLETE"
                                      ELSE IF u \in Unlocked(t) THEN "QUEUED" ELSE taskState[u]]
    BY <1>5 DEF TxCompleteTask
  <2>3. taskState' = [u \in Tasks |->
                         IF u = t THEN "COMPLETE"
                         ELSE IF /\ taskState[u] = "PENDING" /\ t \in Deps[u]
                                 /\ \A d \in Deps[u] \ {t} : taskState[d] = "COMPLETE"
                              THEN "QUEUED"
                         ELSE taskState[u]]
    BY <2>1, <2>2
  <2>4. Lifecycle!Complete(t)
    BY ZenonT(30), <1>3, <1>5, <2>3 DEF Lifecycle!Complete, TxCompleteTask
  <2> QED
    BY ZenonT(30), <1>3, <2>4 DEF LifeStep, Lifecycle!Next
<1> QED
  BY ZenonT(30), <1>1, <1>4, <1>5 DEF CompleteTaskTx

\* The other steps of a stream handler.
LEMMA WorkerLife ==
    ASSUME Lived, NEW w \in Workers, Receive(w) \/ ResultStep(w) \/ HandleDeadWorker(w)
    PROVE  LifeStep
<1>1. PICK t : t = thr[w].task
  OBVIOUS
<1>2. thr[w].pc \in BeforeTx => t \in Tasks /\ taskState[t] = "RUNNING"
  BY ZenonT(30), <1>1, ResultRecord, PlacedNotSkipped DEF Lived, Stepped, ResultPCs, BeforeTx
<1>3. CASE GetReadyTask(w)
  <2>1. PICK h : h = Head(readyQueue)
    OBVIOUS
  <2>2. InQueue(h) /\ h \in Tasks
    <3>1. readyQueue \in Seq(Tasks) /\ readyQueue # <<>>
      BY ZenonT(30), <1>3 DEF GetReadyTask, Lived, Stepped, TypeInv, TypeOK
    <3> QED
      BY <2>1, <3>1 DEF InQueue
  <2>3. taskState[h] = "QUEUED"
    <3>1. taskState[h] \in {"QUEUED", "SKIPPED"}
      BY ZenonT(30), <2>2 DEF Lived, Stepped, TokenInv, TokenOK, TokenFit, Listed, InQueue
    <3>2. Placed(h)
      BY ZenonT(30), <2>2 DEF Placed, Touched
    <3> QED
      BY <2>2, <3>1, <3>2, PlacedNotSkipped
  <2>4. CASE \E e : TxAssignTask(h, e)
    BY ZenonT(30), <2>2, <2>3, <2>4, MoveTask DEF TxAssignTask
  <2>5. CASE UNCHANGED dbVars
    BY <2>5 DEF LifeStep, dbVars
  <2> QED
    BY ZenonT(30), <1>3, <2>1, <2>4, <2>5 DEF GetReadyTask
<1>4. CASE CompleteTaskTx(w)
  BY <1>4, CompleteLife
<1>5. CASE FailTaskRequeue(w)
  BY ZenonT(30), <1>1, <1>2, <1>5, MoveTask DEF FailTaskRequeue, At, BeforeTx, TxRequeueTask
<1>6. CASE FailTaskFail(w)
  BY ZenonT(30), <1>1, <1>2, <1>6, MoveTask DEF FailTaskFail, At, BeforeTx, TxFailTask
<1>7. CASE SkipWrite(w)
  <2>1. w \in Threads /\ thr[w].pc = "skipWrite" /\ thr[w] \in ThreadState
    BY <1>7, ThreadsType, LocalsType DEF SkipWrite, At, Lived, Stepped
  <2>2. t \in Tasks /\ t \in thr[w].seen
    BY ZenonT(30), <1>1, <2>1, LocalsType DEF Lived, Stepped, LocalsFit, SubmitInv, WalksStayBelow
  <2>3. taskState[t] \in {"PENDING", "SKIPPED"}
    BY ZenonT(30), <2>1, <2>2 DEF Lived, Stepped, TokenInv, WalkFit
  <2>4. \E d \in Deps[t] : taskState[d] \in {"FAILED", "SKIPPED"}
    BY ZenonT(30), <1>1, <2>1 DEF Lived, LifeInv, WalkBelow
  <2>5. taskState' = [taskState EXCEPT ![t] = "SKIPPED"] /\ wfState' = wfState
    BY <1>1, <1>7 DEF SkipWrite, TxUpdateTaskState
  <2>6. CASE taskState[t] = "PENDING"
    BY ZenonT(30), <2>2, <2>4, <2>5, <2>6, MoveTask
  <2>7. CASE taskState[t] = "SKIPPED"
    <3>1. taskState \in [Tasks -> TaskStates \cup {"ABSENT"}]
      BY ZenonT(30) DEF Lived, Stepped, TypeInv, TypeOK, StoreTypeOK
    <3> QED
      BY <2>2, <2>5, <2>7, <3>1 DEF LifeStep
  <2> QED
    BY <2>3, <2>6, <2>7
<1>8. CASE \/ Heartbeat(w) \/ (\E u \in Tasks : CompleteTask(w, u) \/ FailTask(w, u))
           \/ CompleteTaskClean(w) \/ CheckDone(w) \/ CheckStatuses(w) \/ FailTaskRead(w)
           \/ FailTaskRequeued(w) \/ FailTaskFailed(w) \/ SkipVisit(w) \/ SkipDone(w) \/ HandleDeadWorker(w)
  <2>1. UNCHANGED dbVars
    BY ZenonT(30), <1>8 DEF Heartbeat, CompleteTask, FailTask, ResultArrives, CompleteTaskClean, CheckDone,
       CheckStatuses, FailTaskRead, FailTaskRequeued, FailTaskFailed, SkipVisit, SkipDone, HandleDeadWorker
  <2> QED
    BY <2>1 DEF LifeStep, dbVars
<1> QED
  BY ZenonT(30), <1>3, <1>4, <1>5, <1>6, <1>7, <1>8 DEF Receive, ResultStep

\* The workflow of a submission in its first steps.
LEMMA SubmitLife ==
    ASSUME Lived, NEW c \in Clients, SubmitWorkflow(c) \/ CancelWorkflow(c) \/ SubmitStep(c)
    PROVE  LifeStep
<1>1. PICK wf : wf = thr[c].wf
  OBVIOUS
<1>2. c \in Threads /\ thr[c] \in ThreadState /\ (thr[c].pc \in SubmitPCs => wf \in Workflows)
  BY ZenonT(30), <1>1, ThreadsType, LocalsType DEF Lived, Stepped, LocalsFit, SubmitPCs
<1>3. CASE SubmitInitWorkflow(c)
  <2>1. thr[c].pc = "sbInitWf" /\ wfState' = [wfState EXCEPT ![wf] = "RUNNING"] /\ taskState' = taskState
    BY ZenonT(30), <1>1, <1>3 DEF SubmitInitWorkflow, At, TxSetWorkflowState, taskVars
  <2>2. wf \in Workflows /\ wfState[wf] = "ABSENT"
    BY <1>1, <1>2, <2>1 DEF Lived, LifeInv, SubmitPCs
  <2> QED
    BY ZenonT(30), <2>1, <2>2 DEF LifeStep, Lifecycle!Next, Lifecycle!Accept
<1>4. CASE SubmitInitTasks(c)
  <2>1. /\ thr[c].pc = "sbInitTasks" /\ wfState' = wfState
        /\ taskState' = [t \in Tasks |-> IF WfOf[t] = wf THEN "PENDING" ELSE taskState[t]]
    BY ZenonT(30), <1>1, <1>4 DEF SubmitInitTasks, At, TxInitializeTasks
  <2>2. wf \in Workflows /\ wfState[wf] = "RUNNING"
    BY ZenonT(30), <1>1, <1>2, <2>1 DEF Lived, LifeInv, SubmitPCs
  <2>3. \A t \in Tasks : WfOf[t] = wf => taskState[t] = "ABSENT"
    BY ZenonT(30), <1>1, <2>1 DEF Lived, Stepped, SubmitInv, RecordsAppearTogether
  <2> QED
    BY ZenonT(30), <2>1, <2>2, <2>3 DEF LifeStep, Lifecycle!Next, Lifecycle!Create
<1>5. CASE SubmitQueue(c)
  <2>1. PICK t \in thr[c].todo : TxUpdateTaskState(t, "QUEUED") /\ thr[c].pc = "sbQueue"
    BY <1>5 DEF SubmitQueue, At
  <2>2. t \in Tasks /\ Deps[t] = {} /\ taskState[t] = "PENDING"
    <3>1. t \in Tasks
      BY ZenonT(30), <1>2, <2>1 DEF ThreadState
    <3>2. Deps[t] = {} /\ taskState[t] \in {"PENDING", "SKIPPED"}
      BY ZenonT(30), <2>1, <3>1 DEF Lived, Stepped, SubmitInv, RootsUntouched, Unqueued
    <3>3. WfOf[t] \in Workflows
      BY ZenonT(30), <3>1, StoreAssumption
    <3> QED
      BY ZenonT(30), <3>1, <3>2, <3>3, BlockedUnplaced DEF Lived, Stepped, VerdictInv, AllPlain
  <2> QED
    BY ZenonT(30), <2>1, <2>2, MoveTask DEF TxUpdateTaskState
<1>6. CASE SubmitWorkflow(c) \/ CancelWorkflow(c) \/ SubmitLock(c) \/ SubmitReturn(c)
  BY ZenonT(30), <1>6 DEF SubmitWorkflow, CancelWorkflow, SubmitLock, SubmitReturn, TxStoreWorkflow, taskVars, dbVars,
     LifeStep
<1> QED
  BY ZenonT(30), <1>3, <1>4, <1>5, <1>6 DEF SubmitStep

\* A workflow is settled once.
LEMMA CancelLife ==
    ASSUME Lived, NEW x \in Threads, CancelStep(x) PROVE LifeStep
<1>1. PICK wf : wf = thr[x].wf
  OBVIOUS
<1>2. Settling(thr[x]) /\ (thr[x].pc \in SettlePCs => wf \in Workflows /\ Plain(wf))
  BY ZenonT(30), <1>1, LocalsType DEF Lived, VerdictInv, Stepped, LocalsFit, SettlePCs, AllPlain
<1>3. CASE CancelTasks(x)
  BY <1>1, <1>2, <1>3 DEF CancelTasks, At, Settling, SettlePCs
<1>4. CASE FilterQueue(x)
  BY <1>4 DEF FilterQueue, dbVars, LifeStep
<1>5. CASE SetWorkflowState(x)
  <2>1. thr[x].pc = "setState" /\ taskState' = taskState /\ wfState' = [wfState EXCEPT ![wf] = thr[x].fin]
    BY ZenonT(30), <1>1, <1>5 DEF SetWorkflowState, At, TxSetWorkflowState, taskVars
  <2>2. wf \in Workflows /\ Plain(wf) /\ Done(wf) /\ thr[x].fin = FinalState(wf)
    BY ZenonT(30), <1>1, <1>2, <2>1 DEF Settling, SettlePCs
  <2>3. wfState[wf] # "ABSENT"
    <3>1. PICK t \in Tasks : WfOf[t] = wf /\ taskState[t] \in Terminal
      BY <2>2 DEF Done, TasksOf
    <3> QED
      BY <3>1 DEF Lived, LifeInv, Terminal
  <2>4. CASE wfState[wf] = "RUNNING"
    <3>1. FinalState(wf) = IF \E t \in {u \in Tasks : WfOf[u] = wf} : taskState[t] = "FAILED"
                           THEN "FAILED" ELSE "COMPLETE"
      BY DEF FinalState, Recorded, TasksOf
    <3>2. \A t \in {u \in Tasks : WfOf[u] = wf} : taskState[t] \in {"COMPLETE", "FAILED", "SKIPPED"}
      BY ZenonT(30), <2>2 DEF Done, TasksOf, Terminal
    <3>3. wfState' = [wfState EXCEPT ![wf] = IF \E t \in {u \in Tasks : WfOf[u] = wf} : taskState[t] = "FAILED"
                                             THEN "FAILED" ELSE "COMPLETE"]
      BY ZenonT(30), <2>1, <2>2, <3>1
    <3>4. Lifecycle!Settle(wf)
      BY ZenonT(30), <2>1, <2>4, <3>2, <3>3 DEF Lifecycle!Settle
    <3> QED
      BY ZenonT(30), <2>2, <3>4 DEF LifeStep, Lifecycle!Next
  <2>5. CASE wfState[wf] # "RUNNING"
    <3>1. wfState[wf] = FinalState(wf)
      BY ZenonT(30), <2>2, <2>3, <2>5 DEF Lived, VerdictInv
    <3>2. wfState \in [Workflows -> WfStates \cup {"ABSENT"}]
      BY ZenonT(30) DEF Lived, Stepped, TypeInv, TypeOK, StoreTypeOK
    <3> QED
      BY ZenonT(30), <2>1, <2>2, <3>1, <3>2 DEF LifeStep
  <2> QED
    BY <2>4, <2>5
<1> QED
  BY ZenonT(30), <1>3, <1>4, <1>5 DEF CancelStep

\* Dead workers and restarts requeue what runs; nothing else is visible.
LEMMA DaemonLife ==
    ASSUME Lived, DaemonStep \/ EnvStep PROVE LifeStep
<1>1. ASSUME NEW t \in thr[Daemon].todo, TxRequeueTask(t), thr[Daemon].pc \in {"dwRequeue", "rcRequeue"}
      PROVE  LifeStep
  <2>1. Daemon \in Threads /\ thr[Daemon] \in ThreadState
    BY ThreadsType, LocalsType DEF Lived, Stepped
  <2>2. t \in Tasks
    BY <2>1, <1>1 DEF ThreadState
  <2>3. taskState[t] \in {"RUNNING", "SKIPPED"}
    BY ZenonT(30), <1>1, <2>2 DEF Lived, Stepped, TokenInv, TokenOK, TokenFit, Lists
  <2>4. Placed(t)
    BY ZenonT(30), <1>1, <2>1, <2>2 DEF Placed, Touched, Relisted
  <2>5. taskState[t] = "RUNNING"
    BY ZenonT(30), <2>2, <2>3, <2>4, PlacedNotSkipped
  <2> QED
    BY ZenonT(30), <1>1, <2>2, <2>5, MoveTask DEF TxRequeueTask
<1>2. CASE DeadRequeue
  BY ZenonT(30), <1>1, <1>2 DEF DeadRequeue, At
<1>3. CASE PrepareRecovery
  BY ZenonT(30), <1>1, <1>3 DEF PrepareRecovery
<1>4. CASE DeadAppend \/ DeadRemove \/ LoadStateFromDB \/ Start \/ EnvStep
  <2>1. UNCHANGED dbVars
    BY ZenonT(30), <1>4 DEF DeadAppend, DeadRemove, LoadStateFromDB, Start, EnvStep, Crash, StoreError, WorkerCrash, StreamBreak
  <2> QED
    BY <2>1 DEF LifeStep, dbVars
<1> QED
  BY ZenonT(30), <1>2, <1>3, <1>4 DEF DaemonStep

\* Every step of the coordinator is a step of the lifecycle.
LEMMA EveryLifeStep ==
    ASSUME Lived, [Next]_vars PROVE LifeStep
<1>1. CASE UNCHANGED vars
  BY <1>1 DEF vars, dbVars, LifeStep
<1>2. ASSUME NEW x \in Workers \cup Clients, CancelStep(x) PROVE LifeStep
  BY ZenonT(30), <1>2, ThreadsType, CancelLife
<1> QED
  BY ZenonT(30), <1>1, <1>2, WorkerLife, SubmitLife, DaemonLife DEF Next
-----------------------------------------------------------------------------
(* What the lifecycle rests on is kept. *)

\* Failed and skipped tasks stay so.
LEMMA BelowStays ==
    ASSUME Lived, NEW t \in Tasks, \E d \in Deps[t] : taskState[d] \in {"FAILED", "SKIPPED"}
    PROVE  \E d \in Deps[t] : taskState'[d] \in {"FAILED", "SKIPPED"}
<1>1. PICK d \in Deps[t] : taskState[d] \in {"FAILED", "SKIPPED"}
  OBVIOUS
<1>2. d \in Tasks /\ WfOf[d] \in Workflows
  BY StoreAssumption
<1>3. taskState'[d] = taskState[d]
  BY <1>1, <1>2, TerminalStays DEF Lived, AllPlain, Terminal
<1> QED
  BY <1>1, <1>3

\* The tasks a walk has in hand.
LEMMA WalkTasks ==
    ASSUME Lived, NEW x \in Threads
    PROVE  /\ thr[x] \in ThreadState
           /\ thr[x].pc \in {"skip", "skipWrite"} =>
                 /\ thr[x].seen \in SUBSET Tasks /\ thr[x].todo \subseteq thr[x].seen
                 /\ \A t \in thr[x].seen : taskState[t] \in {"PENDING", "SKIPPED"}
           /\ thr[x].pc = "skipWrite" => thr[x].task \in thr[x].seen
<1>1. thr[x] \in ThreadState
  BY LocalsType DEF Lived, Stepped
<1>2. thr[x].seen \in SUBSET Tasks
  BY <1>1 DEF ThreadState
<1> QED
  BY ZenonT(30), <1>1, <1>2 DEF Lived, Stepped, SubmitInv, WalksStayBelow, TokenInv, WalkFit

LEMMA BelowKept ==
    ASSUME Lived, NEW x \in Threads, thr'[x] = thr[x]
    PROVE  WalkBelow(thr[x])'
<1>1. CASE thr[x].pc = "skip"
  <2>1. \A t \in thr[x].todo : t \in Tasks /\ \E d \in Deps[t] : taskState[d] \in {"FAILED", "SKIPPED"}
    BY ZenonT(30), <1>1, WalkTasks DEF Lived, LifeInv, WalkBelow
  <2>2. \A t \in thr[x].todo : \E d \in Deps[t] : taskState'[d] \in {"FAILED", "SKIPPED"}
    BY ZenonT(30), <2>1, BelowStays
  <2> QED
    BY <1>1, <2>2 DEF WalkBelow
<1>2. CASE thr[x].pc = "skipWrite"
  <2>1. PICK u : u = thr[x].task
    BY ZenonT(30)
  <2>2. thr[x].todo \subseteq Tasks /\ u \in Tasks
    BY <1>2, <2>1, WalkTasks
  <2>3. /\ \E d \in Deps[u] : taskState[d] \in {"FAILED", "SKIPPED"}
        /\ \A t \in thr[x].todo : u \in Deps[t] \/ \E d \in Deps[t] : taskState[d] \in {"FAILED", "SKIPPED"}
    BY ZenonT(30), <1>2, <2>1 DEF Lived, LifeInv, WalkBelow
  <2>4. /\ \E d \in Deps[u] : taskState'[d] \in {"FAILED", "SKIPPED"}
        /\ \A t \in thr[x].todo : u \in Deps[t] \/ \E d \in Deps[t] : taskState'[d] \in {"FAILED", "SKIPPED"}
    BY ZenonT(30), <2>2, <2>3, BelowStays
  <2> QED
    BY ZenonT(30), <1>2, <2>1, <2>4 DEF WalkBelow
<1> QED
  BY ZenonT(30), <1>1, <1>2 DEF WalkBelow

\* A record appears only in a workflow that has been accepted.
LEMMA RecordsAccepted ==
    ASSUME Lived, LifeStep, NEW t \in Tasks, taskState'[t] # "ABSENT"
    PROVE  wfState[WfOf[t]] # "ABSENT"
<1>1. taskState \in [Tasks -> TaskStates \cup {"ABSENT"}]
  BY ZenonT(30) DEF Lived, Stepped, TypeInv, TypeOK, StoreTypeOK
<1>2. CASE taskState[t] # "ABSENT"
  BY ZenonT(30), <1>2 DEF Lived, LifeInv
<1>3. CASE taskState[t] = "ABSENT"
  <2>1. ASSUME NEW u \in Tasks, NEW from, NEW to, Lifecycle!Move(u, from, to), from # "ABSENT" PROVE FALSE
    BY <1>1, <1>3, <2>1 DEF Lifecycle!Move
  <2>2. ASSUME NEW u \in Tasks, Lifecycle!Complete(u) PROVE FALSE
    BY <1>1, <1>3, <2>2 DEF Lifecycle!Complete
  <2>3. ASSUME NEW u \in Tasks,
               \/ Lifecycle!QueueRoot(u) \/ Lifecycle!Assign(u)
               \/ Lifecycle!Requeue(u) \/ Lifecycle!Fail(u) \/ Lifecycle!Skip(u)
        PROVE  FALSE
    BY <2>1, <2>3 DEF Lifecycle!QueueRoot, Lifecycle!Assign, Lifecycle!Requeue, Lifecycle!Fail, Lifecycle!Skip
  <2>4. ASSUME NEW wf \in Workflows, Lifecycle!Accept(wf) \/ Lifecycle!Settle(wf) PROVE FALSE
    BY <1>3, <2>4 DEF Lifecycle!Accept, Lifecycle!Settle
  <2>5. ASSUME NEW wf \in Workflows, Lifecycle!Create(wf) PROVE wfState[WfOf[t]] # "ABSENT"
    BY <1>3, <2>5 DEF Lifecycle!Create
  <2>6. taskState' # taskState
    BY <1>3
  <2> QED
    BY ZenonT(30), <2>2, <2>3, <2>4, <2>5, <2>6 DEF LifeStep, Lifecycle!Next
<1> QED
  BY ZenonT(30), <1>2, <1>3

LEMMA LifeKept ==
    ASSUME Lived, LifeStep,
           \A x \in Threads : thr'[x] = thr[x] \/ WalkBelow(thr[x])',
           \A c \in Clients : \/ thr'[c] = thr[c]
                              \/ thr'[c].pc = "sbInitWf" /\ wfState'[thr'[c].wf] = "ABSENT"
                              \/ thr'[c].pc = "sbInitTasks" /\ wfState'[thr'[c].wf] = "RUNNING"
                              \/ thr'[c].pc \notin {"sbInitWf", "sbInitTasks"},
           stored \subseteq stored',
           \A wf \in Workflows :
               \/ wfState'[wf] = wfState[wf]
               \/ /\ wf \in stored /\ wfState'[wf] # "ABSENT"
                  /\ \A c \in Clients : thr'[c] = thr[c] /\ thr[c].pc \in {"sbInitWf", "sbInitTasks"} => thr[c].wf # wf
    PROVE  LifeInv'
<1>1. \A x \in Threads : WalkBelow(thr[x])'
  BY ZenonT(30), BelowKept
<1>2. \A wf \in Workflows : wf \notin stored' => wfState'[wf] = "ABSENT"
  BY ZenonT(30) DEF Lived, LifeInv
<1>3. ASSUME NEW c \in Clients
      PROVE  /\ thr'[c].pc = "sbInitWf" => wfState'[thr'[c].wf] = "ABSENT"
             /\ thr'[c].pc = "sbInitTasks" => wfState'[thr'[c].wf] = "RUNNING"
  <2>1. CASE thr'[c] = thr[c] /\ thr[c].pc \in {"sbInitWf", "sbInitTasks"}
    <3>1. thr[c].wf \in Workflows
      BY ZenonT(30), <2>1, ThreadsType, LocalsType DEF Lived, Stepped, LocalsFit, SubmitPCs
    <3> QED
      BY ZenonT(30), <2>1, <3>1 DEF Lived, LifeInv
  <2> QED
    BY ZenonT(30), <2>1
<1>4. ASSUME NEW t \in Tasks, taskState'[t] # "ABSENT" PROVE wfState'[WfOf[t]] # "ABSENT"
  <2>1. WfOf[t] \in Workflows
    BY ZenonT(30), StoreAssumption
  <2>2. wfState[WfOf[t]] # "ABSENT"
    BY ZenonT(30), <1>4, RecordsAccepted
  <2> QED
    BY ZenonT(30), <2>1, <2>2
<1> QED
  BY ZenonT(30), <1>1, <1>2, <1>3, <1>4 DEF LifeInv

\* Labels at which a thread knows something of the lifecycle.
LifePCs == {"skip", "skipWrite", "sbInitWf", "sbInitTasks"}

LEMMA LifeQuiet ==
    ASSUME Lived, LifeStep, UNCHANGED <<wfState, stored>>,
           \A x \in Threads : thr'[x] = thr[x] \/ thr'[x].pc \notin LifePCs
    PROVE  LifeInv'
<1>1. \A x \in Threads : thr'[x] = thr[x] \/ WalkBelow(thr[x])'
  BY ZenonT(30) DEF WalkBelow, LifePCs
<1>2. \A c \in Clients : thr'[c] = thr[c] \/ thr'[c].pc \notin {"sbInitWf", "sbInitTasks"}
  BY ThreadsType DEF LifePCs
<1> QED
  BY ZenonT(30), <1>1, <1>2, LifeKept

\* A step of one thread, which reaches r.
LEMMA LifeElsewhere ==
    ASSUME Lived, LifeStep, UNCHANGED <<wfState, stored>>, NEW x \in Threads, NEW r, Becomes(x, r),
           r.pc \notin LifePCs
    PROVE  LifeInv'
<1>1. \A y \in Threads : thr'[y] = thr[y] \/ thr'[y].pc \notin LifePCs
  BY ZenonT(30) DEF Becomes, Lived, Stepped, TypeInv, TypeOK
<1> QED
  BY ZenonT(30), <1>1, LifeQuiet

\* A step of a walk, which reaches r.
LEMMA LifeWalks ==
    ASSUME Lived, LifeStep, UNCHANGED <<wfState, stored>>, NEW x \in Threads, NEW r, Becomes(x, r),
           r.pc \in {"skip", "skipWrite"}, WalkBelow(thr[x])'
    PROVE  LifeInv'
<1>1. thr'[x] = r /\ \A y \in Threads : y # x => thr'[y] = thr[y]
  BY ZenonT(30) DEF Becomes, Lived, Stepped, TypeInv, TypeOK
<1>2. \A y \in Threads : thr'[y] = thr[y] \/ WalkBelow(thr[y])'
  BY ZenonT(30), <1>1 DEF WalkBelow
<1>3. \A c \in Clients : thr'[c] = thr[c] \/ thr'[c].pc \notin {"sbInitWf", "sbInitTasks"}
  BY ZenonT(30), <1>1, ThreadsType
<1> QED
  BY ZenonT(30), <1>2, <1>3, LifeKept

LEMMA SkipLife ==
    ASSUME Lived, LifeStep, NEW x \in Threads, SkipVisit(x) \/ SkipWrite(x)
    PROVE  LifeInv'
<1>1. /\ thr[x] \in ThreadState /\ thr[x].pc \in {"skip", "skipWrite"}
      /\ thr[x].seen \in SUBSET Tasks /\ thr[x].todo \subseteq thr[x].seen
      /\ \A t \in thr[x].seen : taskState[t] \in {"PENDING", "SKIPPED"}
      /\ WalkBelow(thr[x])
  BY ZenonT(30), WalkTasks DEF SkipVisit, SkipWrite, At, Lived, LifeInv
<1>2. CASE SkipVisit(x)
  <2>1. PICK u \in thr[x].todo : Becomes(x, [thr[x] EXCEPT
            !.todo = (@ \ {u}) \cup (Downstream(u) \ thr[x].seen),
            !.seen = @ \cup (Downstream(u) \ thr[x].seen), !.task = u,
            !.pc = IF taskState[u] \in Terminal THEN "skip" ELSE "skipWrite"])
    BY ZenonT(30), <1>2 DEF SkipVisit
  <2> DEFINE r == [thr[x] EXCEPT
            !.todo = (@ \ {u}) \cup (Downstream(u) \ thr[x].seen),
            !.seen = @ \cup (Downstream(u) \ thr[x].seen), !.task = u,
            !.pc = IF taskState[u] \in Terminal THEN "skip" ELSE "skipWrite"]
  <2>2. Becomes(x, r) /\ UNCHANGED <<taskState, wfState, stored>> /\ thr[x].pc = "skip"
    BY ZenonT(30), <1>2, <2>1 DEF SkipVisit, dbVars, At
  <2>3. /\ r.pc = (IF taskState[u] \in Terminal THEN "skip" ELSE "skipWrite") /\ r.task = u
        /\ r.todo = (thr[x].todo \ {u}) \cup (Downstream(u) \ thr[x].seen)
    BY <1>1 DEF ThreadState
  <2>4. /\ \A t \in thr[x].todo : \E d \in Deps[t] : taskState[d] \in {"FAILED", "SKIPPED"}
        /\ taskState[u] \in Terminal => taskState[u] = "SKIPPED"
    BY <1>1, <2>2 DEF WalkBelow, Terminal
  <2>5. \A t \in Downstream(u) : u \in Deps[t]
    BY DEF Downstream
  <2> HIDE DEF r
  <2>0. thr'[x] = r
    BY ZenonT(30), <2>2 DEF Becomes, Lived, Stepped, TypeInv, TypeOK
  <2>6. WalkBelow(thr[x])'
    <3>1. CASE taskState[u] \in Terminal
      <4>1. \A t \in r.todo : \E d \in Deps[t] : taskState[d] \in {"FAILED", "SKIPPED"}
        BY ZenonT(30), <2>3, <2>4, <2>5, <3>1
      <4> QED
        BY ZenonT(30), <2>0, <2>2, <2>3, <3>1, <4>1 DEF WalkBelow
    <3>2. CASE taskState[u] \notin Terminal
      <4>1. \A t \in r.todo : u \in Deps[t] \/ \E d \in Deps[t] : taskState[d] \in {"FAILED", "SKIPPED"}
        BY ZenonT(30), <2>3, <2>4, <2>5
      <4> QED
        BY ZenonT(30), <2>0, <2>2, <2>3, <2>4, <3>2, <4>1 DEF WalkBelow
    <3> QED
      BY ZenonT(30), <3>1, <3>2
  <2>7. r.pc \in {"skip", "skipWrite"}
    BY <2>3
  <2> QED
    BY ZenonT(30), <2>2, <2>6, <2>7, LifeWalks
<1>3. CASE SkipWrite(x)
  <2>1. PICK u : u = thr[x].task
    OBVIOUS
  <2> DEFINE r == [thr[x] EXCEPT !.pc = "skip", !.out = @ \cup {u}]
  <2>2. /\ thr[x].pc = "skipWrite" /\ Becomes(x, r) /\ UNCHANGED <<wfState, stored>>
        /\ taskState' = [taskState EXCEPT ![u] = "SKIPPED"]
    BY <1>3, <2>1 DEF SkipWrite, At, TxUpdateTaskState
  <2>3. u \in Tasks /\ taskState'[u] = "SKIPPED"
    BY ZenonT(30), <1>1, <2>1, <2>2, WalkTasks DEF Lived, Stepped, TypeInv, TypeOK, StoreTypeOK
  <2>4. r.pc = "skip" /\ r.todo = thr[x].todo
    BY <1>1 DEF ThreadState
  <2> HIDE DEF r
  <2>5. \A t \in r.todo : t \in Tasks /\ (u \in Deps[t] \/ \E d \in Deps[t] : taskState[d] \in {"FAILED", "SKIPPED"})
    BY ZenonT(30), <1>1, <2>1, <2>2, <2>4 DEF WalkBelow
  <2>6. \A t \in r.todo : \E d \in Deps[t] : taskState'[d] \in {"FAILED", "SKIPPED"}
    BY ZenonT(30), <2>3, <2>5, BelowStays
  <2>7. thr'[x] = r
    BY ZenonT(30), <2>2 DEF Becomes, Lived, Stepped, TypeInv, TypeOK
  <2>8. WalkBelow(thr[x])'
    BY ZenonT(30), <2>4, <2>6, <2>7 DEF WalkBelow
  <2> QED
    BY ZenonT(30), <2>2, <2>4, <2>8, LifeWalks
<1> QED
  BY <1>2, <1>3

\* The other steps of a stream handler.
LEMMA WorkerLives ==
    ASSUME Lived, LifeStep, NEW w \in Workers, Receive(w) \/ ResultStep(w) \/ HandleDeadWorker(w)
    PROVE  LifeInv'
<1>0. w \in Threads /\ Daemon \in Threads /\ thr[w] \in ThreadState
  BY ThreadsType, LocalsType DEF Lived, Stepped
<1>1. UNCHANGED <<wfState, stored>>
  BY ZenonT(30) DEF Receive, ResultStep, HandleDeadWorker, GetReadyTask, Heartbeat, CompleteTask, FailTask, ResultArrives,
     CompleteTaskTx, CompleteTaskClean, CheckDone, CheckStatuses, FailTaskRead, FailTaskRequeue, FailTaskRequeued,
     FailTaskFail, FailTaskFailed, SkipVisit, SkipWrite, SkipDone, TxAssignTask, TxCompleteTask, TxRequeueTask,
     TxFailTask, TxUpdateTaskState, dbVars
<1>2. \A p \in PCs \ LifePCs : [thr[w] EXCEPT !.pc = p].pc \notin LifePCs
  BY <1>0 DEF ThreadState
<1>3. Idle.pc \notin LifePCs
  BY ZenonT(30) DEF Idle, LifePCs
<1>4. CASE GetReadyTask(w) \/ Heartbeat(w)
  BY ZenonT(30), <1>1, <1>4, LifeQuiet DEF GetReadyTask, Heartbeat
<1>5. ASSUME NEW t, NEW o, NEW p \in {"ctTx", "ftRead"}, ResultArrives(w, t, o, p) PROVE LifeInv'
  <2>1. PICK e : UNCHANGED thr \/ Becomes(w, [Idle EXCEPT !.pc = p, !.task = t, !.eid = e])
    BY ZenonT(30), <1>5 DEF ResultArrives
  <2>2. [Idle EXCEPT !.pc = p, !.task = t, !.eid = e].pc \notin LifePCs
    BY DEF Idle, LifePCs
  <2> QED
    BY ZenonT(30), <1>0, <1>1, <2>1, <2>2, LifeQuiet, LifeElsewhere
<1>6. CASE CompleteTaskTx(w)
  <2> DEFINE r == [thr[w] EXCEPT !.pc = "ctClean", !.out = Unlocked(thr[w].task)]
  <2>1. Becomes(w, r) \/ Becomes(w, Idle)
    BY ZenonT(30), <1>6 DEF CompleteTaskTx, Return
  <2>2. r.pc \notin LifePCs
    BY <1>0 DEF ThreadState, LifePCs
  <2> HIDE DEF r
  <2> QED
    BY ZenonT(30), <1>0, <1>1, <1>3, <2>1, <2>2, LifeElsewhere
<1>7. CASE CompleteTaskClean(w)
  <2> DEFINE r == [Idle EXCEPT !.pc = "chkDone", !.wf = WfOf[thr[w].task]]
  <2>1. Becomes(w, r) \/ Becomes(w, Idle)
    BY ZenonT(30), <1>7 DEF CompleteTaskClean, Return
  <2>2. r.pc \notin LifePCs
    BY DEF Idle, LifePCs
  <2> HIDE DEF r
  <2> QED
    BY ZenonT(30), <1>0, <1>1, <1>3, <2>1, <2>2, LifeElsewhere
<1>8. CASE CheckDone(w) \/ FailTaskRequeue(w) \/ FailTaskFail(w) \/ SkipDone(w)
  <2>1. Becomes(w, Idle) \/ \E p \in {"chkStatus", "ftRequeued", "ftFailed", "chkDone", "filter"} :
                                Becomes(w, [thr[w] EXCEPT !.pc = p])
    BY ZenonT(30), <1>8 DEF CheckDone, FailTaskRequeue, FailTaskFail, SkipDone, Goto, Return
  <2>2. {"chkStatus", "ftRequeued", "ftFailed", "chkDone", "filter"} \subseteq PCs \ LifePCs
    BY DEF PCs, LifePCs
  <2> QED
    BY ZenonT(30), <1>0, <1>1, <1>2, <1>3, <2>1, <2>2, LifeElsewhere
<1>9. CASE CheckStatuses(w)
  <2> DEFINE r == [thr[w] EXCEPT !.pc = "setState", !.fin = FinalState(thr[w].wf)]
  <2>1. Becomes(w, r)
    BY ZenonT(30), <1>9 DEF CheckStatuses
  <2>2. r.pc \notin LifePCs
    BY <1>0 DEF ThreadState, LifePCs
  <2> HIDE DEF r
  <2> QED
    BY ZenonT(30), <1>0, <1>1, <2>1, <2>2, LifeElsewhere
<1>10. CASE FailTaskRead(w)
  <2> DEFINE n == attempts[thr[w].task] + 1
  <2> DEFINE r == [thr[w] EXCEPT !.att = n, !.pc = IF n < RetryLimit(thr[w].task) THEN "ftRequeue" ELSE "ftFail"]
  <2>1. Becomes(w, r)
    BY ZenonT(30), <1>10 DEF FailTaskRead
  <2>2. r.pc \notin LifePCs
    BY <1>0 DEF ThreadState, LifePCs
  <2> HIDE DEF r
  <2> QED
    BY ZenonT(30), <1>0, <1>1, <2>1, <2>2, LifeElsewhere
<1>11. CASE FailTaskRequeued(w)
  BY ZenonT(30), <1>0, <1>1, <1>3, <1>11, LifeElsewhere DEF FailTaskRequeued, Return
<1>12. CASE FailTaskFailed(w)
  <2>1. PICK t : t = thr[w].task
    OBVIOUS
  <2>2. t \in Tasks /\ taskState[t] = "FAILED" /\ taskState'[t] = "FAILED"
    BY <1>12, <2>1, ResultRecord DEF FailTaskFailed, At, ResultPCs, Lived, Stepped, dbVars
  <2> DEFINE k == [Idle EXCEPT !.pc = "cancelTx", !.wf = WfOf[t], !.fin = "FAILED"]
  <2> DEFINE r == [Idle EXCEPT !.pc = "skip", !.wf = WfOf[t], !.todo = Downstream(t), !.seen = Downstream(t)]
  <2>3. Becomes(w, Idle) \/ Becomes(w, k) \/ Becomes(w, r)
    BY ZenonT(30), <1>12, <2>1 DEF FailTaskFailed, Return
  <2>4. k.pc \notin LifePCs /\ r.pc = "skip" /\ r.todo = Downstream(t)
    BY DEF Idle, LifePCs
  <2> HIDE DEF k, r
  <2>5. Becomes(w, r) => WalkBelow(thr[w])'
    <3>1. Becomes(w, r) => thr'[w] = r
      BY ZenonT(30), <1>0 DEF Becomes, Lived, Stepped, TypeInv, TypeOK
    <3> QED
      BY ZenonT(30), <2>2, <2>4, <3>1 DEF WalkBelow, Downstream
  <2> QED
    BY ZenonT(30), <1>0, <1>1, <1>3, <2>3, <2>4, <2>5, LifeElsewhere, LifeWalks
<1>13. CASE SkipVisit(w) \/ SkipWrite(w)
  BY ZenonT(30), <1>0, <1>13, SkipLife
<1>14. CASE HandleDeadWorker(w)
  <2>1. PICK dead : Becomes(Daemon, [Idle EXCEPT !.pc = "dwRequeue", !.who = w, !.todo = dead])
    BY ZenonT(30), <1>14 DEF HandleDeadWorker
  <2>2. [Idle EXCEPT !.pc = "dwRequeue", !.who = w, !.todo = dead].pc \notin LifePCs
    BY DEF Idle, LifePCs
  <2> QED
    BY ZenonT(30), <1>0, <1>1, <2>1, <2>2, LifeElsewhere
<1> QED
  BY ZenonT(30), <1>4, <1>5, <1>6, <1>7, <1>8, <1>9, <1>10, <1>11, <1>12, <1>13, <1>14
     DEF Receive, ResultStep, CompleteTask, FailTask

\* Submissions: one at a time for a workflow that has no state yet.
LEMMA SubmitLives ==
    ASSUME Lived, LifeStep, Resubmits = {}, NEW c \in Clients,
           SubmitWorkflow(c) \/ CancelWorkflow(c) \/ SubmitStep(c)
    PROVE  LifeInv'
<1>0. c \in Threads /\ thr[c] \in ThreadState /\ thr \in [Threads -> ThreadState]
  BY ZenonT(30), ThreadsType, LocalsType DEF Lived, Stepped, TypeInv, TypeOK
<1>1. CASE SubmitWorkflow(c)
  <2>1. PICK wf \in Workflows : /\ wf \notin stored /\ TxStoreWorkflow(wf)
                                /\ Becomes(c, [Idle EXCEPT !.pc = "sbInitWf", !.wf = wf])
    BY ZenonT(30), <1>1 DEF SubmitWorkflow
  <2>2. stored \subseteq stored' /\ wfState' = wfState
    BY <2>1 DEF TxStoreWorkflow
  <2>3. thr'[c].pc = "sbInitWf" /\ thr'[c].wf = wf /\ \A x \in Threads : x # c => thr'[x] = thr[x]
    BY <1>0, <2>1 DEF Becomes, Idle
  <2>4. wfState'[wf] = "ABSENT"
    BY <2>1, <2>2 DEF Lived, LifeInv
  <2>5. \A x \in Threads : thr'[x] = thr[x] \/ WalkBelow(thr[x])'
    BY ZenonT(30), <2>3 DEF WalkBelow
  <2>6. \A d \in Clients : thr'[d] = thr[d] \/ (thr'[d].pc = "sbInitWf" /\ wfState'[thr'[d].wf] = "ABSENT")
    BY ZenonT(30), <2>3, <2>4, ThreadsType
  <2> QED
    BY ZenonT(30), <2>2, <2>5, <2>6, LifeKept
<1>2. CASE SubmitInitWorkflow(c)
  <2>1. PICK wf : wf = thr[c].wf
    OBVIOUS
  <2>2. /\ thr[c].pc = "sbInitWf" /\ Becomes(c, [thr[c] EXCEPT !.pc = "sbInitTasks"])
        /\ wfState' = [wfState EXCEPT ![wf] = "RUNNING"] /\ stored' = stored
    BY <1>2, <2>1 DEF SubmitInitWorkflow, At, Goto, TxSetWorkflowState
  <2>3. wf \in stored /\ wf \in Workflows
    BY ZenonT(30), <2>1, <2>2 DEF Lived, Stepped, SubmitInv, SubmittersApart, SubmitPCs, TypeInv, TypeOK, StoreTypeOK
  <2>4. \A v \in Workflows : wfState'[v] = IF v = wf THEN "RUNNING" ELSE wfState[v]
    BY <2>2 DEF Lived, Stepped, TypeInv, TypeOK, StoreTypeOK
  <2>5. thr'[c].pc = "sbInitTasks" /\ thr'[c].wf = wf /\ \A x \in Threads : x # c => thr'[x] = thr[x]
    BY <1>0, <2>1, <2>2 DEF Becomes, ThreadState
  <2>6. \A x \in Threads : thr'[x] = thr[x] \/ WalkBelow(thr[x])'
    BY ZenonT(30), <2>5 DEF WalkBelow
  <2>7. \A d \in Clients : thr'[d] = thr[d] \/ (thr'[d].pc = "sbInitTasks" /\ wfState'[thr'[d].wf] = "RUNNING")
    BY <2>3, <2>4, <2>5, ThreadsType
  <2>8. ASSUME NEW d \in Clients, thr'[d] = thr[d], thr[d].pc \in {"sbInitWf", "sbInitTasks"} PROVE thr[d].wf # wf
    <3>1. d # c
      BY <2>2, <2>5, <2>8
    <3> QED
      BY <2>1, <2>2, <2>8, <3>1 DEF Lived, Stepped, SubmitInv, SubmittersApart, SubmitPCs
  <2>9. \A v \in Workflows :
            \/ wfState'[v] = wfState[v]
            \/ /\ v \in stored /\ wfState'[v] # "ABSENT"
               /\ \A d \in Clients : thr'[d] = thr[d] /\ thr[d].pc \in {"sbInitWf", "sbInitTasks"} => thr[d].wf # v
    BY <2>3, <2>4, <2>8
  <2>10. stored \subseteq stored'
    BY <2>2
  <2> QED
    BY ZenonT(30), <2>6, <2>7, <2>9, <2>10, LifeKept
<1>3. CASE SubmitInitTasks(c)
  <2>1. Becomes(c, [thr[c] EXCEPT !.pc = "sbLock"]) /\ UNCHANGED <<wfState, stored>>
    BY <1>3 DEF SubmitInitTasks, Goto, TxInitializeTasks
  <2>2. [thr[c] EXCEPT !.pc = "sbLock"].pc \notin LifePCs
    BY <1>0 DEF ThreadState, LifePCs
  <2> QED
    BY ZenonT(30), <1>0, <2>1, <2>2, LifeElsewhere
<1>4. CASE SubmitLock(c)
  <2>1. PICK T : Becomes(c, [thr[c] EXCEPT !.pc = "sbQueue", !.todo = T]) /\ UNCHANGED <<wfState, stored>>
    BY ZenonT(30), <1>4 DEF SubmitLock, dbVars
  <2>2. [thr[c] EXCEPT !.pc = "sbQueue", !.todo = T].pc \notin LifePCs
    BY <1>0 DEF ThreadState, LifePCs
  <2> QED
    BY ZenonT(30), <1>0, <2>1, <2>2, LifeElsewhere
<1>5. CASE SubmitQueue(c)
  <2>1. PICK t : Becomes(c, [thr[c] EXCEPT !.todo = @ \ {t}]) /\ UNCHANGED <<wfState, stored>>
    BY ZenonT(30), <1>5 DEF SubmitQueue, TxUpdateTaskState
  <2>2. [thr[c] EXCEPT !.todo = @ \ {t}].pc \notin LifePCs
    BY <1>0, <1>5 DEF SubmitQueue, At, ThreadState, LifePCs
  <2> QED
    BY ZenonT(30), <1>0, <2>1, <2>2, LifeElsewhere
<1>6. CASE SubmitReturn(c)
  <2>1. Idle.pc \notin LifePCs
    BY ZenonT(30) DEF Idle, LifePCs
  <2> QED
    BY ZenonT(30), <1>0, <1>6, <2>1, LifeElsewhere DEF SubmitReturn, Return, dbVars
<1>7. CASE CancelWorkflow(c)
  <2>1. PICK wf : Becomes(c, [Idle EXCEPT !.pc = "cancelTx", !.wf = wf, !.fin = "CANCELLED"]) /\ UNCHANGED <<wfState, stored>>
    BY ZenonT(30), <1>7 DEF CancelWorkflow, dbVars
  <2>2. [Idle EXCEPT !.pc = "cancelTx", !.wf = wf, !.fin = "CANCELLED"].pc \notin LifePCs
    BY DEF Idle, LifePCs
  <2> QED
    BY ZenonT(30), <1>0, <2>1, <2>2, LifeElsewhere
<1> QED
  BY ZenonT(30), <1>1, <1>2, <1>3, <1>4, <1>5, <1>6, <1>7 DEF SubmitStep

\* A workflow that is settled has records, so no submission is at its start.
LEMMA CancelLives ==
    ASSUME Lived, LifeStep, NEW x \in Threads, CancelStep(x)
    PROVE  LifeInv'
<1>0. thr[x] \in ThreadState /\ thr \in [Threads -> ThreadState]
  BY ZenonT(30), LocalsType DEF Lived, Stepped, TypeInv, TypeOK
<1>1. PICK wf : wf = thr[x].wf
  OBVIOUS
<1>2. Settling(thr[x]) /\ (thr[x].pc \in SettlePCs => wf \in Workflows /\ Plain(wf))
  BY ZenonT(30), <1>1, LocalsType DEF Lived, VerdictInv, Stepped, LocalsFit, SettlePCs, AllPlain
<1>3. CASE CancelTasks(x)
  BY <1>1, <1>2, <1>3 DEF CancelTasks, At, Settling, SettlePCs
<1>4. CASE FilterQueue(x)
  <2> DEFINE r == [thr[x] EXCEPT !.pc = IF thr[x].fin = Nil THEN "chkDone" ELSE "setState"]
  <2>1. Becomes(x, r) /\ UNCHANGED <<wfState, stored>>
    BY ZenonT(30), <1>4 DEF FilterQueue, Goto, dbVars
  <2>2. r.pc \notin LifePCs
    BY <1>0 DEF ThreadState, LifePCs
  <2> HIDE DEF r
  <2> QED
    BY ZenonT(30), <2>1, <2>2, LifeElsewhere
<1>5. CASE SetWorkflowState(x)
  <2>1. /\ thr[x].pc = "setState" /\ Becomes(x, Idle)
        /\ wfState' = [wfState EXCEPT ![wf] = thr[x].fin] /\ stored' = stored
    BY ZenonT(30), <1>1, <1>5 DEF SetWorkflowState, At, TxSetWorkflowState, Return
  <2>2. wf \in Workflows /\ Plain(wf) /\ Done(wf) /\ thr[x].fin = FinalState(wf)
    BY ZenonT(30), <1>1, <1>2, <2>1 DEF Settling, SettlePCs
  <2>3. \A v \in Workflows : wfState'[v] = IF v = wf THEN FinalState(wf) ELSE wfState[v]
    BY ZenonT(30), <2>1, <2>2 DEF Lived, Stepped, TypeInv, TypeOK, StoreTypeOK
  <2>4. PICK t \in Tasks : WfOf[t] = wf /\ taskState[t] # "ABSENT"
    BY ZenonT(30), <2>2 DEF Done, TasksOf, Terminal
  <2>5. wf \in stored /\ \A c \in Clients : thr[c].pc \in {"sbInitWf", "sbInitTasks"} => thr[c].wf # wf
    BY ZenonT(30), <2>4 DEF Lived, Stepped, SubmitInv, RecordsAppearTogether
  <2>6. FinalState(wf) # "ABSENT"
    BY DEF FinalState
  <2>7. \A y \in Threads : thr'[y] = thr[y] \/ thr'[y].pc = "idle"
    BY ZenonT(30), <1>0, <2>1 DEF Becomes, Idle
  <2>8. \A y \in Threads : thr'[y] = thr[y] \/ WalkBelow(thr[y])'
    BY ZenonT(30), <2>7 DEF WalkBelow
  <2>9. \A c \in Clients : thr'[c] = thr[c] \/ thr'[c].pc \notin {"sbInitWf", "sbInitTasks"}
    BY <2>7, ThreadsType
  <2>10. \A v \in Workflows :
            \/ wfState'[v] = wfState[v]
            \/ /\ v \in stored /\ wfState'[v] # "ABSENT"
               /\ \A c \in Clients : thr'[c] = thr[c] /\ thr[c].pc \in {"sbInitWf", "sbInitTasks"} => thr[c].wf # v
    BY ZenonT(30), <2>3, <2>5, <2>6
  <2>11. stored \subseteq stored'
    BY ZenonT(30), <2>1
  <2> QED
    BY ZenonT(30), <2>8, <2>9, <2>10, <2>11, LifeKept
<1> QED
  BY ZenonT(30), <1>3, <1>4, <1>5 DEF CancelStep

\* The monitor, recovery, crashes.
LEMMA DaemonLives ==
    ASSUME Lived, LifeStep, StoreFaults = FALSE, DaemonStep \/ EnvStep
    PROVE  LifeInv'
<1>0. Daemon \in Threads /\ thr[Daemon] \in ThreadState /\ Idle.pc \notin LifePCs
  BY ZenonT(30), ThreadsType, LocalsType DEF Lived, Stepped, Idle, LifePCs
<1>1. UNCHANGED <<wfState, stored>>
  BY ZenonT(30) DEF DaemonStep, DeadRequeue, DeadAppend, DeadRemove, LoadStateFromDB, PrepareRecovery, Start,
     EnvStep, Crash, StoreError, WorkerCrash, StreamBreak, TxRequeueTask, dbVars
<1>2. CASE DeadRequeue
  <2>1. PICK t : Becomes(Daemon, [thr[Daemon] EXCEPT !.pc = "dwAppend", !.task = t, !.todo = @ \ {t}])
    BY ZenonT(30), <1>2 DEF DeadRequeue
  <2>2. [thr[Daemon] EXCEPT !.pc = "dwAppend", !.task = t, !.todo = @ \ {t}].pc \notin LifePCs
    BY <1>0 DEF ThreadState, LifePCs
  <2> QED
    BY ZenonT(30), <1>0, <1>1, <2>1, <2>2, LifeElsewhere
<1>3. CASE DeadAppend \/ DeadRemove
  <2>1. PICK p \in {"dwRequeue", "dwForget"} : Becomes(Daemon, [thr[Daemon] EXCEPT !.pc = p]) \/ Becomes(Daemon, Idle)
    BY ZenonT(30), <1>3 DEF DeadAppend, DeadRemove, Goto, Return
  <2>2. [thr[Daemon] EXCEPT !.pc = p].pc \notin LifePCs
    BY <1>0 DEF ThreadState, LifePCs
  <2> QED
    BY ZenonT(30), <1>0, <1>1, <2>1, <2>2, LifeElsewhere
<1>4. CASE LoadStateFromDB
  <2>1. PICK T : Becomes(Daemon, [Idle EXCEPT !.pc = "rcRequeue", !.todo = T])
    BY ZenonT(30), <1>4 DEF LoadStateFromDB
  <2>2. [Idle EXCEPT !.pc = "rcRequeue", !.todo = T].pc \notin LifePCs
    BY DEF Idle, LifePCs
  <2> QED
    BY ZenonT(30), <1>0, <1>1, <2>1, <2>2, LifeElsewhere
<1>5. CASE PrepareRecovery
  <2>1. PICK t : Becomes(Daemon, [thr[Daemon] EXCEPT !.todo = @ \ {t}]) /\ thr[Daemon].pc = "rcRequeue"
    BY ZenonT(30), <1>5 DEF PrepareRecovery
  <2>2. [thr[Daemon] EXCEPT !.todo = @ \ {t}].pc \notin LifePCs
    BY <1>0, <2>1 DEF ThreadState, LifePCs
  <2> QED
    BY ZenonT(30), <1>0, <1>1, <2>1, <2>2, LifeElsewhere
<1>6. CASE Start
  BY ZenonT(30), <1>0, <1>1, <1>6, LifeElsewhere DEF Start, Return
<1>7. CASE Crash
  <2>1. \A x \in Threads : thr'[x] = Idle
    BY <1>7 DEF Crash
  <2> QED
    BY ZenonT(30), <1>0, <1>1, <2>1, LifeQuiet
<1>8. CASE \E w \in Workers : WorkerCrash(w) \/ StreamBreak(w)
  BY ZenonT(30), <1>1, <1>8, LifeQuiet DEF WorkerCrash, StreamBreak
<1> QED
  BY ZenonT(30), <1>2, <1>3, <1>4, <1>5, <1>6, <1>7, <1>8 DEF DaemonStep, EnvStep, StoreError

\* Every step.
LEMMA LifeNext ==
    ASSUME Lived, Resubmits = {}, StoreFaults = FALSE, [Next]_vars
    PROVE  LifeStep /\ LifeInv'
<1>1. LifeStep
  BY ZenonT(30), EveryLifeStep
<1>2. CASE UNCHANGED vars
  BY ZenonT(30), <1>1, <1>2, LifeQuiet DEF vars, dbVars
<1>3. ASSUME NEW x \in Workers \cup Clients, CancelStep(x) PROVE LifeInv'
  BY ZenonT(30), <1>1, <1>3, ThreadsType, CancelLives
<1> QED
  BY ZenonT(30), <1>1, <1>2, <1>3, WorkerLives, SubmitLives, DaemonLives DEF Next

LEMMA LifeInit ==
    ASSUME Init PROVE LifeInv /\ Lifecycle!Init
<1>1. \A x \in Threads : thr[x].pc = "idle"
  BY DEF Init, Idle
<1>2. \A x \in Threads : WalkBelow(thr[x])
  BY ZenonT(30), <1>1 DEF WalkBelow
<1>3. Lifecycle!Init
  BY DEF Init, StoreInit, Lifecycle!Init
<1> QED
  BY ZenonT(30), <1>1, <1>2, <1>3, ThreadsType DEF LifeInv, Init, StoreInit
=============================================================================
