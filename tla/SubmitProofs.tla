---------------------------- MODULE SubmitProofs ----------------------------
(***************************************************************************)
(* Every step keeps SubmitInv, whatever crashes, fails or overlaps.  The   *)
(* steps outside a submission move no task but the ones already in some    *)
(* queue, map or thread, or below one that finished.                       *)
(***************************************************************************)
EXTENDS CoordinatorProofs

\* The provers tried at a leaf that names none, in this order.
USE SMTT(30), ZenonT(20), SMTT(40)

\* A task that a step other than a submission may move: it is in one of its
\* places, or it has a record and dependencies, so that it can be unlocked.
Known(t) == Touched(t) \/ (taskState[t] # "ABSENT" /\ Deps[t] # {})

\* What such a step may do to the record of t.
Settles(t) ==
    \/ taskState'[t] = taskState[t] /\ execID'[t] = execID[t]
    \/ /\ taskState[t] # "ABSENT" /\ taskState'[t] # "ABSENT"
       /\ taskState'[t] \in {"PENDING", "QUEUED"} => execID'[t] = Nil
       /\ Known(t) \/ (taskState'[t] = "SKIPPED" /\ execID'[t] = execID[t])

\* The step moves only known tasks.
Calm ==
    /\ \A t \in Tasks : Settles(t)
    /\ \A t \in Tasks : InQueue(t)' => Known(t)
    /\ \A t \in Tasks : runningTasks'[t] # Nil \/ assignedTasks'[t] # Nil => Known(t)

\* Thread record r is not in a submission, and keeps and walks known tasks.
Harmless(r) ==
    /\ r.pc \notin SubmitPCs
    /\ WalksStayBelow(r)
    /\ \A t \in Tasks : Keeps(r, t) => Known(t)

LEMMA KnownPresent ==
    ASSUME SubmitInv, NEW t \in Tasks, Known(t)
    PROVE  taskState[t] # "ABSENT"
BY DEF Known, SubmitInv, AbsentIsUntouched

\* A step of a thread that is not in a submission afterwards, and that moves
\* only known tasks.
LEMMA QuietStep ==
    ASSUME TypeInv, TypeInv', SubmitInv, NEW x \in Threads, NEW r \in ThreadState, Becomes(x, r),
           UNCHANGED stored, Calm, Harmless(r)
    PROVE  SubmitInv'
<1> USE DEF Calm, Harmless
<1>1. \A y \in Threads : thr'[y] = IF y = x THEN r ELSE thr[y]
  BY DEF Becomes, TypeInv, TypeOK
<1>2. \A t \in Tasks : Touched(t)' => Known(t)
  <2> SUFFICES ASSUME NEW t \in Tasks, Touched(t)' PROVE Known(t)
    OBVIOUS
  <2>1. \/ InQueue(t)'
        \/ runningTasks'[t] # Nil \/ assignedTasks'[t] # Nil
        \/ \E y \in Threads : Keeps(thr'[y], t)
    <3>1. \A y \in Threads : thr'[y].pc \in {"dwRequeue", "dwAppend", "rcRequeue"} => y = Daemon
      BY DEF TypeInv, LocalsOK, LocalsFit
    <3> QED
      BY <3>1, ThreadsType DEF Touched, Keeps, Handling, Releasing, Relisted
  <2>2. ASSUME NEW y \in Threads, Keeps(thr'[y], t) PROVE Known(t)
    <3>1. CASE y = x
      BY <1>1, <2>2, <3>1
    <3>2. CASE y # x
      BY <1>1, <2>2, <3>2, TouchedKept DEF Known
    <3> QED
      BY <3>1, <3>2
  <2> QED
    BY <2>1, <2>2
<1>3. \A t \in Tasks : taskState'[t] = "ABSENT" <=> taskState[t] = "ABSENT"
  BY DEF Settles
<1>4. \A c \in Clients : thr'[c].pc \in SubmitPCs => thr'[c] = thr[c]
  BY <1>1, ThreadsType
<1>5. SubmittersApart'
  BY <1>4 DEF SubmitInv, SubmittersApart
<1>6. RecordsAppearTogether'
  BY <1>3, <1>4 DEF SubmitInv, RecordsAppearTogether, SubmitPCs
<1>7. AbsentIsUntouched'
  BY <1>2, <1>3, KnownPresent DEF AbsentIsUntouched
<1>8. RootsUntouched'
  <2> SUFFICES ASSUME NEW c \in Clients, NEW t \in Unqueued(c)'
               PROVE  /\ WfOf[t] = thr'[c].wf /\ Deps[t] = {}
                      /\ ~Touched(t)' /\ execID'[t] = Nil /\ taskState'[t] \in {"PENDING", "SKIPPED"}
    BY DEF RootsUntouched
  <2>1. thr'[c] = thr[c]
    BY <1>4 DEF Unqueued, SubmitPCs
  <2>2. t \in Unqueued(c) /\ t \in Tasks
    BY ZenonT(30), <2>1, ThreadsType DEF Unqueued, TasksOf, TypeInv, TypeOK, ThreadState
  <2>3. /\ WfOf[t] = thr[c].wf /\ Deps[t] = {}
        /\ ~Touched(t) /\ execID[t] = Nil /\ taskState[t] \in {"PENDING", "SKIPPED"}
    BY <2>2 DEF SubmitInv, RootsUntouched
  <2>4. ~Known(t)
    BY <2>3 DEF Known
  <2>5. Settles(t)
    BY <2>2
  <2> QED
    BY <1>2, <2>1, <2>2, <2>3, <2>4, <2>5 DEF Settles
<1>9. \A y \in Threads : WalksStayBelow(thr[y])'
  <2> TAKE y \in Threads
  <2>1. WalksStayBelow(thr'[y])
    BY <1>1 DEF SubmitInv
  <2>2. thr'[y] \in ThreadState
    BY DEF TypeInv, TypeOK
  <2> QED
    BY <1>3, <2>1, <2>2 DEF WalksStayBelow, ThreadState
<1>10. WaitingIsUnassigned'
  BY DEF SubmitInv, WaitingIsUnassigned, Settles
<1> QED
  BY <1>5, <1>6, <1>7, <1>8, <1>9, <1>10 DEF SubmitInv

\* What the queue, the maps and the threads hold is known.
LEMMA PlacesKnown ==
    ASSUME TypeInv, NEW t \in Tasks
    PROVE  /\ InQueue(t) => Known(t)
           /\ runningTasks[t] # Nil \/ assignedTasks[t] # Nil => Known(t)
           /\ \A x \in Threads : Keeps(thr[x], t) => Known(t)
BY ZenonT(30), TouchedKept DEF Known

\* Leaving the records, the queue and the maps alone, or writing the record of
\* a known task, moves no other task.
LEMMA SameCalm ==
    ASSUME TypeInv, UNCHANGED <<taskState, execID, readyQueue, runningTasks, assignedTasks>>
    PROVE  Calm
<1>1. \A t \in Tasks : Settles(t)
  BY DEF Settles
<1>2. \A t \in Tasks : InQueue(t)' => Known(t)
  BY PlacesKnown DEF InQueue
<1>3. \A t \in Tasks : runningTasks'[t] # Nil \/ assignedTasks'[t] # Nil => Known(t)
  BY PlacesKnown
<1> QED
  BY <1>1, <1>2, <1>3 DEF Calm

LEMMA WriteCalm ==
    ASSUME TypeInv, SubmitInv, NEW u \in Tasks, Known(u), taskState'[u] # "ABSENT",
           taskState'[u] \in {"PENDING", "QUEUED"} => execID'[u] = Nil,
           \A t \in Tasks : t # u => taskState'[t] = taskState[t] /\ execID'[t] = execID[t],
           UNCHANGED <<readyQueue, runningTasks, assignedTasks>>
    PROVE  Calm
<1>1. \A t \in Tasks : Settles(t)
  BY KnownPresent DEF Settles
<1>2. \A t \in Tasks : InQueue(t)' => Known(t)
  BY PlacesKnown DEF InQueue
<1>3. \A t \in Tasks : runningTasks'[t] # Nil \/ assignedTasks'[t] # Nil => Known(t)
  BY PlacesKnown
<1> QED
  BY <1>1, <1>2, <1>3 DEF Calm

\* A record at a label that neither keeps tasks nor walks.
LEMMA EmptyHanded ==
    ASSUME NEW r, r.pc \in {"idle", "chkDone", "chkStatus", "setState", "cancelTx", "filter", "dwForget"}
    PROVE  Harmless(r)
BY DEF Harmless, SubmitPCs, WalksStayBelow, Keeps, ResultPCs

LEMMA IdleHarmless == Idle \in ThreadState /\ Harmless(Idle)
<1>1. Idle.pc = "idle"
  BY DEF Idle
<1> QED
  BY <1>1, IdleType, EmptyHanded

LEMMA SubmitStutter ==
    ASSUME SubmitInv, UNCHANGED <<taskState, execID, stored, readyQueue, runningTasks, assignedTasks, thr>>
    PROVE  SubmitInv'
<1>1. \A t : Touched(t)' <=> Touched(t)
  BY ZenonT(30) DEF Touched, InQueue, Handling, Releasing, Relisted
<1>2. SubmittersApart' /\ RecordsAppearTogether' /\ WaitingIsUnassigned'
  BY ZenonT(30) DEF SubmitInv, SubmittersApart, RecordsAppearTogether, WaitingIsUnassigned
<1>3. AbsentIsUntouched'
  BY ZenonT(30), <1>1 DEF SubmitInv, AbsentIsUntouched
<1>4. RootsUntouched'
  <2>1. \A c \in Clients : Unqueued(c)' = Unqueued(c)
    BY ZenonT(30) DEF Unqueued
  <2> QED
    BY ZenonT(30), <1>1, <2>1 DEF SubmitInv, RootsUntouched
<1>5. \A x \in Threads : WalksStayBelow(thr'[x])
  BY ZenonT(30) DEF SubmitInv
<1> QED
  BY ZenonT(30), <1>2, <1>3, <1>4, <1>5 DEF SubmitInv, WalksStayBelow

LEMMA ReceiveSubmit ==
    ASSUME TypeInv, TypeInv', SubmitInv, NEW w \in Workers, Receive(w)
    PROVE  SubmitInv'
<1>0. w \in Threads /\ thr[w] \in ThreadState
  BY ThreadsType, LocalsType
<1>1. CASE GetReadyTask(w)
  <2> DEFINE h == Head(readyQueue)
  <2>1. /\ readyQueue \in Seq(Tasks) /\ readyQueue # <<>> /\ h \in Tasks
        /\ readyQueue' = Tail(readyQueue)
    BY <1>1 DEF GetReadyTask, TypeInv, TypeOK
  <2>2. Known(h)
    <3>1. InQueue(h)
      BY <2>1 DEF InQueue
    <3> QED
      BY <2>1, <3>1, PlacesKnown
  <2>3. thr[w].pc = "idle" /\ Becomes(w, thr[w]) /\ UNCHANGED stored
    BY <1>0, <1>1 DEF GetReadyTask, At, Becomes, TypeInv, TypeOK, dbVars, TxAssignTask
  <2>4. \A t \in Tasks : InQueue(t)' => Known(t)
    <3>1. \A t \in Tasks : InQueue(t)' => InQueue(t)
      BY <2>1 DEF InQueue
    <3> QED
      BY <3>1, PlacesKnown
  <2>5. \A t \in Tasks : Settles(t) /\ (runningTasks'[t] # Nil \/ assignedTasks'[t] # Nil => Known(t))
    <3>1. CASE UNCHANGED <<dbVars, runningTasks, assignedTasks, held>>
      BY <3>1, PlacesKnown DEF Settles, dbVars
    <3>2. CASE \E e \in Execs \ ExecsInUse :
                /\ TxAssignTask(h, e)
                /\ runningTasks' = [runningTasks EXCEPT ![h] = w]
                /\ assignedTasks' = [assignedTasks EXCEPT ![h] = e]
      <4>1. PICK e \in Execs : /\ TxAssignTask(h, e)
                               /\ runningTasks' = [runningTasks EXCEPT ![h] = w]
                               /\ assignedTasks' = [assignedTasks EXCEPT ![h] = e]
        BY ZenonT(30), <3>2
      <4>2. \A t \in Tasks : t # h =>
              /\ taskState'[t] = taskState[t] /\ execID'[t] = execID[t]
              /\ runningTasks'[t] = runningTasks[t] /\ assignedTasks'[t] = assignedTasks[t]
        BY <4>1 DEF TxAssignTask, TypeInv, TypeOK, StoreTypeOK
      <4>3. taskState'[h] = "RUNNING"
        BY ZenonT(30), <2>1, <4>1 DEF TxAssignTask, TypeInv, TypeOK, StoreTypeOK
      <4>4. taskState[h] # "ABSENT"
        BY <2>1, <2>2, KnownPresent
      <4> HIDE DEF h
      <4> QED
        BY ZenonT(30), <2>2, <4>2, <4>3, <4>4, PlacesKnown DEF Settles
    <3> QED
      BY <1>1, <3>1, <3>2 DEF GetReadyTask
  <2>6. Calm /\ Harmless(thr[w])
    <3>1. Calm
      BY ZenonT(30), <2>3, <2>4, <2>5 DEF Calm
    <3> QED
      BY <2>3, <2>4, <2>5, <3>1, EmptyHanded
  <2> QED
    BY <1>0, <2>3, <2>6, QuietStep
<1>2. CASE Heartbeat(w)
  BY <1>2, SubmitStutter DEF Heartbeat, dbVars
<1>3. ASSUME NEW t \in Tasks, NEW outcome, NEW p \in {"ctTx", "ftRead"}, ResultArrives(w, t, outcome, p)
      PROVE  SubmitInv'
  <2>1. PICK e \in Execs : \/ /\ assignedTasks[t] = e
                              /\ Becomes(w, [Idle EXCEPT !.pc = p, !.task = t, !.eid = e])
                           \/ UNCHANGED thr
    BY ZenonT(30), <1>3 DEF ResultArrives
  <2>2. UNCHANGED <<taskState, execID, stored, readyQueue, runningTasks, assignedTasks>>
    BY <1>3 DEF ResultArrives, dbVars, memVars
  <2> DEFINE r == [Idle EXCEPT !.pc = p, !.task = t, !.eid = e]
  <2>3. CASE assignedTasks[t] = e /\ Becomes(w, r)
    <3>1. r \in ThreadState /\ r.pc = p /\ r.task = t
      BY ZenonT(30), IdleType DEF ThreadState, Idle, PCs
    <3>2. Known(t)
      BY <2>3, PlacesKnown, StoreAssumption
    <3> HIDE DEF r
    <3>3. Harmless(r)
      BY ZenonT(30), <3>1, <3>2 DEF Harmless, SubmitPCs, WalksStayBelow, Keeps
    <3>4. Calm
      BY <2>2, SameCalm
    <3> QED
      BY <1>0, <2>2, <2>3, <3>1, <3>3, <3>4, QuietStep
  <2> QED
    BY <2>1, <2>2, <2>3, SubmitStutter
<1> QED
  BY <1>1, <1>2, <1>3 DEF Receive, CompleteTask, FailTask

\* Forgetting a task leaves no unknown task in the maps.
LEMMA ForgetKnown ==
    ASSUME TypeInv, NEW u \in Tasks, Forget(u)
    PROVE  \A t \in Tasks : runningTasks'[t] # Nil \/ assignedTasks'[t] # Nil => Known(t)
<1>1. \A t \in Tasks : /\ runningTasks'[t] \in {runningTasks[t], Nil}
                       /\ assignedTasks'[t] \in {assignedTasks[t], Nil}
  BY DEF Forget, TypeInv, TypeOK
<1> QED
  BY <1>1, PlacesKnown

LEMMA CompleteSubmit ==
    ASSUME TypeInv, TypeInv', SubmitInv, NEW w \in Workers,
           CompleteTaskTx(w) \/ CompleteTaskClean(w) \/ CheckDone(w) \/ CheckStatuses(w)
    PROVE  SubmitInv'
<1>0. w \in Threads /\ thr[w] \in ThreadState /\ LocalsFit(w, thr[w]) /\ StoreTypeOK
  BY ThreadsType, LocalsType
<1> DEFINE t == thr[w].task
<1>2. CASE CompleteTaskTx(w)
  <2>1. thr[w].pc = "ctTx" /\ t \in Tasks
    BY <1>0, <1>2 DEF CompleteTaskTx, At, LocalsFit, ResultPCs
  <2>2. Known(t) /\ taskState[t] # "ABSENT"
    <3>1. Keeps(thr[w], t)
      BY <2>1 DEF Keeps, ResultPCs
    <3> QED
      BY <1>0, <2>1, <3>1, PlacesKnown, KnownPresent
  <2>3. UNCHANGED <<readyQueue, runningTasks, assignedTasks, stored>>
    BY <1>2 DEF CompleteTaskTx, TxCompleteTask, dbVars, memVars
  <2> DEFINE o == Unlocked(t)
             r == [thr[w] EXCEPT !.pc = "ctClean", !.out = o]
  <2>4. CASE TxCompleteTask(t, thr[w].eid) /\ Becomes(w, r)
    <3>1. o \in SUBSET Tasks /\ \A u \in o : taskState[u] = "PENDING" /\ Deps[u] # {}
      BY DEF Unlocked, Unlocks, Downstream
    <3>2. \A u \in Tasks : /\ execID'[u] = execID[u]
                           /\ taskState'[u] = IF u = t THEN "COMPLETE" ELSE IF u \in o THEN "QUEUED" ELSE taskState[u]
      BY <2>4 DEF TxCompleteTask
    <3> HIDE DEF o
    <3>3. r \in ThreadState /\ r.pc = "ctClean" /\ r.task = t /\ r.out = o
      BY ZenonT(30), <1>0, <3>1 DEF ThreadState, PCs
    <3> HIDE DEF r, t
    <3>4. \A u \in o : Known(u) /\ execID[u] = Nil
      BY <3>1 DEF Known, SubmitInv, WaitingIsUnassigned
    <3>5. \A u \in Tasks : Settles(u)
      BY <2>2, <3>1, <3>2, <3>4 DEF Settles
    <3>6. \A u \in Tasks : Keeps(r, u) => Known(u)
      BY <2>2, <3>3, <3>4 DEF Keeps
    <3>7. Harmless(r)
      BY <3>1, <3>3, <3>6 DEF Harmless, SubmitPCs, WalksStayBelow
    <3>8. \A u \in Tasks : InQueue(u)' => Known(u)
      BY <2>3, PlacesKnown DEF InQueue
    <3>9. \A u \in Tasks : runningTasks'[u] # Nil \/ assignedTasks'[u] # Nil => Known(u)
      BY <2>3, PlacesKnown
    <3>10. Calm
      BY <3>5, <3>8, <3>9 DEF Calm
    <3> QED
      BY ZenonT(30), <1>0, <2>3, <2>4, <3>3, <3>7, <3>10, QuietStep
  <2>5. CASE Return(w) /\ UNCHANGED dbVars
    <3>1. Calm
      BY <2>3, <2>5, SameCalm DEF dbVars
    <3> QED
      BY <1>0, <2>3, <2>5, <3>1, IdleHarmless, QuietStep DEF Return
  <2> QED
    BY <1>2, <2>4, <2>5 DEF CompleteTaskTx
<1>3. CASE CompleteTaskClean(w)
  <2> DEFINE r == [Idle EXCEPT !.pc = "chkDone", !.wf = WfOf[t]]
  <2>1. thr[w].pc = "ctClean" /\ t \in Tasks /\ thr[w].out \in SUBSET Tasks
    BY <1>0, <1>3 DEF CompleteTaskClean, At, LocalsFit, ResultPCs, ThreadState
  <2>2. r \in ThreadState /\ r.pc = "chkDone"
    BY ZenonT(30), <2>1, StoreAssumption DEF ThreadState, PCs, Idle
  <2>3. Becomes(w, r) \/ Becomes(w, Idle)
    BY <1>3 DEF CompleteTaskClean, Return
  <2>4. \A u \in Tasks : InQueue(u)' => Known(u)
    <3>1. PICK s \in Orders(thr[w].out) : readyQueue' = readyQueue \o s
      BY <1>3 DEF CompleteTaskClean
    <3>2. IsFiniteSet(thr[w].out)
      BY <2>1, StoreAssumption, FS_Subset
    <3>3. s \in Seq(thr[w].out)
      BY <3>2, OrdersProperties
    <3>4. \A u \in Tasks : InQueue(u)' => InQueue(u) \/ u \in thr[w].out
      <4>1. \A k \in DOMAIN (readyQueue \o s) :
               (readyQueue \o s)[k] \in thr[w].out \/ \E i \in DOMAIN readyQueue : (readyQueue \o s)[k] = readyQueue[i]
        BY <3>3, QueueType
      <4> QED
        BY <3>1, <4>1 DEF InQueue
    <3>5. \A u \in thr[w].out : Keeps(thr[w], u)
      BY ZenonT(30), <2>1 DEF Keeps
    <3> QED
      BY ZenonT(30), <1>0, <3>4, <3>5, PlacesKnown
  <2>5. Forget(t) /\ UNCHANGED <<taskState, execID, stored>>
    BY <1>3 DEF CompleteTaskClean, dbVars
  <2>6. \A u \in Tasks : runningTasks'[u] # Nil \/ assignedTasks'[u] # Nil => Known(u)
    BY ZenonT(30), <2>1, <2>5, ForgetKnown
  <2>7. \A u \in Tasks : Settles(u)
    BY <2>5 DEF Settles
  <2> HIDE DEF r
  <2>8. Calm /\ Harmless(r)
    BY <2>2, <2>4, <2>6, <2>7, EmptyHanded DEF Calm
  <2> QED
    BY <1>0, <2>2, <2>3, <2>5, <2>8, IdleHarmless, QuietStep
<1>4. CASE CheckDone(w)
  <2> DEFINE r == [thr[w] EXCEPT !.pc = "chkStatus"]
  <2>1. r \in ThreadState /\ r.pc = "chkStatus"
    BY <1>0 DEF ThreadState, PCs
  <2>2. /\ Becomes(w, r) \/ Becomes(w, Idle)
        /\ UNCHANGED <<taskState, execID, stored, readyQueue, runningTasks, assignedTasks>>
    BY <1>4 DEF CheckDone, Goto, Return, dbVars, memVars
  <2> HIDE DEF r
  <2>3. Calm /\ Harmless(r)
    BY <2>1, <2>2, SameCalm, EmptyHanded
  <2> QED
    BY <1>0, <2>1, <2>2, <2>3, IdleHarmless, QuietStep
<1>5. CASE CheckStatuses(w)
  <2> DEFINE f == FinalState(thr[w].wf)
             r == [thr[w] EXCEPT !.pc = "setState", !.fin = f]
  <2>1. r \in ThreadState /\ r.pc = "setState"
    <3>1. f \in WfStates
      BY DEF FinalState, WfStates
    <3> HIDE DEF f
    <3> QED
      BY ZenonT(30), <1>0, <3>1 DEF ThreadState, PCs
  <2>2. /\ Becomes(w, r)
        /\ UNCHANGED <<taskState, execID, stored, readyQueue, runningTasks, assignedTasks>>
    BY <1>5 DEF CheckStatuses, dbVars, memVars
  <2> HIDE DEF r
  <2>3. Calm /\ Harmless(r)
    BY <2>1, <2>2, SameCalm, EmptyHanded
  <2> QED
    BY <1>0, <2>1, <2>2, <2>3, QuietStep
<1> QED
  BY <1>2, <1>3, <1>4, <1>5

\* What appending a known task leaves in the queue.
LEMMA AppendKnown ==
    ASSUME TypeInv, NEW u \in Tasks, Known(u), readyQueue' = Append(readyQueue, u)
    PROVE  \A t \in Tasks : InQueue(t)' => Known(t)
<1>1. \A t \in Tasks : InQueue(t)' => InQueue(t) \/ t = u
  <2>1. \A k \in DOMAIN Append(readyQueue, u) : Append(readyQueue, u)[k] = u
           \/ \E i \in DOMAIN readyQueue : Append(readyQueue, u)[k] = readyQueue[i]
    BY QueueType
  <2> QED
    BY <2>1 DEF InQueue
<1> QED
  BY <1>1, PlacesKnown

LEMMA FailSubmit ==
    ASSUME TypeInv, TypeInv', SubmitInv, NEW w \in Workers,
           \/ FailTaskRead(w) \/ FailTaskRequeue(w) \/ FailTaskRequeued(w)
           \/ FailTaskFail(w) \/ FailTaskFailed(w)
    PROVE  SubmitInv'
<1>0. w \in Threads /\ thr[w] \in ThreadState /\ LocalsFit(w, thr[w]) /\ StoreTypeOK
  BY ThreadsType, LocalsType
<1> DEFINE t == thr[w].task
<1>2. thr[w].pc \in ResultPCs /\ t \in Tasks
  BY <1>0 DEF FailTaskRead, FailTaskRequeue, FailTaskRequeued, FailTaskFail, FailTaskFailed,
              At, LocalsFit, ResultPCs
<1>3. Known(t) /\ taskState[t] # "ABSENT"
  <2>1. Keeps(thr[w], t)
    BY <1>2 DEF Keeps
  <2> QED
    BY ZenonT(30), <1>0, <1>2, <2>1, PlacesKnown, KnownPresent
<1>4. ASSUME NEW r \in ThreadState, r.pc \in {"ftRequeue", "ftRequeued", "ftFail", "ftFailed"}, r.task = t
      PROVE  Harmless(r)
  BY ZenonT(30), <1>3, <1>4 DEF Harmless, SubmitPCs, WalksStayBelow, Keeps
<1>5. CASE FailTaskRead(w)
  <2> DEFINE n == attempts[t] + 1
             p == IF n < RetryLimit(t) THEN "ftRequeue" ELSE "ftFail"
             r == [thr[w] EXCEPT !.att = n, !.pc = p]
  <2>1. r \in ThreadState /\ r.pc \in {"ftRequeue", "ftFail"} /\ r.task = t
    <3>1. n \in Nat
      BY <1>0, <1>2 DEF StoreTypeOK
    <3>2. p \in {"ftRequeue", "ftFail"}
      OBVIOUS
    <3> HIDE DEF n, p
    <3> QED
      BY ZenonT(30), <1>0, <3>1, <3>2 DEF ThreadState, PCs
  <2>2. Becomes(w, r) /\ UNCHANGED <<taskState, execID, stored, readyQueue, runningTasks, assignedTasks>>
    BY <1>5 DEF FailTaskRead, dbVars, memVars
  <2> HIDE DEF r
  <2>3. Calm /\ Harmless(r)
    BY ZenonT(30), <1>4, <2>1, <2>2, SameCalm
  <2> QED
    BY ZenonT(30), <1>0, <2>1, <2>2, <2>3, QuietStep
<1>6. CASE FailTaskRequeue(w)
  <2> DEFINE r == [thr[w] EXCEPT !.pc = "ftRequeued"]
  <2>1. r \in ThreadState /\ r.pc = "ftRequeued" /\ r.task = t
    BY <1>0 DEF ThreadState, PCs
  <2>2. Becomes(w, r) /\ TxRequeueTask(t) /\ UNCHANGED <<stored, readyQueue, runningTasks, assignedTasks>>
    BY <1>6 DEF FailTaskRequeue, Goto, TxRequeueTask, memVars
  <2>3. /\ taskState'[t] = "QUEUED" /\ execID'[t] = Nil
        /\ \A u \in Tasks : u # t => taskState'[u] = taskState[u] /\ execID'[u] = execID[u]
    BY <1>0, <1>2, <2>2 DEF TxRequeueTask, StoreTypeOK
  <2> HIDE DEF r, t
  <2>4. Calm
    BY ZenonT(30), <1>2, <1>3, <2>2, <2>3, WriteCalm
  <2>5. Harmless(r)
    BY <1>4, <2>1
  <2> QED
    BY ZenonT(30), <1>0, <2>1, <2>2, <2>4, <2>5, QuietStep
<1>7. CASE FailTaskRequeued(w)
  <2>1. /\ Becomes(w, Idle) /\ Forget(t) /\ readyQueue' = Append(readyQueue, t)
        /\ UNCHANGED <<taskState, execID, stored>>
    BY <1>7 DEF FailTaskRequeued, Return, dbVars
  <2>2. \A u \in Tasks : Settles(u)
    BY ZenonT(30), <2>1 DEF Settles
  <2> HIDE DEF t
  <2>3. Calm
    BY ZenonT(30), <1>2, <1>3, <2>1, <2>2, AppendKnown, ForgetKnown DEF Calm
  <2> QED
    BY <1>0, <2>1, <2>3, IdleHarmless, QuietStep
<1>8. CASE FailTaskFail(w)
  <2> DEFINE r == [thr[w] EXCEPT !.pc = "ftFailed"]
  <2>1. r \in ThreadState /\ r.pc = "ftFailed" /\ r.task = t
    BY <1>0 DEF ThreadState, PCs
  <2>2. Becomes(w, r) /\ UNCHANGED <<stored, readyQueue, runningTasks, assignedTasks>>
    BY <1>8 DEF FailTaskFail, Goto, TxFailTask, memVars
  <2>3. /\ taskState'[t] = "FAILED"
        /\ \A u \in Tasks : u # t => taskState'[u] = taskState[u] /\ execID'[u] = execID[u]
    BY ZenonT(30), <1>0, <1>2, <1>8 DEF FailTaskFail, TxFailTask, StoreTypeOK
  <2> HIDE DEF r, t
  <2>4. Calm
    BY ZenonT(30), <1>2, <1>3, <2>2, <2>3, WriteCalm
  <2>5. Harmless(r)
    BY <1>4, <2>1
  <2> QED
    BY ZenonT(30), <1>0, <2>1, <2>2, <2>4, <2>5, QuietStep
<1>9. CASE FailTaskFailed(w)
  <2> DEFINE d == Downstream(t)
             c == [Idle EXCEPT !.pc = "cancelTx", !.wf = WfOf[t], !.fin = "FAILED"]
             s == [Idle EXCEPT !.pc = "skip", !.wf = WfOf[t], !.todo = d, !.seen = d]
  <2>1. c \in ThreadState /\ c.pc = "cancelTx"
    BY ZenonT(30), <1>2, StoreAssumption DEF ThreadState, PCs, Idle, WfStates
  <2>2. d \in SUBSET Tasks /\ \A u \in d : taskState[u] # "ABSENT" /\ Deps[u] # {}
    BY ZenonT(30), <1>2, <1>3, StoreAssumption DEF Downstream, SubmitInv, RecordsAppearTogether
  <2>3. s \in ThreadState /\ s.pc = "skip" /\ s.todo = d /\ s.seen = d
    <3> HIDE DEF d
    <3> QED
      BY ZenonT(30), <1>2, <2>2, StoreAssumption DEF ThreadState, PCs, Idle
  <2>4. Becomes(w, Idle) \/ Becomes(w, c) \/ Becomes(w, s)
    BY <1>9 DEF FailTaskFailed, Return
  <2>5. Forget(t) /\ UNCHANGED <<taskState, execID, stored, readyQueue>>
    BY <1>9 DEF FailTaskFailed, dbVars
  <2>6. \A u \in Tasks : Settles(u)
    BY ZenonT(30), <2>5 DEF Settles
  <2>7. \A u \in Tasks : InQueue(u)' => Known(u)
    BY ZenonT(30), <2>5, PlacesKnown DEF InQueue
  <2> HIDE DEF c, s, d, t
  <2>8. Harmless(s)
    BY ZenonT(30), <2>2, <2>3 DEF Harmless, SubmitPCs, WalksStayBelow, Keeps, ResultPCs
  <2>9. Harmless(c)
    BY <2>1, EmptyHanded
  <2>10. Calm
    BY ZenonT(30), <1>2, <2>5, <2>6, <2>7, ForgetKnown DEF Calm
  <2> QED
    BY ZenonT(30), <1>0, <2>1, <2>3, <2>4, <2>5, <2>8, <2>9, <2>10, IdleHarmless, QuietStep
<1> QED
  BY <1>5, <1>6, <1>7, <1>8, <1>9

LEMMA SkipSubmit ==
    ASSUME TypeInv, TypeInv', SubmitInv, NEW w \in Workers, SkipVisit(w) \/ SkipWrite(w) \/ SkipDone(w)
    PROVE  SubmitInv'
<1>0. w \in Threads /\ thr[w] \in ThreadState /\ LocalsFit(w, thr[w]) /\ StoreTypeOK
  BY ThreadsType, LocalsType
<1>1. /\ thr[w].todo \subseteq thr[w].seen /\ thr[w].seen \subseteq Tasks
      /\ \A t \in thr[w].seen : taskState[t] # "ABSENT" /\ Deps[t] # {}
      /\ thr[w].pc = "skipWrite" => thr[w].task \in thr[w].seen
  BY ZenonT(30), <1>0 DEF SkipVisit, SkipWrite, SkipDone, At, SubmitInv, WalksStayBelow, ThreadState
<1>2. ASSUME NEW r \in ThreadState, r.pc \in {"skip", "skipWrite"}, r.todo \subseteq r.seen,
             r.task \in r.seen \/ r.pc = "skip",
             \A t \in r.seen : taskState[t] # "ABSENT" /\ Deps[t] # {}
      PROVE  Harmless(r)
  BY <1>2 DEF Harmless, SubmitPCs, WalksStayBelow, Keeps, ResultPCs
<1>3. CASE SkipVisit(w)
  <2>1. PICK u \in thr[w].todo :
          LET new == Downstream(u) \ thr[w].seen IN
          Becomes(w, [thr[w] EXCEPT
                          !.todo = (@ \ {u}) \cup new, !.seen = @ \cup new, !.task = u,
                          !.pc = IF taskState[u] \in Terminal THEN "skip" ELSE "skipWrite"])
    BY ZenonT(30), <1>3 DEF SkipVisit
  <2> DEFINE new == Downstream(u) \ thr[w].seen
             td == (thr[w].todo \ {u}) \cup new
             sn == thr[w].seen \cup new
             p == IF taskState[u] \in Terminal THEN "skip" ELSE "skipWrite"
             r == [thr[w] EXCEPT !.todo = td, !.seen = sn, !.task = u, !.pc = p]
  <2>2. u \in Tasks /\ u \in thr[w].seen /\ taskState[u] # "ABSENT"
    BY <1>1, <2>1
  <2>3. /\ td \subseteq sn /\ u \in sn /\ td \subseteq Tasks /\ sn \subseteq Tasks
        /\ \A t \in sn : taskState[t] # "ABSENT" /\ Deps[t] # {}
    <3>1. new \subseteq Tasks /\ \A t \in new : WfOf[u] = WfOf[t] /\ Deps[t] # {}
      BY ZenonT(30), StoreAssumption DEF Downstream
    <3>2. \A t \in new : taskState[t] # "ABSENT"
      BY ZenonT(30), <2>2, <3>1 DEF SubmitInv, RecordsAppearTogether
    <3> HIDE DEF new
    <3> QED
      BY ZenonT(30), <1>1, <2>2, <3>1, <3>2
  <2>4. p \in {"skip", "skipWrite"}
    OBVIOUS
  <2>5. Becomes(w, r) /\ UNCHANGED <<taskState, execID, stored, readyQueue, runningTasks, assignedTasks>>
    BY ZenonT(30), <1>3, <2>1 DEF SkipVisit, dbVars, memVars
  <2> HIDE DEF td, sn, p
  <2>6. r \in ThreadState /\ r.pc = p /\ r.todo = td /\ r.seen = sn /\ r.task = u
    BY ZenonT(30), <1>0, <2>2, <2>3, <2>4 DEF ThreadState, PCs
  <2> HIDE DEF r
  <2>7. Harmless(r)
    BY <1>2, <2>3, <2>4, <2>6
  <2>8. Calm
    BY <2>5, SameCalm
  <2> QED
    BY ZenonT(30), <1>0, <2>5, <2>6, <2>7, <2>8, QuietStep
<1>4. CASE SkipWrite(w)
  <2> DEFINE u == thr[w].task
             o == thr[w].out \cup {u}
             r == [thr[w] EXCEPT !.pc = "skip", !.out = o]
  <2>1. u \in thr[w].seen /\ u \in Tasks /\ o \in SUBSET Tasks
    BY <1>0, <1>1, <1>4 DEF SkipWrite, At, ThreadState
  <2>2. Becomes(w, r) /\ UNCHANGED <<stored, readyQueue, runningTasks, assignedTasks>>
    BY <1>4 DEF SkipWrite, TxUpdateTaskState, memVars
  <2>3. /\ taskState'[u] = "SKIPPED"
        /\ \A t \in Tasks : t # u => taskState'[t] = taskState[t] /\ execID'[t] = execID[t]
    BY <1>0, <1>4, <2>1 DEF SkipWrite, TxUpdateTaskState, StoreTypeOK
  <2> HIDE DEF o
  <2>4. r \in ThreadState /\ r.pc = "skip" /\ r.todo = thr[w].todo /\ r.seen = thr[w].seen
    BY ZenonT(30), <1>0, <2>1 DEF ThreadState, PCs
  <2> HIDE DEF r
  <2>5. Harmless(r)
    BY ZenonT(30), <1>1, <1>2, <2>4
  <2>6. Known(u)
    BY ZenonT(30), <1>1, <2>1 DEF Known
  <2> HIDE DEF u
  <2>7. Calm
    BY <2>1, <2>2, <2>3, <2>6, WriteCalm
  <2> QED
    BY ZenonT(30), <1>0, <2>2, <2>4, <2>5, <2>7, QuietStep
<1>5. CASE SkipDone(w)
  <2> DEFINE p == IF thr[w].out = {} THEN "chkDone" ELSE "filter"
             r == [thr[w] EXCEPT !.pc = p]
  <2>1. p \in {"chkDone", "filter"}
    OBVIOUS
  <2>2. Becomes(w, r) /\ UNCHANGED <<taskState, execID, stored, readyQueue, runningTasks, assignedTasks>>
    BY <1>5 DEF SkipDone, Goto, dbVars, memVars
  <2> HIDE DEF p
  <2>3. r \in ThreadState /\ r.pc = p
    BY <1>0, <2>1 DEF ThreadState, PCs
  <2> HIDE DEF r
  <2>4. Calm /\ Harmless(r)
    BY <2>1, <2>2, <2>3, SameCalm, EmptyHanded
  <2> QED
    BY <1>0, <2>2, <2>3, <2>4, QuietStep
<1> QED
  BY <1>3, <1>4, <1>5

LEMMA CancelSubmit ==
    ASSUME TypeInv, TypeInv', SubmitInv, NEW x \in Workers \cup Clients, CancelStep(x)
    PROVE  SubmitInv'
<1>0. x \in Threads /\ thr[x] \in ThreadState /\ StoreTypeOK
  BY ThreadsType, LocalsType
<1>1. CASE CancelTasks(x)
  <2> DEFINE o == Cancellable(thr[x].wf)
             r == [thr[x] EXCEPT !.pc = "filter", !.out = o]
  <2>1. o \in SUBSET Tasks /\ \A t \in o : taskState[t] # "ABSENT"
    BY DEF Cancellable, Recorded, TasksOf
  <2>2. Becomes(x, r) /\ UNCHANGED <<execID, stored, readyQueue, runningTasks, assignedTasks>>
    BY <1>1 DEF CancelTasks, TxCancelWorkflowTasks, memVars
  <2>3. \A t \in Tasks : taskState'[t] = IF t \in o THEN "SKIPPED" ELSE taskState[t]
    BY <1>1 DEF CancelTasks, TxCancelWorkflowTasks
  <2> HIDE DEF o
  <2>4. r \in ThreadState /\ r.pc = "filter"
    BY ZenonT(30), <1>0, <2>1 DEF ThreadState, PCs
  <2>5. \A t \in Tasks : Settles(t)
    BY <2>1, <2>2, <2>3 DEF Settles
  <2>6. \A t \in Tasks : InQueue(t)' => Known(t)
    BY <2>2, PlacesKnown DEF InQueue
  <2>7. \A t \in Tasks : runningTasks'[t] # Nil \/ assignedTasks'[t] # Nil => Known(t)
    BY <2>2, PlacesKnown
  <2> HIDE DEF r
  <2>8. Calm /\ Harmless(r)
    <3>1. Calm
      BY ZenonT(30), <2>5, <2>6, <2>7 DEF Calm
    <3> QED
      BY <2>4, <3>1, EmptyHanded
  <2> QED
    BY <1>0, <2>2, <2>4, <2>8, QuietStep
<1>2. CASE FilterQueue(x)
  <2> DEFINE p == IF thr[x].fin = Nil THEN "chkDone" ELSE "setState"
             r == [thr[x] EXCEPT !.pc = p]
  <2>1. p \in {"chkDone", "setState"}
    OBVIOUS
  <2>2. /\ Becomes(x, r) /\ readyQueue' = Without(readyQueue, thr[x].out)
        /\ UNCHANGED <<taskState, execID, stored, runningTasks, assignedTasks>>
    BY <1>2 DEF FilterQueue, Goto, dbVars
  <2> HIDE DEF p
  <2>3. r \in ThreadState /\ r.pc = p
    BY <1>0, <2>1 DEF ThreadState, PCs
  <2>4. \A t \in Tasks : InQueue(t)' => Known(t)
    <3>1. readyQueue \in Seq(Tasks)
      BY DEF TypeInv, TypeOK
    <3>2. \A k \in DOMAIN readyQueue' : \E i \in DOMAIN readyQueue : readyQueue'[k] = readyQueue[i]
      BY <2>2, <3>1, WithoutProperties
    <3>3. \A t \in Tasks : InQueue(t)' => InQueue(t)
      BY <3>2 DEF InQueue
    <3> QED
      BY <3>3, PlacesKnown
  <2>5. \A t \in Tasks : Settles(t)
    BY <2>2 DEF Settles
  <2>6. \A t \in Tasks : runningTasks'[t] # Nil \/ assignedTasks'[t] # Nil => Known(t)
    BY <2>2, PlacesKnown
  <2> HIDE DEF r
  <2>7. Calm /\ Harmless(r)
    <3>1. Calm
      BY ZenonT(30), <2>4, <2>5, <2>6 DEF Calm
    <3> QED
      BY <2>1, <2>3, <3>1, EmptyHanded
  <2> QED
    BY <1>0, <2>2, <2>3, <2>7, QuietStep
<1>3. CASE SetWorkflowState(x)
  <2>1. /\ Becomes(x, Idle)
        /\ UNCHANGED <<taskState, execID, stored, readyQueue, runningTasks, assignedTasks>>
    BY <1>3 DEF SetWorkflowState, Return, TxSetWorkflowState, taskVars, memVars
  <2> QED
    BY <1>0, <2>1, SameCalm, IdleHarmless, QuietStep
<1> QED
  BY <1>1, <1>2, <1>3 DEF CancelStep

LEMMA DeadWorkerSubmit ==
    ASSUME TypeInv, TypeInv', SubmitInv, NEW w \in Workers, HandleDeadWorker(w)
    PROVE  SubmitInv'
<1> DEFINE dead == {t \in Tasks : runningTasks[t] = w}
           r == [Idle EXCEPT !.pc = "dwRequeue", !.who = w, !.todo = dead]
<1>1. /\ Becomes(Daemon, r) /\ UNCHANGED <<taskState, execID, stored, readyQueue>>
      /\ runningTasks' = [t \in Tasks |-> IF t \in dead THEN Nil ELSE runningTasks[t]]
      /\ assignedTasks' = [t \in Tasks |-> IF t \in dead THEN Nil ELSE assignedTasks[t]]
  BY DEF HandleDeadWorker, dbVars
<1>2. dead \in SUBSET Tasks /\ \A t \in dead : runningTasks[t] # Nil
  BY StoreAssumption
<1> HIDE DEF dead
<1>3. r \in ThreadState /\ r.pc = "dwRequeue" /\ r.todo = dead
  BY ZenonT(30), <1>2, StoreAssumption DEF ThreadState, PCs, Idle
<1> HIDE DEF r
<1>4. Harmless(r)
  BY ZenonT(30), <1>2, <1>3, PlacesKnown DEF Harmless, SubmitPCs, WalksStayBelow, Keeps, ResultPCs
<1>5. \A t \in Tasks : Settles(t)
  BY ZenonT(30), <1>1 DEF Settles
<1>6. \A t \in Tasks : InQueue(t)' => Known(t)
  BY ZenonT(30), <1>1, PlacesKnown DEF InQueue
<1>7. \A t \in Tasks : runningTasks'[t] # Nil \/ assignedTasks'[t] # Nil => Known(t)
  BY ZenonT(30), <1>1, PlacesKnown
<1>8. Calm
  BY ZenonT(30), <1>5, <1>6, <1>7 DEF Calm
<1> QED
  BY ZenonT(30), <1>1, <1>3, <1>4, <1>8, ThreadsType, QuietStep

\* The heartbeat monitor, after its first critical section.
LEMMA MonitorSubmit ==
    ASSUME TypeInv, TypeInv', SubmitInv, DeadRequeue \/ DeadAppend \/ DeadRemove
    PROVE  SubmitInv'
<1>0. Daemon \in Threads /\ thr[Daemon] \in ThreadState /\ LocalsFit(Daemon, thr[Daemon]) /\ StoreTypeOK
  BY ThreadsType, LocalsType
<1>1. CASE DeadRequeue
  <2>1. PICK t \in thr[Daemon].todo :
          /\ TxRequeueTask(t)
          /\ Becomes(Daemon, [thr[Daemon] EXCEPT !.pc = "dwAppend", !.task = t, !.todo = @ \ {t}])
    BY ZenonT(30), <1>1 DEF DeadRequeue
  <2> DEFINE rest == thr[Daemon].todo \ {t}
             r == [thr[Daemon] EXCEPT !.pc = "dwAppend", !.task = t, !.todo = rest]
  <2>2. t \in Tasks /\ rest \in SUBSET Tasks /\ rest \subseteq thr[Daemon].todo
    BY <1>0, <2>1 DEF ThreadState
  <2>3. \A u \in Tasks : u \in thr[Daemon].todo => Known(u)
    <3>1. \A u \in thr[Daemon].todo : Keeps(thr[Daemon], u)
      BY ZenonT(30), <1>1 DEF DeadRequeue, At, Keeps
    <3> QED
      BY ZenonT(30), <1>0, <3>1, PlacesKnown
  <2>4. Becomes(Daemon, r) /\ UNCHANGED <<stored, readyQueue, runningTasks, assignedTasks>>
    BY ZenonT(30), <1>1, <2>1 DEF DeadRequeue, TxRequeueTask, memVars
  <2>5. /\ taskState'[t] = "QUEUED" /\ execID'[t] = Nil
        /\ \A u \in Tasks : u # t => taskState'[u] = taskState[u] /\ execID'[u] = execID[u]
    BY <1>0, <2>1, <2>2 DEF TxRequeueTask, StoreTypeOK
  <2> HIDE DEF rest
  <2>6. r \in ThreadState /\ r.pc = "dwAppend" /\ r.task = t /\ r.todo = rest
    BY ZenonT(30), <1>0, <2>2 DEF ThreadState, PCs
  <2> HIDE DEF r
  <2>7. Harmless(r)
    BY <2>1, <2>2, <2>3, <2>6 DEF Harmless, SubmitPCs, WalksStayBelow, Keeps, ResultPCs
  <2>8. Calm
    BY <2>1, <2>2, <2>3, <2>4, <2>5, WriteCalm
  <2> QED
    BY ZenonT(30), <1>0, <2>4, <2>6, <2>7, <2>8, QuietStep
<1>2. CASE DeadAppend
  <2> DEFINE r == [thr[Daemon] EXCEPT !.pc = "dwRequeue"]
             t == thr[Daemon].task
  <2>1. /\ Becomes(Daemon, r) /\ readyQueue' = Append(readyQueue, t)
        /\ UNCHANGED <<taskState, execID, stored, runningTasks, assignedTasks>>
    BY <1>2 DEF DeadAppend, Goto, dbVars
  <2>2. r \in ThreadState /\ r.pc = "dwRequeue" /\ r.todo = thr[Daemon].todo
    BY <1>0 DEF ThreadState, PCs
  <2>3. t \in Tasks /\ Keeps(thr[Daemon], t) /\ \A u \in thr[Daemon].todo : Keeps(thr[Daemon], u)
    BY ZenonT(30), <1>0, <1>2 DEF DeadAppend, At, LocalsFit, Keeps
  <2>4. Known(t) /\ \A u \in Tasks : u \in thr[Daemon].todo => Known(u)
    BY ZenonT(30), <1>0, <2>3, PlacesKnown
  <2> HIDE DEF r, t
  <2>5. Harmless(r)
    BY ZenonT(30), <2>2, <2>4 DEF Harmless, SubmitPCs, WalksStayBelow, Keeps, ResultPCs
  <2>6. \A u \in Tasks : Settles(u)
    BY <2>1 DEF Settles
  <2>7. \A u \in Tasks : InQueue(u)' => Known(u)
    BY ZenonT(30), <2>1, <2>3, <2>4, AppendKnown
  <2>8. \A u \in Tasks : runningTasks'[u] # Nil \/ assignedTasks'[u] # Nil => Known(u)
    BY ZenonT(30), <2>1, PlacesKnown
  <2>9. Calm
    BY ZenonT(30), <2>6, <2>7, <2>8 DEF Calm
  <2> QED
    BY ZenonT(30), <1>0, <2>1, <2>2, <2>5, <2>9, QuietStep
<1>3. CASE DeadRemove
  <2> DEFINE r == [thr[Daemon] EXCEPT !.pc = "dwForget"]
  <2>1. r \in ThreadState /\ r.pc = "dwForget"
    BY <1>0 DEF ThreadState, PCs
  <2>2. /\ Becomes(Daemon, r) \/ Becomes(Daemon, Idle)
        /\ UNCHANGED <<taskState, execID, stored, readyQueue, runningTasks, assignedTasks>>
    BY <1>3 DEF DeadRemove, Goto, Return, dbVars
  <2> HIDE DEF r
  <2>3. Calm /\ Harmless(r)
    BY <2>1, <2>2, SameCalm, EmptyHanded
  <2> QED
    BY ZenonT(30), <1>0, <2>1, <2>2, <2>3, IdleHarmless, QuietStep
<1> QED
  BY <1>1, <1>2, <1>3

\* Nothing is touched after a crash, and no call is in progress.
LEMMA CrashSubmit ==
    ASSUME TypeInv, SubmitInv, Crash
    PROVE  SubmitInv'
<1>1. \A x \in Threads : thr'[x].pc = "idle"
  BY ZenonT(30) DEF Crash, Idle
<1>2. \A t \in Tasks : ~Touched(t)'
  <2>1. \A t \in Tasks : runningTasks'[t] = Nil /\ assignedTasks'[t] = Nil
    BY DEF Crash
  <2>2. \A t \in Tasks : ~InQueue(t)'
    BY DEF Crash, InQueue
  <2> QED
    BY ZenonT(30), <1>1, <2>1, <2>2, ThreadsType DEF Touched, Handling, Releasing, Relisted, ResultPCs
<1>3. UNCHANGED <<taskState, execID, stored>>
  BY DEF Crash, dbVars
<1>4. \A c \in Clients : Unqueued(c)' = {}
  BY ZenonT(30), <1>1, ThreadsType DEF Unqueued
<1>5. \A x \in Threads : WalksStayBelow(thr[x])'
  BY ZenonT(30), <1>1 DEF WalksStayBelow
<1>6. SubmittersApart' /\ RecordsAppearTogether'
  BY ZenonT(30), <1>1, <1>3, ThreadsType DEF SubmitInv, SubmittersApart, RecordsAppearTogether, SubmitPCs
<1>7. AbsentIsUntouched' /\ RootsUntouched' /\ WaitingIsUnassigned'
  BY ZenonT(30), <1>2, <1>3, <1>4 DEF SubmitInv, AbsentIsUntouched, RootsUntouched, WaitingIsUnassigned
<1> QED
  BY <1>5, <1>6, <1>7 DEF SubmitInv

\* Start-up: queued and running tasks, which have records, are touched again.
LEMMA RecoverySubmit ==
    ASSUME TypeInv, TypeInv', SubmitInv, LoadStateFromDB \/ PrepareRecovery \/ Start
    PROVE  SubmitInv'
<1>0. Daemon \in Threads /\ thr[Daemon] \in ThreadState /\ StoreTypeOK
  BY ThreadsType, LocalsType
<1>1. \A x \in Threads : x # Daemon => thr[x].pc = "idle"
  BY DEF LoadStateFromDB, PrepareRecovery, Start, TypeInv, LocalsOK
<1>2. CASE LoadStateFromDB
  <2> DEFINE r == [Idle EXCEPT !.pc = "rcRequeue", !.todo = Interrupted]
  <2>1. /\ Becomes(Daemon, r) /\ readyQueue' \in Orders(QueuedOnDisk)
        /\ UNCHANGED <<taskState, execID, stored, runningTasks, assignedTasks>>
    BY <1>2 DEF LoadStateFromDB, dbVars
  <2>2. r.pc = "rcRequeue" /\ r.todo = Interrupted
    BY DEF Idle
  <2>3. \A y \in Threads : thr'[y] = IF y = Daemon THEN r ELSE thr[y]
    BY <2>1 DEF Becomes, TypeInv, TypeOK
  <2>4. \A x \in Clients : thr'[x].pc = "idle"
    BY <1>1, <2>3, ThreadsType, CoordinatorAssumption
  <2>5. ASSUME NEW t \in Tasks, taskState[t] = "ABSENT" PROVE ~Touched(t)'
    <3>1. ~InQueue(t)'
      <4>1. IsFiniteSet(QueuedOnDisk) /\ \A u \in QueuedOnDisk : taskState[u] = "QUEUED"
        BY StoreAssumption, FS_Subset DEF QueuedOnDisk, InState
      <4>2. readyQueue' \in Seq(QueuedOnDisk)
        BY <2>1, <4>1, OrdersProperties
      <4>3. \A i \in DOMAIN readyQueue' : readyQueue'[i] \in QueuedOnDisk
        BY <4>2
      <4> QED
        BY <2>5, <4>1, <4>3 DEF InQueue
    <3>2. runningTasks'[t] = Nil /\ assignedTasks'[t] = Nil
      BY <2>1, <2>5 DEF SubmitInv, AbsentIsUntouched, Touched
    <3>3. \A x \in Threads : ~Handling(x, t)' /\ ~Releasing(x, t)'
      BY ZenonT(30), <1>1, <2>2, <2>3 DEF Handling, Releasing, ResultPCs
    <3>4. ~Relisted(t)'
      BY ZenonT(30), <1>0, <2>2, <2>3, <2>5 DEF Relisted, Interrupted, InState
    <3> QED
      BY ZenonT(30), <3>1, <3>2, <3>3, <3>4 DEF Touched
  <2>6. SubmittersApart' /\ RecordsAppearTogether'
    BY <2>1, <2>4 DEF SubmitInv, SubmittersApart, RecordsAppearTogether, SubmitPCs
  <2>7. AbsentIsUntouched' /\ WaitingIsUnassigned'
    BY <2>1, <2>5 DEF SubmitInv, AbsentIsUntouched, WaitingIsUnassigned
  <2>8. RootsUntouched'
    BY ZenonT(30), <2>4 DEF RootsUntouched, Unqueued
  <2>9. \A x \in Threads : WalksStayBelow(thr[x])'
    BY ZenonT(30), <1>1, <2>2, <2>3 DEF WalksStayBelow
  <2> QED
    BY ZenonT(30), <2>6, <2>7, <2>8, <2>9 DEF SubmitInv
<1>3. CASE PrepareRecovery
  <2>1. PICK t \in thr[Daemon].todo :
          /\ TxRequeueTask(t)
          /\ readyQueue' = Append(readyQueue, t)
          /\ Becomes(Daemon, [thr[Daemon] EXCEPT !.todo = @ \ {t}])
    BY ZenonT(30), <1>3 DEF PrepareRecovery
  <2> DEFINE rest == thr[Daemon].todo \ {t}
             r == [thr[Daemon] EXCEPT !.todo = rest]
  <2>2. t \in Tasks /\ rest \in SUBSET Tasks /\ rest \subseteq thr[Daemon].todo
    BY <1>0, <2>1 DEF ThreadState
  <2>3. \A u \in Tasks : u \in thr[Daemon].todo => Known(u)
    <3>1. \A u \in thr[Daemon].todo : Keeps(thr[Daemon], u)
      BY <1>3 DEF PrepareRecovery, Keeps
    <3> QED
      BY ZenonT(30), <1>0, <3>1, PlacesKnown
  <2>4. Becomes(Daemon, r) /\ UNCHANGED <<stored, runningTasks, assignedTasks>>
    BY <1>3, <2>1 DEF PrepareRecovery, TxRequeueTask
  <2>5. /\ taskState'[t] = "QUEUED" /\ execID'[t] = Nil
        /\ \A u \in Tasks : u # t => taskState'[u] = taskState[u] /\ execID'[u] = execID[u]
    BY <1>0, <2>1, <2>2 DEF TxRequeueTask, StoreTypeOK
  <2> HIDE DEF rest
  <2>6. r \in ThreadState /\ r.pc = "rcRequeue" /\ r.todo = rest
    BY <1>0, <1>3, <2>2 DEF PrepareRecovery, ThreadState, PCs
  <2> HIDE DEF r
  <2>7. Harmless(r)
    BY <2>2, <2>3, <2>6 DEF Harmless, SubmitPCs, WalksStayBelow, Keeps, ResultPCs
  <2>8. \A u \in Tasks : Settles(u)
    BY <2>1, <2>2, <2>3, <2>5, KnownPresent DEF Settles
  <2>9. \A u \in Tasks : InQueue(u)' => Known(u)
    BY <2>1, <2>2, <2>3, AppendKnown
  <2>10. \A u \in Tasks : runningTasks'[u] # Nil \/ assignedTasks'[u] # Nil => Known(u)
    BY ZenonT(30), <2>4, PlacesKnown
  <2>11. Calm
    BY ZenonT(30), <2>8, <2>9, <2>10 DEF Calm
  <2> QED
    BY ZenonT(30), <1>0, <2>4, <2>6, <2>7, <2>11, QuietStep
<1>4. CASE Start
  <2>1. /\ Becomes(Daemon, Idle)
        /\ UNCHANGED <<taskState, execID, stored, readyQueue, runningTasks, assignedTasks>>
    BY ZenonT(30), <1>4 DEF Start, Return, dbVars
  <2> QED
    BY <1>0, <2>1, SameCalm, IdleHarmless, QuietStep
<1> QED
  BY <1>2, <1>3, <1>4

LEMMA StoreErrorSubmit ==
    ASSUME TypeInv, TypeInv', SubmitInv, NEW x \in Threads, StoreError(x)
    PROVE  SubmitInv'
<1>1. thr[x] \in ThreadState
  BY LocalsType
<1>2. UNCHANGED <<taskState, execID, stored, readyQueue, runningTasks, assignedTasks>>
  BY DEF StoreError, dbVars
<1> Calm
  BY <1>2, SameCalm
<1>3. CASE Becomes(x, Idle)
  BY <1>2, <1>3, IdleHarmless, QuietStep
<1>4. CASE thr[x].pc = "skipWrite" /\ Goto(x, "skip")
  <2> DEFINE r == [thr[x] EXCEPT !.pc = "skip"]
  <2>1. /\ r \in ThreadState /\ r.pc = "skip" /\ r.todo = thr[x].todo /\ r.seen = thr[x].seen
        /\ Becomes(x, r)
    BY <1>1, <1>4 DEF ThreadState, PCs, Goto
  <2> HIDE DEF r
  <2>2. Harmless(r)
    BY ZenonT(30), <1>4, <2>1 DEF SubmitInv, Harmless, SubmitPCs, WalksStayBelow, Keeps, ResultPCs
  <2> QED
    BY ZenonT(30), <1>2, <2>1, <2>2, QuietStep
<1>5. CASE /\ thr[x].pc \in {"dwRequeue", "rcRequeue"}
           /\ \E t \in thr[x].todo : Becomes(x, [thr[x] EXCEPT !.todo = @ \ {t}])
  <2>1. PICK t \in thr[x].todo : Becomes(x, [thr[x] EXCEPT !.todo = @ \ {t}])
    BY ZenonT(30), <1>5
  <2> DEFINE rest == thr[x].todo \ {t}
             r == [thr[x] EXCEPT !.todo = rest]
  <2>2. rest \in SUBSET Tasks /\ rest \subseteq thr[x].todo /\ Becomes(x, r)
    BY <1>1, <2>1 DEF ThreadState
  <2> HIDE DEF rest
  <2>3. r \in ThreadState /\ r.pc = thr[x].pc /\ r.todo = rest
    BY <1>1, <2>2 DEF ThreadState
  <2> HIDE DEF r
  <2>4. \A u \in Tasks : Keeps(r, u) => Keeps(thr[x], u)
    BY <1>5, <2>2, <2>3 DEF Keeps, ResultPCs
  <2>5. Harmless(r)
    BY <1>5, <2>3, <2>4, PlacesKnown DEF Harmless, SubmitPCs, WalksStayBelow
  <2> QED
    BY ZenonT(30), <1>2, <2>2, <2>3, <2>5, QuietStep
<1> QED
  BY <1>3, <1>4, <1>5 DEF StoreError, At, Return

-----------------------------------------------------------------------------
(* The steps of a submission keep SubmitInv. *)
\* What a submission that has reached r does to the records: the tasks of its
\* workflow have none or have just got new ones, the others are left alone.
Records(r) ==
    /\ r.wf \in stored' /\ stored \subseteq stored'
    /\ \A t \in Tasks : WfOf[t] # r.wf => taskState'[t] = taskState[t] /\ execID'[t] = execID[t]
    /\ \A t \in Tasks : WfOf[t] = r.wf =>
          /\ taskState[t] = "ABSENT" /\ execID'[t] = Nil
          /\ taskState'[t] = IF r.pc = "sbLock" THEN "PENDING" ELSE "ABSENT"

\* A step of a submission: the other threads stay, and a task is newly touched
\* only by being queued.
LEMMA SubmissionFrame ==
    ASSUME TypeInv, TypeInv', NEW c \in Clients, NEW r \in ThreadState, r.pc \in SubmitPCs, Becomes(c, r),
           UNCHANGED <<runningTasks, assignedTasks>>
    PROVE  /\ thr'[c] = r /\ \A y \in Threads : y # c => thr'[y] = thr[y]
           /\ \A t \in Tasks : Touched(t)' => Touched(t) \/ InQueue(t)'
           /\ \A y \in Clients : y # c => Unqueued(y)' = Unqueued(y)
<1>1. thr'[c] = r /\ \A y \in Threads : y # c => thr'[y] = thr[y]
  BY ZenonT(30), ThreadsType DEF Becomes, TypeInv, TypeOK
<1>3. \A t \in Tasks, y \in Threads : Handling(y, t)' \/ Releasing(y, t)' => Handling(y, t) \/ Releasing(y, t)
  BY ZenonT(30), <1>1 DEF Handling, Releasing, SubmitPCs, ResultPCs
<1>4. \A t \in Tasks : Relisted(t)' => Relisted(t)
  BY ZenonT(30), <1>1, ThreadsType, CoordinatorAssumption DEF Relisted
<1>5. \A t \in Tasks : Touched(t)' => Touched(t) \/ InQueue(t)'
  BY ZenonT(30), <1>3, <1>4 DEF Touched
<1>6. \A y \in Clients : y # c => Unqueued(y)' = Unqueued(y)
  BY ZenonT(30), <1>1, ThreadsType DEF Unqueued
<1> QED
  BY ZenonT(30), <1>1, <1>5, <1>6

\* A step of a submission of wf that leaves the queue alone: the root tasks
\* still to be queued have new records, and other workflows are left alone.
LEMMA SubmissionStep ==
    ASSUME TypeInv, TypeInv', SubmitInv, NEW c \in Clients, NEW r \in ThreadState, r.pc \in SubmitPCs,
           Becomes(c, r), UNCHANGED <<readyQueue, runningTasks, assignedTasks>>,
           \A d \in Clients : d # c /\ thr[d].pc \in SubmitPCs => thr[d].wf # r.wf,
           r.pc \in {"sbInitWf", "sbInitTasks", "sbLock"}, Records(r)
    PROVE  SubmitInv'
<1>1. /\ thr'[c] = r /\ \A y \in Threads : y # c => thr'[y] = thr[y]
      /\ \A t \in Tasks : Touched(t)' => Touched(t) \/ InQueue(t)'
      /\ \A y \in Clients : y # c => Unqueued(y)' = Unqueued(y)
  BY ZenonT(30), SubmissionFrame
<1>2. \A t \in Tasks : Touched(t)' => Touched(t)
  BY ZenonT(30), <1>1 DEF InQueue, Touched
<1>0. c \in Threads /\ \A d \in Clients : d \in Threads
  BY ZenonT(30), ThreadsType
<1>3. SubmittersApart'
  <2>1. \A d \in Clients : thr'[d].pc \in SubmitPCs => thr'[d].wf \in stored'
    BY ZenonT(30), <1>0, <1>1 DEF SubmitInv, SubmittersApart, Records
  <2>2. ASSUME NEW d \in Clients, NEW e \in Clients, thr'[d].pc \in SubmitPCs, thr'[e].pc \in SubmitPCs,
               thr'[d].wf = thr'[e].wf
        PROVE  d = e
    <3>1. CASE d # c /\ e # c
      BY ZenonT(30), <1>0, <1>1, <2>2, <3>1 DEF SubmitInv, SubmittersApart
    <3>2. CASE d = c \/ e = c
      BY ZenonT(30), <1>0, <1>1, <2>2, <3>2
    <3> QED
      BY ZenonT(30), <3>1, <3>2
  <2> QED
    BY ZenonT(30), <2>1, <2>2 DEF SubmittersApart
<1>4. RecordsAppearTogether'
  <2>1. \A t \in Tasks : WfOf[t] \notin stored' => taskState'[t] = "ABSENT"
    BY ZenonT(30) DEF SubmitInv, RecordsAppearTogether, Records
  <2>2. \A d \in Clients, t \in Tasks :
           thr'[d].pc \in {"sbInitWf", "sbInitTasks"} /\ thr'[d].wf = WfOf[t] => taskState'[t] = "ABSENT"
    <3> SUFFICES ASSUME NEW d \in Clients, NEW t \in Tasks, thr'[d].pc \in {"sbInitWf", "sbInitTasks"},
                        thr'[d].wf = WfOf[t]
                 PROVE  taskState'[t] = "ABSENT"
      BY ZenonT(30)
    <3>1. CASE d = c
      BY ZenonT(30), <1>1, <3>1 DEF Records
    <3>2. CASE d # c
      <4>1. thr'[d] = thr[d] /\ thr[d].pc \in SubmitPCs
        BY ZenonT(30), <1>0, <1>1, <3>2 DEF SubmitPCs
      <4>2. taskState[t] = "ABSENT"
        BY ZenonT(30), <4>1 DEF SubmitInv, RecordsAppearTogether
      <4>3. WfOf[t] # r.wf
        BY ZenonT(30), <3>2, <4>1
      <4> QED
        BY ZenonT(30), <4>2, <4>3 DEF Records
    <3> QED
      BY ZenonT(30), <3>1, <3>2
  <2>3. \A t, u \in Tasks : WfOf[t] = WfOf[u] /\ taskState'[t] = "ABSENT" => taskState'[u] = "ABSENT"
    BY ZenonT(30) DEF SubmitInv, RecordsAppearTogether, Records
  <2> QED
    BY ZenonT(30), <2>1, <2>2, <2>3 DEF RecordsAppearTogether
<1>5. AbsentIsUntouched'
  BY ZenonT(30), <1>2 DEF SubmitInv, AbsentIsUntouched, Records
<1>6. RootsUntouched'
  <2> SUFFICES ASSUME NEW d \in Clients, NEW t \in Unqueued(d)'
               PROVE  /\ WfOf[t] = thr'[d].wf /\ Deps[t] = {}
                      /\ ~Touched(t)' /\ execID'[t] = Nil /\ taskState'[t] \in {"PENDING", "SKIPPED"}
    BY ZenonT(30) DEF RootsUntouched
  <2>1. CASE d = c
    <3>1. r.pc = "sbLock" /\ t \in Tasks /\ WfOf[t] = r.wf /\ Deps[t] = {}
      BY ZenonT(30), <1>1, <2>1 DEF Unqueued, TasksOf, SubmitPCs
    <3> QED
      BY ZenonT(30), <1>1, <1>2, <2>1, <3>1 DEF SubmitInv, AbsentIsUntouched, Records
  <2>2. CASE d # c
    <3>1. t \in Unqueued(d) /\ thr'[d] = thr[d]
      BY ZenonT(30), <1>1, <2>2, ThreadsType
    <3>2. t \in Tasks /\ thr[d].pc \in SubmitPCs
      BY ZenonT(30), <3>1, LocalsType, ThreadsType DEF Unqueued, TasksOf, ThreadState, SubmitPCs
    <3>3. /\ WfOf[t] = thr[d].wf /\ Deps[t] = {}
          /\ ~Touched(t) /\ execID[t] = Nil /\ taskState[t] \in {"PENDING", "SKIPPED"}
      BY ZenonT(30), <3>1 DEF SubmitInv, RootsUntouched
    <3> QED
      BY ZenonT(30), <1>2, <2>2, <3>1, <3>2, <3>3 DEF Records
  <2> QED
    BY ZenonT(30), <2>1, <2>2
<1>7. \A y \in Threads : WalksStayBelow(thr[y])'
  <2> TAKE y \in Threads
  <2>1. CASE y = c
    BY ZenonT(30), <1>1, <2>1 DEF WalksStayBelow, SubmitPCs
  <2>2. CASE y # c
    <3>1. WalksStayBelow(thr[y]) /\ thr'[y] = thr[y] /\ thr[y].seen \subseteq Tasks
      BY ZenonT(30), <1>1, <2>2, LocalsType DEF SubmitInv, ThreadState
    <3>2. \A t \in Tasks : taskState[t] # "ABSENT" => taskState'[t] # "ABSENT"
      BY ZenonT(30) DEF Records
    <3> QED
      BY ZenonT(30), <3>1, <3>2 DEF WalksStayBelow
  <2> QED
    BY ZenonT(30), <2>1, <2>2
<1>8. WaitingIsUnassigned'
  BY ZenonT(30) DEF SubmitInv, WaitingIsUnassigned, Records
<1> QED
  BY ZenonT(30), <1>3, <1>4, <1>5, <1>6, <1>7, <1>8 DEF SubmitInv

LEMMA SubmitCallSubmit ==
    ASSUME Resubmits = {}, TypeInv, TypeInv', SubmitInv, NEW c \in Clients, SubmitWorkflow(c) \/ CancelWorkflow(c)
    PROVE  SubmitInv'
<1>1. CASE SubmitWorkflow(c)
  <2>1. PICK wf \in Workflows : /\ wf \notin stored /\ TxStoreWorkflow(wf)
                                /\ Becomes(c, [Idle EXCEPT !.pc = "sbInitWf", !.wf = wf])
    BY ZenonT(30), <1>1 DEF SubmitWorkflow
  <2> DEFINE r == [Idle EXCEPT !.pc = "sbInitWf", !.wf = wf]
  <2>2. r \in ThreadState /\ r.pc = "sbInitWf" /\ r.wf = wf
    BY ZenonT(30), IdleType DEF ThreadState, PCs, Idle
  <2>3. /\ Becomes(c, r) /\ stored' = stored \cup {wf}
        /\ UNCHANGED <<taskState, execID, readyQueue, runningTasks, assignedTasks>>
    BY ZenonT(30), <1>1, <2>1 DEF SubmitWorkflow, TxStoreWorkflow, taskVars, memVars
  <2>4. \A d \in Clients : thr[d].pc \in SubmitPCs => thr[d].wf # wf
    BY <2>1 DEF SubmitInv, SubmittersApart
  <2>5. \A t \in Tasks : WfOf[t] = wf => taskState[t] = "ABSENT" /\ execID[t] = Nil
    BY <2>1 DEF SubmitInv, RecordsAppearTogether, WaitingIsUnassigned
  <2> HIDE DEF r
  <2>6. r.pc \in SubmitPCs
    BY <2>2 DEF SubmitPCs
  <2>7. Records(r)
    BY ZenonT(30), <2>2, <2>3, <2>5 DEF Records
  <2> QED
    BY ZenonT(30), <2>2, <2>3, <2>4, <2>6, <2>7, SubmissionStep
<1>2. CASE CancelWorkflow(c)
  <2>1. PICK wf \in Cancels :
          Becomes(c, [Idle EXCEPT !.pc = "cancelTx", !.wf = wf, !.fin = "CANCELLED"])
    BY ZenonT(30), <1>2 DEF CancelWorkflow
  <2> DEFINE r == [Idle EXCEPT !.pc = "cancelTx", !.wf = wf, !.fin = "CANCELLED"]
  <2>2. r \in ThreadState /\ r.pc = "cancelTx"
    BY ZenonT(30), CoordinatorAssumption, IdleType DEF ThreadState, PCs, Idle, WfStates
  <2>3. Becomes(c, r) /\ UNCHANGED <<taskState, execID, stored, readyQueue, runningTasks, assignedTasks>>
    BY ZenonT(30), <1>2, <2>1 DEF CancelWorkflow, dbVars, memVars
  <2> HIDE DEF r
  <2>4. Calm /\ Harmless(r)
    BY <2>2, <2>3, SameCalm, EmptyHanded
  <2> QED
    BY <2>2, <2>3, <2>4, ThreadsType, QuietStep
<1> QED
  BY <1>1, <1>2

LEMMA SubmitStepSubmit ==
    ASSUME TypeInv, TypeInv', SubmitInv, NEW c \in Clients, SubmitStep(c)
    PROVE  SubmitInv'
<1>0. c \in Threads /\ thr[c] \in ThreadState /\ StoreTypeOK
  BY ThreadsType, LocalsType
<1> DEFINE wf == thr[c].wf
<1>1. thr[c].pc \in SubmitPCs
  BY DEF SubmitStep, SubmitInitWorkflow, SubmitInitTasks, SubmitLock, SubmitQueue, SubmitReturn, At, SubmitPCs
<1>2. wf \in stored /\ \A d \in Clients : d # c /\ thr[d].pc \in SubmitPCs => thr[d].wf # wf
  BY <1>1 DEF SubmitInv, SubmittersApart
<1>3. thr[c].pc \in {"sbInitWf", "sbInitTasks"} =>
        \A t \in Tasks : WfOf[t] = wf => taskState[t] = "ABSENT" /\ execID[t] = Nil
  BY ZenonT(30) DEF SubmitInv, RecordsAppearTogether, WaitingIsUnassigned
<1>4. CASE SubmitInitWorkflow(c)
  <2> DEFINE r == [thr[c] EXCEPT !.pc = "sbInitTasks"]
  <2>1. r \in ThreadState /\ r.pc = "sbInitTasks" /\ r.wf = wf /\ thr[c].pc = "sbInitWf"
    BY <1>0, <1>4 DEF SubmitInitWorkflow, At, ThreadState, PCs
  <2>2. Becomes(c, r) /\ UNCHANGED <<taskState, execID, stored, readyQueue, runningTasks, assignedTasks>>
    BY <1>4 DEF SubmitInitWorkflow, Goto, TxSetWorkflowState, taskVars, memVars
  <2> HIDE DEF r
  <2>3. r.pc \in SubmitPCs
    BY ZenonT(30), <2>1 DEF SubmitPCs
  <2>4. Records(r)
    BY ZenonT(30), <1>2, <1>3, <2>1, <2>2 DEF Records
  <2>5. /\ r.pc \in {"sbInitWf", "sbInitTasks", "sbLock"}
        /\ \A d \in Clients : d # c /\ thr[d].pc \in SubmitPCs => thr[d].wf # r.wf
    BY ZenonT(30), <1>2, <2>1
  <2> QED
    BY ZenonT(30), <2>1, <2>2, <2>3, <2>4, <2>5, SubmissionStep
<1>5. CASE SubmitInitTasks(c)
  <2> DEFINE r == [thr[c] EXCEPT !.pc = "sbLock"]
  <2>1. r \in ThreadState /\ r.pc = "sbLock" /\ r.wf = wf /\ thr[c].pc = "sbInitTasks"
    BY <1>0, <1>5 DEF SubmitInitTasks, At, ThreadState, PCs
  <2>2. Becomes(c, r) /\ UNCHANGED <<stored, readyQueue, runningTasks, assignedTasks>>
    BY <1>5 DEF SubmitInitTasks, Goto, TxInitializeTasks, memVars
  <2>3. \A t \in Tasks : /\ taskState'[t] = IF WfOf[t] = wf THEN "PENDING" ELSE taskState[t]
                         /\ execID'[t] = IF WfOf[t] = wf THEN Nil ELSE execID[t]
    BY ZenonT(30), <1>5 DEF SubmitInitTasks, TxInitializeTasks
  <2> HIDE DEF r
  <2>4. r.pc \in SubmitPCs
    BY <2>1 DEF SubmitPCs
  <2>5. Records(r)
    BY ZenonT(30), <1>2, <1>3, <2>1, <2>2, <2>3 DEF Records
  <2>6. /\ r.pc \in {"sbInitWf", "sbInitTasks", "sbLock"}
        /\ \A d \in Clients : d # c /\ thr[d].pc \in SubmitPCs => thr[d].wf # r.wf
    BY ZenonT(30), <1>2, <2>1
  <2> QED
    BY ZenonT(30), <2>1, <2>2, <2>4, <2>5, <2>6, SubmissionStep
<1>6. CASE SubmitLock(c)
  <2> DEFINE roots == {t \in TasksOf(wf) : Deps[t] = {}}
             r == [thr[c] EXCEPT !.pc = "sbQueue", !.todo = roots]
  <2>1. roots \in SUBSET Tasks /\ roots = Unqueued(c) /\ thr[c].pc = "sbLock"
    BY <1>6 DEF SubmitLock, At, TasksOf, Unqueued
  <2>2. Becomes(c, r) /\ UNCHANGED <<taskState, execID, stored, readyQueue, runningTasks, assignedTasks>>
    BY <1>6 DEF SubmitLock, dbVars
  <2> HIDE DEF roots
  <2>3. r \in ThreadState /\ r.pc = "sbQueue" /\ r.wf = wf /\ r.todo = roots
    BY ZenonT(30), <1>0, <2>1 DEF ThreadState, PCs
  <2> HIDE DEF r
  <2>4. r.pc \in SubmitPCs
    BY ZenonT(30), <2>3 DEF SubmitPCs
  <2>5. /\ thr'[c] = r /\ \A y \in Threads : y # c => thr'[y] = thr[y]
        /\ \A t \in Tasks : Touched(t)' => Touched(t) \/ InQueue(t)'
        /\ \A y \in Clients : y # c => Unqueued(y)' = Unqueued(y)
    BY ZenonT(30), <2>2, <2>3, <2>4, SubmissionFrame
  <2>6. \A t \in Tasks : Touched(t)' => Touched(t)
    BY ZenonT(30), <2>2, <2>5 DEF InQueue, Touched
  <2>7. Unqueued(c)' = Unqueued(c)
    BY ZenonT(30), <2>1, <2>3, <2>5 DEF Unqueued
  <2>8. \A d \in Clients : thr'[d].wf = thr[d].wf /\ (thr'[d].pc \in SubmitPCs <=> thr[d].pc \in SubmitPCs)
    BY ZenonT(30), <1>1, <2>3, <2>4, <2>5, ThreadsType
  <2>9. SubmittersApart'
    BY ZenonT(30), <2>2, <2>8 DEF SubmitInv, SubmittersApart
  <2>10. RecordsAppearTogether'
    BY ZenonT(30), <2>2, <2>3, <2>5, ThreadsType DEF SubmitInv, RecordsAppearTogether
  <2>11. AbsentIsUntouched' /\ WaitingIsUnassigned'
    BY ZenonT(30), <2>2, <2>6 DEF SubmitInv, AbsentIsUntouched, WaitingIsUnassigned
  <2>12. RootsUntouched'
    <3>1. \A d \in Clients : Unqueued(d)' = Unqueued(d)
      BY ZenonT(30), <2>5, <2>7
    <3>2. \A d \in Clients : Unqueued(d) \subseteq Tasks
      <4> TAKE d \in Clients
      <4>1. thr[d].todo \subseteq Tasks
        BY ZenonT(30), LocalsType, ThreadsType DEF ThreadState
      <4> QED
        BY ZenonT(30), <4>1 DEF Unqueued, TasksOf
    <3> QED
      BY ZenonT(30), <2>2, <2>6, <2>8, <3>1, <3>2 DEF SubmitInv, RootsUntouched
  <2>13. \A y \in Threads : WalksStayBelow(thr[y])'
    BY ZenonT(30), <2>2, <2>3, <2>5 DEF SubmitInv, WalksStayBelow
  <2> QED
    BY ZenonT(30), <2>9, <2>10, <2>11, <2>12, <2>13 DEF SubmitInv
<1>7. CASE SubmitQueue(c)
  <2>1. PICK t \in thr[c].todo :
          /\ TxUpdateTaskState(t, "QUEUED")
          /\ readyQueue' = Append(readyQueue, t)
          /\ Becomes(c, [thr[c] EXCEPT !.todo = @ \ {t}])
    BY ZenonT(30), <1>7 DEF SubmitQueue
  <2> DEFINE rest == thr[c].todo \ {t}
             r == [thr[c] EXCEPT !.todo = rest]
  <2>2. t \in Tasks /\ rest \in SUBSET Tasks /\ thr[c].pc = "sbQueue" /\ Unqueued(c) = thr[c].todo
    BY <1>0, <1>7, <2>1 DEF SubmitQueue, At, ThreadState, Unqueued
  <2>3. /\ WfOf[t] = wf /\ Deps[t] = {} /\ ~Touched(t) /\ execID[t] = Nil
        /\ taskState[t] \in {"PENDING", "SKIPPED"}
    BY <2>1, <2>2 DEF SubmitInv, RootsUntouched
  <2>4. Becomes(c, r) /\ UNCHANGED <<execID, stored, runningTasks, assignedTasks>>
    BY <1>7, <2>1 DEF SubmitQueue, TxUpdateTaskState
  <2>5. \A u \in Tasks : taskState'[u] = IF u = t THEN "QUEUED" ELSE taskState[u]
    BY <1>0, <2>1 DEF TxUpdateTaskState, StoreTypeOK
  <2>6. \A u \in rest : u # t /\ u \in Unqueued(c)
    BY ZenonT(30), <2>2
  <2> HIDE DEF rest
  <2>7. r \in ThreadState /\ r.pc = "sbQueue" /\ r.wf = wf /\ r.todo = rest
    BY <1>0, <2>2 DEF ThreadState, PCs
  <2> HIDE DEF r
  <2>8. r.pc \in SubmitPCs
    BY <2>7 DEF SubmitPCs
  <2>9. /\ thr'[c] = r /\ \A y \in Threads : y # c => thr'[y] = thr[y]
        /\ \A u \in Tasks : Touched(u)' => Touched(u) \/ InQueue(u)'
        /\ \A y \in Clients : y # c => Unqueued(y)' = Unqueued(y)
    BY ZenonT(30), <2>4, <2>7, <2>8, SubmissionFrame
  <2>10. \A u \in Tasks : Touched(u)' => Touched(u) \/ u = t
    <3>1. \A u \in Tasks : InQueue(u)' => InQueue(u) \/ u = t
      BY <2>1, <2>2 DEF InQueue, TypeInv, TypeOK
    <3> QED
      BY ZenonT(30), <2>9, <3>1 DEF Touched
  <2>11. \A d \in Clients : thr'[d].wf = thr[d].wf /\ thr'[d].pc = thr[d].pc
    BY ZenonT(30), <2>2, <2>7, <2>9, ThreadsType
  <2>12. \A u \in Tasks : taskState'[u] = "ABSENT" <=> taskState[u] = "ABSENT"
    BY ZenonT(30), <2>3, <2>5
  <2>13. SubmittersApart' /\ RecordsAppearTogether'
    BY ZenonT(30), <2>4, <2>11, <2>12 DEF SubmitInv, SubmittersApart, RecordsAppearTogether
  <2>14. AbsentIsUntouched' /\ WaitingIsUnassigned'
    BY ZenonT(30), <2>3, <2>4, <2>5, <2>10, <2>12 DEF SubmitInv, AbsentIsUntouched, WaitingIsUnassigned
  <2>15. RootsUntouched'
    <3> SUFFICES ASSUME NEW d \in Clients, NEW u \in Unqueued(d)'
                 PROVE  /\ WfOf[u] = thr'[d].wf /\ Deps[u] = {}
                        /\ ~Touched(u)' /\ execID'[u] = Nil /\ taskState'[u] \in {"PENDING", "SKIPPED"}
      BY ZenonT(30) DEF RootsUntouched
    <3>1. u \in Unqueued(d) /\ u \in Tasks
      <4>1. d = c => Unqueued(d)' = rest
        BY ZenonT(30), <2>7, <2>9 DEF Unqueued
      <4> QED
        BY ZenonT(30), <2>6, <2>9, <4>1, LocalsType, ThreadsType DEF Unqueued, TasksOf, ThreadState
    <3>2. /\ WfOf[u] = thr[d].wf /\ Deps[u] = {}
          /\ ~Touched(u) /\ execID[u] = Nil /\ taskState[u] \in {"PENDING", "SKIPPED"}
      BY ZenonT(30), <3>1 DEF SubmitInv, RootsUntouched
    <3>3. u # t
      <4>1. CASE d = c
        BY ZenonT(30), <2>6, <2>7, <2>9, <4>1 DEF Unqueued
      <4>2. CASE d # c
        BY ZenonT(30), <1>2, <2>3, <3>1, <3>2, <4>2 DEF Unqueued, SubmitPCs
      <4> QED
        BY ZenonT(30), <4>1, <4>2
    <3> QED
      BY ZenonT(30), <2>4, <2>5, <2>10, <2>11, <3>1, <3>2, <3>3
  <2>16. \A y \in Threads : WalksStayBelow(thr[y])'
    <3> TAKE y \in Threads
    <3>1. CASE y = c
      BY ZenonT(30), <2>7, <2>9, <3>1 DEF WalksStayBelow
    <3>2. CASE y # c
      BY ZenonT(30), <2>9, <2>12, <3>2, LocalsType DEF SubmitInv, WalksStayBelow, ThreadState
    <3> QED
      BY ZenonT(30), <3>1, <3>2
  <2> QED
    BY ZenonT(30), <2>13, <2>14, <2>15, <2>16 DEF SubmitInv
<1>8. CASE SubmitReturn(c)
  <2>1. /\ Becomes(c, Idle)
        /\ UNCHANGED <<taskState, execID, stored, readyQueue, runningTasks, assignedTasks>>
    BY ZenonT(30), <1>8 DEF SubmitReturn, Return, dbVars
  <2> QED
    BY <1>0, <2>1, SameCalm, IdleHarmless, QuietStep
<1> QED
  BY <1>4, <1>5, <1>6, <1>7, <1>8 DEF SubmitStep

LEMMA SubmitInit == Init => SubmitInv
<1> SUFFICES ASSUME Init PROVE SubmitInv
  OBVIOUS
<1>1. \A x \in Threads : thr[x].pc = "idle"
  BY ZenonT(30) DEF Init, Idle
<1>2. \A t \in Tasks : taskState[t] = "ABSENT" /\ execID[t] = Nil
  BY DEF Init, StoreInit
<1>3. \A t \in Tasks : ~Touched(t)
  <2>1. \A t \in Tasks : runningTasks[t] = Nil /\ assignedTasks[t] = Nil /\ ~InQueue(t)
    BY DEF Init, InQueue
  <2> QED
    BY ZenonT(30), <1>1, <2>1, ThreadsType DEF Touched, Handling, Releasing, Relisted, ResultPCs
<1>4. SubmittersApart /\ RecordsAppearTogether /\ AbsentIsUntouched /\ WaitingIsUnassigned
  BY ZenonT(30), <1>1, <1>2, <1>3, ThreadsType
     DEF SubmittersApart, RecordsAppearTogether, AbsentIsUntouched, WaitingIsUnassigned, SubmitPCs
<1>5. RootsUntouched /\ \A x \in Threads : WalksStayBelow(thr[x])
  BY ZenonT(30), <1>1, ThreadsType DEF RootsUntouched, Unqueued, WalksStayBelow
<1> QED
  BY <1>4, <1>5 DEF SubmitInv

LEMMA SubmitNext ==
    ASSUME Resubmits = {}, TypeInv, TypeInv', SubmitInv, [Next]_vars
    PROVE  SubmitInv'
<1>1. ASSUME NEW w \in Workers, ResultStep(w)
      PROVE  SubmitInv'
  BY <1>1, CompleteSubmit, FailSubmit, SkipSubmit DEF ResultStep
<1>2. CASE DaemonStep
  BY <1>2, MonitorSubmit, RecoverySubmit DEF DaemonStep
<1>3. ASSUME NEW w \in Workers, WorkerCrash(w) \/ StreamBreak(w)
      PROVE  SubmitInv'
  BY ZenonT(30), <1>3, SubmitStutter DEF WorkerCrash, StreamBreak, dbVars, memVars
<1>4. CASE EnvStep
  BY <1>3, <1>4, CrashSubmit, StoreErrorSubmit DEF EnvStep
<1>5. CASE UNCHANGED vars
  BY <1>5, SubmitStutter DEF vars, dbVars, memVars
<1> QED
  BY <1>1, <1>2, <1>4, <1>5, ReceiveSubmit, DeadWorkerSubmit, SubmitCallSubmit, SubmitStepSubmit,
     CancelSubmit DEF Next

\* Every id a result may still arrive under is one a worker was given.
LEMMA UnassignedHasNoClaim ==
    ASSUME TypeInv, SubmitInv
    PROVE  ZombieCannotComplete
<1> SUFFICES ASSUME NEW t \in Tasks, taskState[t] \in {"PENDING", "QUEUED"} PROVE execID[t] \notin Claims(t)
  BY DEF ZombieCannotComplete
<1>1. execID[t] = Nil
  BY DEF SubmitInv, WaitingIsUnassigned
<1>2. \A h \in held : h[3] \in Execs
  BY ZenonT(30) DEF TypeInv, TypeOK
<1>3. \A y \in Workers : thr[y].pc = "ctTx" => thr[y].eid \in Execs
  BY ZenonT(30), LocalsType, ThreadsType DEF LocalsFit, ResultPCs
<1>4. Nil \notin Execs
  BY StoreAssumption
<1> QED
  BY <1>1, <1>2, <1>3, <1>4 DEF Claims

\* When no workflow id is submitted twice, no execution that is still out can
\* complete a task that waits or waits again: under any crash, store error,
\* stream break and any overlap of results and dead-worker verdicts, the
\* execution-id check in CompleteTask rejects it.
THEOREM LateResultsRejected == ASSUME Resubmits = {} PROVE Spec => []ZombieCannotComplete
<1>1. Init => TypeInv /\ SubmitInv
  BY TypeInit, SubmitInit
<1>2. TypeInv /\ SubmitInv /\ [Next]_vars => (TypeInv /\ SubmitInv)'
  <2> SUFFICES ASSUME TypeInv, SubmitInv, [Next]_vars PROVE TypeInv' /\ SubmitInv'
    OBVIOUS
  <2>1. TypeInv'
    BY TypeNext
  <2> QED
    BY <2>1, SubmitNext
<1>3. TypeInv /\ SubmitInv => ZombieCannotComplete
  BY UnassignedHasNoClaim
<1> QED
  BY <1>1, <1>2, <1>3, PTL DEF Spec
=============================================================================
