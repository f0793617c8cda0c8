---------------------------- MODULE SafetyProofs ----------------------------
(***************************************************************************)
(* Crashes, recovery and failed transactions keep TokenInv, a final status *)
(* reply stays true (ViewInv), and the safety theorems that rest on the    *)
(* invariants: TypeInv and SubmitInv hold for every schedule, the others when*)
(* no worker is declared dead between two steps of one of its results.     *)
(***************************************************************************)
EXTENDS SubmitProofs, TokenProofs, LifecycleProofs, ReachProofs, StatusReader

\* The provers tried at a leaf that names none, in this order.
USE SMTT(30), ZenonT(20), SMTT(40)

-----------------------------------------------------------------------------
(* Crashes, restarts and failed transactions. *)
\* A crash empties every place; the records stay.
LEMMA CrashToken ==
    ASSUME TypeInv, TypeInv', TokenInv, Crash
    PROVE  TokenKept
<1>1. \A x \in Threads : thr'[x] = Idle
  BY DEF Crash
<1>2. UNCHANGED <<taskState, execID, inDegree>> /\ readyQueue' = <<>> /\ held' = {}
  BY DEF Crash, dbVars
<1>3. \A t \in Tasks : runningTasks'[t] = Nil /\ assignedTasks'[t] = Nil
  BY DEF Crash
<1>4. \A x \in Threads, t \in Tasks : ~Keeps(thr'[x], t)
  BY ZenonT(30), <1>1, IdleFree, FreeKeepsNone, KeepsParts
<1>5. \A t \in Tasks : ~InQueue(t)'
  BY <1>2 DEF InQueue
<1>6. \A t \in Tasks : Moves(t) /\ TokenOK(t)' /\ Enters(t)
  <2> TAKE t \in Tasks
  <2>1. TokenOK(t)' /\ Enters(t)
    BY ZenonT(30), <1>3, <1>4, <1>5, ClearFits
  <2> QED
    BY ZenonT(30), <1>2, <2>1 DEF Moves
<1>7. \A x \in Threads : WalkFit(thr'[x], taskState)
  BY <1>1 DEF WalkFit, Idle
<1>8. QueueDistinct'
  BY <1>2 DEF QueueDistinct
<1>9. MapsOK'
  BY ZenonT(30), <1>2, <1>3 DEF MapsOK
<1>10. InDegreeExact'
  BY <1>2, InDegreeStays DEF TokenInv
<1> QED
  BY ZenonT(30), <1>6, <1>7, <1>8, <1>9, <1>10, TokenStep

\* LoadStateFromDB: the records alone say which place each task goes back to.
LEMMA LoadToken ==
    ASSUME TypeInv, TypeInv', TokenInv, LoadStateFromDB
    PROVE  TokenKept
<1>1. PICK todo : todo = Interrupted
  BY ZenonT(30)
<1> DEFINE r == [Idle EXCEPT !.pc = "rcRequeue", !.todo = todo]
<1>2. /\ Becomes(Daemon, r) /\ ~up /\ readyQueue' \in Orders(QueuedOnDisk)
      /\ UNCHANGED <<taskState, execID, inDegree, runningTasks, assignedTasks, held, up>>
  BY <1>1 DEF LoadStateFromDB, dbVars, envVars
<1>3. r.pc = "rcRequeue" /\ r.todo = todo
  BY ZenonT(30) DEF Idle
<1> HIDE DEF r
<1>4. Daemon \in Threads
  BY ThreadsType
<1>5. thr'[Daemon] = r /\ \A x \in Threads : x # Daemon => thr'[x] = thr[x]
  BY ZenonT(30), <1>2, <1>4 DEF Becomes, TypeInv, TypeOK
<1>6. \A x \in Threads, t \in Tasks : x # Daemon => ~Keeps(thr'[x], t)
  <2>1. \A x \in Threads : x # Daemon => thr[x].pc = "idle"
    BY <1>2 DEF TypeInv, LocalsOK
  <2> QED
    BY <1>5, <2>1 DEF Keeps, ResultPCs
<1>7. \A t \in Tasks : runningTasks'[t] = Nil /\ assignedTasks'[t] = Nil
  <2>1. \A t \in Tasks : runningTasks[t] = Nil
    BY <1>2 DEF TokenInv, MapsOK
  <2>2. \A t \in Tasks : assignedTasks[t] = Nil
    BY ZenonT(30), <2>1 DEF TokenInv, TokenOK, TokenFit
  <2> QED
    BY <1>2, <2>1, <2>2
<1>8. QueueDistinct' /\ \A t \in Tasks : InQueue(t)' => taskState[t] = "QUEUED"
  <2>1. IsFiniteSet(QueuedOnDisk) /\ \A u \in QueuedOnDisk : taskState[u] = "QUEUED"
    BY StoreAssumption, FS_Subset DEF QueuedOnDisk, InState
  <2>2. /\ readyQueue' \in Seq(QueuedOnDisk)
        /\ \A i, j \in DOMAIN readyQueue' : readyQueue'[i] = readyQueue'[j] => i = j
    BY <1>2, <2>1, OrdersProperties
  <2>3. \A i \in DOMAIN readyQueue' : readyQueue'[i] \in QueuedOnDisk
    BY <2>2
  <2> QED
    BY <2>1, <2>2, <2>3 DEF InQueue, QueueDistinct
<1>9. \A t \in Tasks : /\ ~Holds(r, t) /\ ~Frees(r, t) /\ ~Appends(r, t)
                       /\ Lists(r, t) => taskState[t] = "RUNNING"
  BY <1>1, <1>3 DEF Holds, Frees, Appends, Lists, ResultPCs, Interrupted, InState
<1>10. ASSUME NEW t \in Tasks PROVE Moves(t) /\ TokenOK(t)' /\ Enters(t)
  <2>1. CASE InQueue(t)'
    <3>1. taskState[t] = "QUEUED"
      BY <1>8, <2>1
    <3>2. \A x \in Threads : ~Keeps(thr'[x], t)
      <4>1. ~Keeps(r, t)
        BY <1>9, <3>1, KeepsParts
      <4> QED
        BY ZenonT(30), <1>5, <1>6, <4>1
    <3>3. TokenFit(t, taskState[t], execID[t], Nil, Nil, readyQueue', thr')
      BY ZenonT(30), <3>1, <3>2, QueueFit
    <3> QED
      BY <1>2, <1>7, <3>1, <3>3 DEF TokenOK, Moves, Enters, Placed
  <2>2. CASE ~InQueue(t)' /\ Lists(r, t)
    <3>1. taskState[t] = "RUNNING"
      BY <1>9, <2>2
    <3>2. TokenFit(t, taskState[t], execID[t], Nil, Nil, readyQueue', thr')
      <4>1. ~Listed(readyQueue', t)
        BY <2>2 DEF InQueue, Listed
      <4> QED
        BY ZenonT(30), <1>5, <1>6, <1>9, <3>1, <4>1, ListFit
    <3> QED
      BY <1>2, <1>7, <3>1, <3>2 DEF TokenOK, Moves, Enters, Placed
  <2>3. CASE ~InQueue(t)' /\ ~Lists(r, t)
    <3>1. \A x \in Threads : ~Keeps(thr'[x], t)
      BY ZenonT(30), <1>5, <1>6, <1>9, <2>3, KeepsParts
    <3>2. TokenOK(t)' /\ Enters(t)
      BY ZenonT(30), <1>7, <2>3, <3>1, ClearFits
    <3> QED
      BY ZenonT(30), <1>2, <3>2 DEF Moves
  <2> QED
    BY ZenonT(30), <2>1, <2>2, <2>3
<1>11. \A x \in Threads : WalkFit(thr'[x], taskState)
  <2>1. WalkFit(r, taskState)
    BY <1>3 DEF WalkFit
  <2> QED
    BY ZenonT(30), <1>5, <2>1 DEF TokenInv
<1>12. MapsOK' /\ InDegreeExact'
  BY ZenonT(30), <1>2, MapsStay, InDegreeStays DEF TokenInv
<1> QED
  BY ZenonT(30), <1>8, <1>10, <1>11, <1>12, TokenStep

LEMMA RecoveryToken ==
    ASSUME TypeInv, TypeInv', TokenInv, PrepareRecovery \/ Start
    PROVE  TokenKept
<1>0. Daemon \in Threads /\ thr[Daemon] \in ThreadState /\ StoreTypeOK
  BY ThreadsType, LocalsType
<1>1. CASE PrepareRecovery
  <2>1. PICK t \in thr[Daemon].todo :
          /\ TxRequeueTask(t)
          /\ readyQueue' = Append(readyQueue, t)
          /\ Becomes(Daemon, [thr[Daemon] EXCEPT !.todo = @ \ {t}])
    BY ZenonT(30), <1>1 DEF PrepareRecovery
  <2>2. PICK rest : rest = thr[Daemon].todo \ {t}
    BY ZenonT(30)
  <2> DEFINE r == [thr[Daemon] EXCEPT !.todo = rest]
  <2>3. thr[Daemon].pc = "rcRequeue" /\ t \in Tasks /\ Lists(thr[Daemon], t)
    BY ZenonT(30), <1>0, <1>1, <2>1 DEF PrepareRecovery, ThreadState, Lists
  <2>4. Becomes(Daemon, r) /\ UNCHANGED <<inDegree, runningTasks, assignedTasks, held, up>>
    BY ZenonT(30), <1>1, <2>1, <2>2 DEF PrepareRecovery, TxRequeueTask, envVars
  <2>5. r.pc = "rcRequeue" /\ r.todo = rest
    BY ZenonT(30), <1>0, <2>3 DEF ThreadState
  <2> HIDE DEF r
  <2>6. /\ taskState'[t] = "QUEUED"
        /\ \A u \in Tasks : u # t => taskState'[u] = taskState[u] /\ execID'[u] = execID[u]
    BY <1>0, <2>1, <2>3 DEF TxRequeueTask, StoreTypeOK
  <2>7. /\ ~InQueue(t) /\ runningTasks[t] = Nil /\ assignedTasks[t] = Nil /\ Placed(t)
        /\ \A x \in Threads : x # Daemon => ~Keeps(thr[x], t)
        /\ taskState[t] \in {"RUNNING", "SKIPPED"}
    BY ZenonT(30), <2>3, ListedTask
  <2>8. ~Keeps(r, t)
    BY <2>2, <2>5 DEF Keeps, ResultPCs
  <2>9. \A u \in Tasks : u # t => NoMore(thr[Daemon], r, u)
    BY <2>2, <2>3, <2>5 DEF NoMore, Holds, Frees, Lists, Appends, ResultPCs
  <2>10. /\ Moves(t) /\ Enters(t) /\ taskState'[t] \in {"QUEUED", "SKIPPED"}
         /\ taskState'[t] # taskState[t] => taskState[t] # "COMPLETE"
    BY <2>6, <2>7 DEF Moves, Enters
  <2>11. WalkFit(r, taskState) /\ (up => up') /\ UNCHANGED <<inDegree, runningTasks, assignedTasks, held>>
    BY <2>4, <2>5 DEF WalkFit
  <2> QED
    BY ZenonT(30), <1>0, <2>1, <2>3, <2>4, <2>6, <2>7, <2>8, <2>9, <2>10, <2>11, EnqueueToken
<1>2. CASE Start
  <2>1. /\ Becomes(Daemon, Idle)
        /\ UNCHANGED <<taskState, execID, inDegree, readyQueue, runningTasks, assignedTasks, held>> /\ (up => up')
        /\ thr[Daemon].pc \notin ResultPCs
    BY <1>2 DEF Start, Return, dbVars, envVars, ResultPCs
  <2> QED
    BY ZenonT(30), <1>0, <2>1, IdleFree, FreeStep
<1> QED
  BY <1>1, <1>2

\* A failed transaction leaves the records alone: a task whose result could not
\* be stored is still on its worker.
LEMMA StoreErrorToken ==
    ASSUME TypeInv, TypeInv', TokenInv, NEW x \in Threads, StoreError(x)
    PROVE  TokenKept
<1>1. thr[x] \in ThreadState /\ LocalsFit(x, thr[x])
  BY LocalsType
<1>2. UNCHANGED <<taskState, execID, inDegree, readyQueue, runningTasks, assignedTasks, held, up>>
  BY ZenonT(30) DEF StoreError, dbVars, envVars
<1>3. /\ \A t \in Tasks : InQueue(t)' => InQueue(t)
      /\ \A t \in Tasks : taskState'[t] = taskState[t]
      /\ QueueDistinct' /\ MapsOK' /\ InDegreeExact'
  BY <1>2, MapsStay, InDegreeStays DEF InQueue, TokenInv, QueueDistinct
<1>4. CASE thr[x].pc \in {"ctTx", "ftRequeue", "ftFail"} /\ Becomes(x, Idle)
  <2>1. PICK t : t = thr[x].task
    BY ZenonT(30)
  <2>2. thr[x].pc \in ResultPCs /\ thr[x].pc \in BeforeTx /\ x \in Workers /\ x # Nil
    BY <1>1, <1>4, StoreAssumption DEF LocalsFit, ResultPCs, BeforeTx
  <2>3. /\ t \in Tasks /\ runningTasks[t] = x /\ assignedTasks[t] = thr[x].eid /\ thr[x].eid # Nil
        /\ execID[t] = thr[x].eid /\ ~InQueue(t) /\ taskState[t] \in StatesAt(thr[x].pc)
        /\ Placed(t) /\ \A y \in Threads : y # x => ~Keeps(thr[y], t)
    BY ZenonT(30), <2>1, <2>2, HeldTask
  <2>4. PICK e : e = thr[x].eid
    BY ZenonT(30)
  <2>5. \A y \in Threads : ~Keeps(thr'[y], t)
    <3>1. thr'[x] = Idle /\ \A y \in Threads : y # x => thr'[y] = thr[y]
      BY ZenonT(30), <1>4 DEF Becomes, TypeInv, TypeOK
    <3>2. ~Keeps(Idle, t)
      BY ZenonT(30), IdleFree, FreeKeepsNone, KeepsParts
    <3> QED
      BY ZenonT(30), <2>3, <3>1, <3>2
  <2>6. TokenFit(t, taskState[t], e, x, e, readyQueue', thr')
    <3>1. taskState[t] \in {"RUNNING", "SKIPPED"}
      BY ZenonT(30), <2>2, <2>3 DEF StatesAt
    <3>2. ~Listed(readyQueue', t)
      BY ZenonT(30), <1>2, <2>3 DEF InQueue, Listed
    <3> QED
      BY ZenonT(30), <2>2, <2>3, <2>4, <2>5, <3>1, <3>2, RunFit
  <2>7. TokenOK(t)' /\ Moves(t) /\ Enters(t)
    BY ZenonT(30), <1>2, <2>3, <2>4, <2>6 DEF TokenOK, Moves, Enters
  <2>8. \A u \in Tasks : u # t => NoMore(thr[x], Idle, u)
    BY ZenonT(30), <2>1, <2>2, IdleFree, HoldNoMore
  <2>9. \A u \in Tasks : u # t => Same(u)
    BY ZenonT(30), <1>2, <1>3, SameData
  <2>10. WalkFit(Idle, taskState)
    BY ZenonT(30) DEF WalkFit, Idle
  <2> QED
    BY ZenonT(30), <1>3, <1>4, <2>3, <2>7, <2>8, <2>9, <2>10, TaskStep
<1>5. CASE thr[x].pc \notin ResultPCs /\ Becomes(x, Idle)
  BY ZenonT(30), <1>2, <1>5, IdleFree, FreeStep
<1>6. CASE thr[x].pc = "skipWrite" /\ Goto(x, "skip")
  <2> DEFINE r == [thr[x] EXCEPT !.pc = "skip"]
  <2>1. r.pc = "skip" /\ r.seen = thr[x].seen /\ Becomes(x, r)
    BY <1>1, <1>6 DEF ThreadState, Goto
  <2> HIDE DEF r
  <2>2. WalkFit(r, taskState)
    BY ZenonT(30), <1>6, <2>1 DEF TokenInv, WalkFit
  <2>3. \A t \in Tasks : NoMore(thr[x], r, t)
    BY <1>6, <2>1 DEF NoMore, Holds, Frees, Lists, Appends, ResultPCs
  <2> QED
    BY ZenonT(30), <1>2, <1>3, <2>1, <2>2, <2>3, PlainStep
<1>7. CASE /\ thr[x].pc \in {"dwRequeue", "rcRequeue"}
           /\ \E t \in thr[x].todo : Becomes(x, [thr[x] EXCEPT !.todo = @ \ {t}])
  <2>1. PICK t \in thr[x].todo : Becomes(x, [thr[x] EXCEPT !.todo = @ \ {t}])
    BY ZenonT(30), <1>7
  <2>2. PICK rest : rest = thr[x].todo \ {t}
    BY ZenonT(30)
  <2> DEFINE r == [thr[x] EXCEPT !.todo = rest]
  <2>3. Becomes(x, r)
    BY ZenonT(30), <2>1, <2>2
  <2>4. r.pc = thr[x].pc /\ r.todo = rest
    BY <1>1 DEF ThreadState
  <2> HIDE DEF r
  <2>5. \A u \in Tasks : NoMore(thr[x], r, u)
    BY <1>7, <2>2, <2>4 DEF NoMore, Holds, Frees, Lists, Appends, ResultPCs
  <2>6. WalkFit(r, taskState)
    BY <1>7, <2>4 DEF WalkFit
  <2> QED
    BY ZenonT(30), <1>2, <1>3, <2>3, <2>5, <2>6, PlainStep
<1> QED
  <2>1. \/ thr[x].pc \in {"ctTx", "ftRequeue", "ftFail", "cancelTx", "setState", "sbInitWf", "sbInitTasks", "sbQueue"}
           /\ Becomes(x, Idle)
        \/ thr[x].pc = "skipWrite" /\ Goto(x, "skip")
        \/ /\ thr[x].pc \in {"dwRequeue", "rcRequeue"}
           /\ \E t \in thr[x].todo : Becomes(x, [thr[x] EXCEPT !.todo = @ \ {t}])
    BY ZenonT(30) DEF StoreError, At, Return
  <2>2. thr[x].pc \in {"cancelTx", "setState", "sbInitWf", "sbInitTasks", "sbQueue"} => thr[x].pc \notin ResultPCs
    BY DEF ResultPCs
  <2> QED
    BY ZenonT(30), <1>4, <1>5, <1>6, <1>7, <2>1, <2>2

LEMMA TokenInit == Init => TokenInv
<1> SUFFICES ASSUME Init PROVE TokenInv
  OBVIOUS
<1>1. /\ \A t \in Tasks : taskState[t] = "ABSENT" /\ execID[t] = Nil
      /\ \A t \in Tasks : runningTasks[t] = Nil /\ assignedTasks[t] = Nil
      /\ \A x \in Threads : thr[x] = Idle
      /\ readyQueue = <<>> /\ held = {}
  BY ZenonT(30) DEF Init, StoreInit
<1>2. (\A t \in Tasks : ~InQueue(t)) /\ QueueDistinct
  <2>1. DOMAIN readyQueue = {}
    BY <1>1
  <2> QED
    BY ZenonT(30), <2>1 DEF InQueue, QueueDistinct
<1>3. \A x \in Threads, t \in Tasks : ~Keeps(thr[x], t)
  BY ZenonT(30), <1>1, IdleFree, FreeKeepsNone, KeepsParts
<1>4. \A t \in Tasks : TokenOK(t)
  <2> TAKE t \in Tasks
  <2>1. TokenFit(t, taskState[t], execID[t], Nil, Nil, readyQueue, thr)
    BY ZenonT(30), <1>2, <1>3, ClearFit DEF InQueue, Listed
  <2> QED
    BY ZenonT(30), <1>1, <2>1 DEF TokenOK
<1>5. PlacedIsReady
  <2>1. \A t \in Tasks : ~Touched(t)
    BY ZenonT(30), <1>1, <1>2, <1>3, TouchedKept, TypeInit
  <2> QED
    BY <1>1, <2>1 DEF PlacedIsReady, Placed
<1>6. MapsOK
  BY ZenonT(30), <1>1 DEF MapsOK
<1>7. InDegreeExact
  BY <1>1 DEF InDegreeExact
<1>8. \A x \in Threads : WalkFit(thr[x], taskState)
  BY <1>1 DEF WalkFit, Idle
<1> QED
  BY ZenonT(30), <1>2, <1>4, <1>5, <1>6, <1>7, <1>8 DEF TokenInv

LEMMA TokenNext ==
    ASSUME Overlap = FALSE, TypeInv, TypeInv', SubmitInv, TokenInv, [Next]_vars
    PROVE  TokenKept
<1>1. ASSUME NEW w \in Workers, Receive(w)
      PROVE  TokenKept
  <2>1. CASE Heartbeat(w)
    BY <2>1, TokenStutter DEF Heartbeat, memVars, envVars, dbVars
  <2>2. ASSUME NEW t \in Tasks, CompleteTask(w, t) \/ FailTask(w, t)
        PROVE  TokenKept
    BY ZenonT(30), <2>2, ResultToken DEF CompleteTask, FailTask
  <2> QED
    BY <1>1, <2>1, <2>2, GetReadyToken DEF Receive
<1>2. ASSUME NEW w \in Workers, ResultStep(w)
      PROVE  TokenKept
  BY ZenonT(30), <1>2, CompleteTxToken, CompleteCleanToken, CheckToken, FailHoldToken, FailLeaveToken, SkipToken
     DEF ResultStep
<1>3. ASSUME NEW c \in Clients, SubmitStep(c)
      PROVE  TokenKept
  BY ZenonT(30), <1>3, CallToken, InitTasksToken, SubmitQueueToken DEF SubmitStep
<1>4. CASE DaemonStep
  BY ZenonT(30), <1>4, MonitorToken, LoadToken, RecoveryToken DEF DaemonStep
<1>5. ASSUME NEW w \in Workers, WorkerCrash(w) \/ StreamBreak(w)
      PROVE  TokenKept
  BY <1>5, TokenStutter DEF WorkerCrash, StreamBreak, Drop, memVars
<1>6. CASE EnvStep
  BY ZenonT(30), <1>5, <1>6, CrashToken, StoreErrorToken DEF EnvStep
<1>7. CASE UNCHANGED vars
  BY ZenonT(30), <1>7, TokenStutter DEF vars, memVars, envVars
<1> QED
  BY ZenonT(30), <1>1, <1>2, <1>3, <1>4, <1>6, <1>7, DeadWorkerToken, CallToken, CancelToken DEF Next

-----------------------------------------------------------------------------
(* Replies of GetWorkflowStatus. *)

\* What a call of GetWorkflowStatus has read, or the final reply it returned,
\* says of a workflow that nothing cancels.
ViewInv ==
    /\ view.pc \in {"idle", "read", "shown"}
    /\ Plain(Followed) =>
        /\ view.pc = "read" /\ isTerminalState(view.state) => Done(Followed) /\ view.state = FinalState(Followed)
        /\ view.pc = "shown" => /\ Done(Followed) /\ view.state = FinalState(Followed)
                                /\ view.counts = Counts(GetTaskStatuses)

\* In a workflow whose tasks are all terminal the counts add up.
LEMMA CountsAddUp ==
    ASSUME Done(Followed)
    PROVE  LET c == Counts(GetTaskStatuses)
           IN  /\ c.task = Cardinality(TasksOf(Followed))
               /\ c.done + c.failed = c.task
               /\ (FinalState(Followed) = "FAILED") <=> (c.failed > 0)
<1> DEFINE T == TasksOf(Followed)
           D == {t \in T : taskState[t] \in {"COMPLETE", "SKIPPED"}}
           F == {t \in T : taskState[t] \in {"FAILED"}}
<1>1. Recorded(Followed) = T
  BY DEF Done, Recorded, Terminal
<1>2. /\ DOMAIN GetTaskStatuses = T
      /\ \A t \in T : GetTaskStatuses[t] = taskState[t]
  BY <1>1 DEF GetTaskStatuses
<1>3. Counts(GetTaskStatuses) = [task |-> Cardinality(T), done |-> Cardinality(D), failed |-> Cardinality(F)]
  <2>1. D = {t \in DOMAIN GetTaskStatuses : GetTaskStatuses[t] \in {"COMPLETE", "SKIPPED"}}
    BY <1>2
  <2>2. F = {t \in DOMAIN GetTaskStatuses : GetTaskStatuses[t] \in {"FAILED"}}
    BY <1>2
  <2> QED
    BY ZenonT(30), <1>2, <2>1, <2>2 DEF Counts
<1>4. IsFiniteSet(T) /\ IsFiniteSet(D) /\ IsFiniteSet(F)
  <2>1. IsFiniteSet(Tasks) /\ T \in SUBSET Tasks
    BY StoreAssumption DEF TasksOf
  <2>2. IsFiniteSet(T)
    BY <2>1, FS_Subset
  <2> QED
    BY <2>2, FS_Subset
<1>5. Cardinality(D) \in Nat /\ Cardinality(F) \in Nat
  BY <1>4, FS_CardinalityType
<1>6. Cardinality(T) = Cardinality(D) + Cardinality(F)
  <2>1. D \cup F = T /\ D \cap F = {}
    BY DEF Done, Terminal
  <2>2. Cardinality(T) = Cardinality(D) + Cardinality(F) - Cardinality(D \cap F)
    BY ZenonT(30), <1>4, <2>1, FS_Union
  <2>3. Cardinality(D \cap F) = 0
    BY ZenonT(30), <2>1, FS_EmptySet
  <2> QED
    BY <1>5, <2>2, <2>3
<1>7. (FinalState(Followed) = "FAILED") <=> (F # {})
  BY <1>1 DEF FinalState
<1>8. F # {} <=> Cardinality(F) # 0
  BY ZenonT(30), <1>4, FS_EmptySet
<1> QED
  BY <1>3, <1>5, <1>6, <1>7, <1>8

LEMMA ViewFollows == ViewInv => FinalReplyStands
<1> SUFFICES ASSUME ViewInv, view.pc = "shown", Plain(Followed)
             PROVE  /\ view.counts = Counts(GetTaskStatuses)
                    /\ view.counts.task = Cardinality(TasksOf(Followed))
                    /\ view.counts.done + view.counts.failed = view.counts.task
                    /\ (view.state = "FAILED") <=> (view.counts.failed > 0)
  BY ZenonT(30) DEF FinalReplyStands, Plain
<1>1. Done(Followed) /\ view.state = FinalState(Followed) /\ view.counts = Counts(GetTaskStatuses)
  BY ZenonT(30) DEF ViewInv
<1> QED
  BY ZenonT(30), <1>1, CountsAddUp

\* Once all tasks are terminal the records a call reads do not change.
LEMMA StatusesStay ==
    ASSUME Stepped, VerdictInv, Plain(Followed), Done(Followed)
    PROVE  /\ Done(Followed)' /\ FinalState(Followed)' = FinalState(Followed)
           /\ GetTaskStatuses' = GetTaskStatuses
<1>1. \A t \in TasksOf(Followed) : taskState'[t] = taskState[t]
  BY ZenonT(30), TerminalStays DEF Done, TasksOf
<1>2. Recorded(Followed)' = Recorded(Followed)
  BY ZenonT(30), <1>1 DEF Recorded, TasksOf
<1>3. \A t \in Recorded(Followed) : t \in TasksOf(Followed)
  BY ZenonT(30) DEF Recorded
<1> QED
  BY ZenonT(30), <1>1, <1>2, <1>3, PlainStays DEF GetTaskStatuses

\* A step of the coordinator, or of the call.
LEMMA ViewNext ==
    ASSUME Stepped, VerdictInv, ViewInv, StatusNext \/ UNCHANGED <<vars, view>>
    PROVE  ViewInv'
<1>1. CASE UNCHANGED view
  <2>1. view' = view
    BY <1>1
  <2>2. CASE Done(Followed) /\ Plain(Followed)
    <3>1. GetTaskStatuses' = GetTaskStatuses /\ Done(Followed)' /\ FinalState(Followed)' = FinalState(Followed)
      BY <2>2, StatusesStay
    <3>2. Counts(GetTaskStatuses)' = Counts(GetTaskStatuses)
      BY ZenonT(30), <3>1 DEF Counts
    <3> QED
      BY ZenonT(30), <2>1, <3>1, <3>2 DEF ViewInv, Plain, isTerminalState
  <2>3. CASE ~(Done(Followed) /\ Plain(Followed))
    BY ZenonT(30), <2>1, <2>3 DEF ViewInv, Plain, isTerminalState
  <2> QED
    BY ZenonT(30), <2>2, <2>3
<1>2. CASE view.pc = "read" /\ view' = NoCall
  BY <1>2 DEF ViewInv, NoCall
<1>3. CASE StatusStep
  <2>0. UNCHANGED <<taskState, wfState>>
    BY <1>3 DEF StatusStep, vars, dbVars
  <2>1. CASE view' = [pc |-> "read", state |-> GetWorkflowState] /\ GetWorkflowState # "ABSENT"
    <3>1. view'.pc = "read" /\ view'.state = wfState[Followed] /\ wfState[Followed] # "ABSENT"
      BY <2>1 DEF GetWorkflowState
    <3>2. ASSUME Plain(Followed), isTerminalState(view'.state)
          PROVE  Done(Followed)' /\ view'.state = FinalState(Followed)'
      <4>1. wfState[Followed] \notin {"ABSENT", "RUNNING"}
        BY <3>1, <3>2 DEF isTerminalState
      <4>2. Done(Followed) /\ wfState[Followed] = FinalState(Followed)
        BY ZenonT(30), <3>2, <4>1, FollowedAssumption DEF VerdictInv
      <4>3. Done(Followed)' /\ FinalState(Followed)' = FinalState(Followed)
        BY ZenonT(30), <3>2, <4>2, StatusesStay
      <4> QED
        BY <3>1, <4>2, <4>3
    <3> QED
      BY ZenonT(30), <3>1, <3>2 DEF ViewInv, Plain, isTerminalState
  <2>2. CASE view.pc = "read" /\ Replied(view.state, GetTaskStatuses)
    <3>1. CASE isTerminalState(view.state)
      <4>1. /\ view'.pc = "shown" /\ view'.state = view.state
            /\ view'.counts = Counts(GetTaskStatuses)
        BY ZenonT(30), <2>2, <3>1 DEF Replied
      <4>2. ASSUME Plain(Followed)
            PROVE  /\ Done(Followed)' /\ view'.state = FinalState(Followed)'
                   /\ view'.counts = Counts(GetTaskStatuses)'
        <5>1. Done(Followed) /\ view.state = FinalState(Followed)
          BY ZenonT(30), <2>2, <3>1, <4>2 DEF ViewInv
        <5>2. GetTaskStatuses' = GetTaskStatuses /\ Done(Followed)' /\ FinalState(Followed)' = FinalState(Followed)
          BY <4>2, <5>1, StatusesStay
        <5>3. Counts(GetTaskStatuses)' = Counts(GetTaskStatuses)
          BY <5>2 DEF Counts
        <5> QED
          BY ZenonT(30), <4>1, <5>1, <5>2, <5>3
      <4> QED
        BY ZenonT(30), <4>1, <4>2 DEF ViewInv, Plain
    <3>2. CASE ~isTerminalState(view.state)
      <4>1. view' = NoCall
        BY ZenonT(30), <2>2, <3>2 DEF Replied
      <4> QED
        BY <1>2, <2>2, <4>1
    <3> QED
      BY <3>1, <3>2
  <2> QED
    BY ZenonT(30), <1>3, <2>1, <2>2 DEF StatusStep, GetWorkflowStatus
<1> QED
  BY ZenonT(30), <1>1, <1>2, <1>3 DEF StatusNext, CoordinatorStep, CallLost

LEMMA ViewInit == StatusInit => ViewInv
BY DEF StatusInit, ViewInv, NoCall

-----------------------------------------------------------------------------
\* The three invariants together.
Inductive == TypeInv /\ SubmitInv /\ TokenInv

LEMMA InductiveStep ==
    ASSUME Overlap = FALSE, Resubmits = {}, Inductive, [Next]_vars
    PROVE  Inductive' /\ \A t \in Tasks : Moves(t)
<1>1. TypeInv'
  BY TypeNext DEF Inductive
<1>2. SubmitInv'
  BY <1>1, SubmitNext DEF Inductive
<1>3. TokenKept
  BY ZenonT(30), <1>1, TokenNext DEF Inductive
<1> QED
  BY <1>1, <1>2, <1>3 DEF Inductive, TokenKept

LEMMA InductiveHolds == ASSUME Overlap = FALSE, Resubmits = {} PROVE Spec => []Inductive
<1>1. Init => Inductive
  BY TypeInit, SubmitInit, TokenInit DEF Inductive
<1>2. Inductive /\ [Next]_vars => Inductive'
  BY ZenonT(30), InductiveStep
<1> QED
  BY <1>1, <1>2, PTL DEF Spec

\* A task is queued, runs or has a result only after everything it depends on
\* is COMPLETE, whatever the interleaving of handlers, retries, dead workers,
\* failed transactions and restarts.
THEOREM DependenciesComeFirst ==
    ASSUME Overlap = FALSE, Resubmits = {} PROVE Spec => []DependenciesFirst
<1>1. Inductive => DependenciesFirst
  BY ZenonT(30) DEF Inductive, TokenInv, PlacedIsReady, Placed, DependenciesFirst
<1> QED
  BY <1>1, InductiveHolds, PTL

\* CompleteTask's bookkeeping is right: the stored in-degree of a task that
\* waits is the number of its dependencies that are not COMPLETE.
THEOREM InDegreesCount == ASSUME Overlap = FALSE, Resubmits = {} PROVE Spec => []InDegreeExact
<1>1. Inductive => InDegreeExact
  BY DEF Inductive, TokenInv
<1> QED
  BY <1>1, InductiveHolds, PTL

\* readyQueue has no duplicates and no task that is running or has a result, so
\* GetReadyTask never starts one a second time.
THEOREM QueueIsSound == ASSUME Overlap = FALSE, Resubmits = {} PROVE Spec => []QueueSound
<1>1. Inductive => QueueSound
  <2> SUFFICES ASSUME Inductive PROVE QueueSound
    BY ZenonT(30)
  <2>1. QueueDistinct /\ TypeInv /\ \A t \in Tasks : TokenOK(t)
    BY DEF Inductive, TokenInv
  <2>2. \A i \in DOMAIN readyQueue : readyQueue[i] \in Tasks
    BY ZenonT(30), <2>1, QueueType
  <2>3. \A t \in Tasks : InQueue(t) => taskState[t] \in {"QUEUED", "SKIPPED"}
    BY ZenonT(30), <2>1, PlaceStates
  <2> QED
    BY ZenonT(30), <2>1, <2>2, <2>3 DEF QueueSound, QueueDistinct, InQueue
<1> QED
  BY <1>1, InductiveHolds, PTL

\* assignedTasks and the store name the same execution of a task, except while
\* a result of it is being processed: the check in memory and the check in the
\* transaction accept and reject the same results.
THEOREM ChecksAgree == ASSUME Overlap = FALSE, Resubmits = {} PROVE Spec => []AssignmentsAgree
<1>1. Inductive => AssignmentsAgree
  <2> SUFFICES ASSUME Inductive, NEW t \in Tasks, assignedTasks[t] # Nil, ~\E p \in ResultPCs : Busy(t, p)
               PROVE  assignedTasks[t] = execID[t]
    BY ZenonT(30) DEF AssignmentsAgree
  <2>1. TypeInv /\ TokenOK(t)
    BY ZenonT(30) DEF Inductive, TokenInv
  <2>2. \A x \in Threads : ~Holds(thr[x], t)
    BY ZenonT(30) DEF Busy, Holds
  <2>3. runningTasks[t] # Nil
    BY ZenonT(30), <2>1 DEF TokenOK, TokenFit
  <2> QED
    BY ZenonT(30), <2>1, <2>2, <2>3, PlaceStates
<1> QED
  BY <1>1, InductiveHolds, PTL

\* No step of a retry, a dead worker's requeue, a cancellation, a skip or a
\* restart takes a task out of COMPLETE or FAILED.
THEOREM ResultsStay == ASSUME Overlap = FALSE, Resubmits = {} PROVE Spec => ResultsAreFinal
<1> DEFINE Final == \A t \in Tasks : taskState[t] \in {"COMPLETE", "FAILED"} => taskState'[t] = taskState[t]
<1>1. Inductive /\ [Next]_vars => [Final]_vars
  <2> SUFFICES ASSUME Inductive, [Next]_vars PROVE Final
    BY ZenonT(30)
  <2> QED
    BY ZenonT(30), InductiveStep DEF Moves
<1> QED
  BY <1>1, InductiveHolds, PTL DEF Spec, ResultsAreFinal

-----------------------------------------------------------------------------
(* Workflows. *)

LEMMA SteppedHolds ==
    ASSUME Overlap = FALSE, Resubmits = {}, Inductive, [Next]_vars
    PROVE  Stepped
BY ZenonT(30), InductiveStep DEF Inductive, Stepped

LEMMA VerdictHolds == ASSUME Overlap = FALSE, Resubmits = {} PROVE Spec => [](Inductive /\ VerdictInv)
<1>1. Init => VerdictInv
  BY VerdictInit
<1>2. Inductive /\ VerdictInv /\ [Next]_vars => VerdictInv'
  BY ZenonT(30), SteppedHolds, VerdictNext
<1> QED
  BY <1>1, <1>2, InductiveHolds, PTL DEF Spec

\* The state checkWorkflowCompletion settles a workflow in stays what its tasks
\* say, although it reads the records in two transactions and writes the state
\* in a third: under any interleaving of handlers, failed transactions, crashes
\* and restarts, a COMPLETE workflow has only COMPLETE tasks, and a FAILED one
\* only terminal tasks, one of them FAILED.
THEOREM VerdictsStand == ASSUME Overlap = FALSE, Resubmits = {} PROVE Spec => []VerdictStands
<1>1. Inductive /\ VerdictInv => VerdictStands
  BY ZenonT(30), VerdictFollows DEF Inductive
<1> QED
  BY <1>1, VerdictHolds, PTL

\* The final reply of GetWorkflowStatus is true and stays true, although its
\* state and its task records come from two read transactions.
THEOREM FinalRepliesStand == ASSUME Overlap = FALSE, Resubmits = {} PROVE StatusSpec => []FinalReplyStands
<1> DEFINE StatusInv == Inductive /\ VerdictInv /\ ViewInv
<1>1. Init /\ StatusInit => StatusInv
  <2>1. Init => Inductive
    BY TypeInit, SubmitInit, TokenInit DEF Inductive
  <2> QED
    BY <2>1, VerdictInit, ViewInit
<1>2. StatusInv /\ [StatusNext]_<<vars, view>> => StatusInv'
  <2> SUFFICES ASSUME Inductive, VerdictInv, ViewInv, StatusNext \/ UNCHANGED <<vars, view>>
               PROVE  StatusInv'
    BY Zenon
  <2>1. [Next]_vars
    BY ZenonT(30) DEF StatusNext, CoordinatorStep, StatusStep
  <2>2. Stepped /\ Inductive'
    BY ZenonT(30), <2>1, SteppedHolds, InductiveStep
  <2>3. VerdictInv'
    BY ZenonT(30), <2>1, <2>2, VerdictNext
  <2>4. ViewInv'
    BY ZenonT(30), <2>2, ViewNext
  <2> QED
    BY ZenonT(30), <2>2, <2>3, <2>4
<1>3. StatusInv => FinalReplyStands
  BY ViewFollows
<1> HIDE DEF StatusInv
<1> QED
  BY <1>1, <1>2, <1>3, PTL DEF StatusSpec

\* While the coordinator serves, every RUNNING task is where the death of its
\* worker will find it (runningTasks, or the list HandleDeadWorker requeues),
\* also after LoadStateFromDB and RecoverInterruptedTasks, if no transaction
\* fails.
THEOREM RunningTasksAreWatched ==
    ASSUME Overlap = FALSE, Resubmits = {}, StoreFaults = FALSE
    PROVE  Spec => []RunningIsWatched
<1>1. Init => WatchInv
  BY WatchInit
<1>2. Inductive /\ WatchInv /\ [Next]_vars => WatchInv'
  BY ZenonT(30), SteppedHolds, WatchNext
<1>3. Inductive /\ WatchInv => RunningIsWatched
  BY ZenonT(30), WatchFollows DEF Inductive
<1> QED
  BY <1>1, <1>2, <1>3, InductiveHolds, PTL DEF Spec

\* While the coordinator serves, a QUEUED task of a workflow that goes on is in
\* readyQueue or on its way there, if no transaction fails: neither a skip nor
\* a cancellation that filters the queue, nor a restart, loses it.
THEOREM QueuedTasksAreReachable ==
    ASSUME Overlap = FALSE, Resubmits = {}, StoreFaults = FALSE
    PROVE  Spec => []QueuedIsReachable
<1>1. Init => ReachInv
  BY ZenonT(30), ReachInit
<1>2. Inductive /\ ReachInv /\ [Next]_vars => ReachInv'
  BY ZenonT(30), SteppedHolds, ReachNext
<1>3. ReachInv => QueuedIsReachable
  BY ZenonT(30), ReachFollows
<1> QED
  BY <1>1, <1>2, <1>3, InductiveHolds, PTL DEF Spec

\* The interleaved coordinator implements the lifecycle TaskLifecycle promises:
\* every step, crashes, dead workers and restarts included, is one lifecycle
\* step of one task or workflow, or is invisible in the records, if nothing
\* cancels a workflow and no transaction fails.
THEOREM LifecycleImplemented ==
    ASSUME Overlap = FALSE, Resubmits = {}, StoreFaults = FALSE,
           Cancels = {}, \A wf \in Workflows : Policy[wf] # "FAIL_FAST"
    PROVE  Spec => LifecycleRefined
<1>1. Init => Lifecycle!Init /\ LifeInv
  BY ZenonT(30), LifeInit
<1>2. AllPlain
  BY ZenonT(30) DEF AllPlain, Plain
<1>3. Inductive /\ VerdictInv /\ LifeInv /\ [Next]_vars =>
          [Lifecycle!Next]_<<taskState, wfState>> /\ LifeInv'
  <2> SUFFICES ASSUME Inductive, VerdictInv, LifeInv, [Next]_vars
               PROVE  [Lifecycle!Next]_<<taskState, wfState>> /\ LifeInv'
    BY Zenon
  <2>1. Lived
    BY ZenonT(30), <1>2, SteppedHolds DEF Lived
  <2> QED
    BY ZenonT(30), <2>1, LifeNext DEF LifeStep
<1> QED
  BY <1>1, <1>3, VerdictHolds, PTL DEF Spec, LifecycleRefined, Lifecycle!Spec
=============================================================================
