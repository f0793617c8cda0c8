---------------------------- MODULE TokenProofs -----------------------------
(***************************************************************************)
(* What TokenInv says of a task and of a step, and that every step of a    *)
(* handler, a client and the monitor keeps it, when no worker is declared  *)
(* dead between two steps of one of its results.                           *)
(***************************************************************************)
EXTENDS CoordinatorProofs

\* The provers tried at a leaf that names none, in this order.
USE SMTT(30), ZenonT(20), SMTT(40)

\* Record r keeps t in no way that r0 does not, and neither is at a result of t.
NoMore(r0, r, t) ==
    /\ ~Holds(r0, t) /\ ~Holds(r, t)
    /\ Frees(r, t) => Frees(r0, t)
    /\ Lists(r, t) => Lists(r0, t)
    /\ Appends(r, t) => Appends(r0, t)

\* A task that is in a place after the step was unlocked before or is so now.
Enters(t) == Touched(t)' => Placed(t) \/ \A d \in Deps[t] : taskState'[d] = "COMPLETE"

\* What is shown of every step.
TokenKept == TokenInv' /\ \A t \in Tasks : Moves(t)
-----------------------------------------------------------------------------
(* What a task's places allow. *)

LEMMA KeepsParts ==
    ASSUME NEW r, NEW t
    PROVE  Keeps(r, t) <=> Holds(r, t) \/ Frees(r, t) \/ Lists(r, t) \/ Appends(r, t)
BY ZenonT(30) DEF Keeps, Holds, Frees, Lists, Appends

\* A task in no place fits whatever its record says.
LEMMA ClearFit ==
    ASSUME NEW t, NEW s, NEW e, NEW q, NEW T, ~Listed(q, t), \A x \in Threads : ~Keeps(T[x], t)
    PROVE  TokenFit(t, s, e, Nil, Nil, q, T)
<1>1. \A x \in Threads : ~Holds(T[x], t) /\ ~Frees(T[x], t) /\ ~Lists(T[x], t) /\ ~Appends(T[x], t)
  BY ZenonT(30), KeepsParts
<1> QED
  BY ZenonT(30), <1>1, ThreadsType DEF TokenFit

\* The places a task may be in, one at a time: on a worker, in a result, about
\* to be appended once unlocked, in the queue, on a list, requeued.
LEMMA RunFit ==
    ASSUME NEW t, NEW s \in {"RUNNING", "SKIPPED"}, NEW e, e # Nil, NEW w, w # Nil, NEW q, NEW T,
           ~Listed(q, t), \A x \in Threads : ~Keeps(T[x], t)
    PROVE  TokenFit(t, s, e, w, e, q, T)
<1>1. \A x \in Threads : ~Holds(T[x], t) /\ ~Frees(T[x], t) /\ ~Lists(T[x], t) /\ ~Appends(T[x], t)
  BY ZenonT(30), KeepsParts
<1> QED
  BY ZenonT(30), <1>1, ThreadsType DEF TokenFit

LEMMA HoldFit ==
    ASSUME NEW t, NEW s, NEW e, NEW at, at # Nil, NEW w \in Workers, NEW q, NEW T,
           Holds(T[w], t), ~Frees(T[w], t), T[w].eid = at, s \in StatesAt(T[w].pc),
           T[w].pc \in BeforeTx => e = at, ~Listed(q, t), \A x \in Threads : x # w => ~Keeps(T[x], t)
    PROVE  TokenFit(t, s, e, w, at, q, T)
<1>1. \A x \in Threads : /\ Holds(T[x], t) => x = w
                         /\ ~Frees(T[x], t)
                         /\ Lists(T[x], t) \/ Appends(T[x], t) => x = w
  BY ZenonT(30), KeepsParts
<1>2. w # Daemon /\ w # Nil
  BY ZenonT(30), CoordinatorAssumption, StoreAssumption
<1> QED
  BY ZenonT(30), <1>1, <1>2, ThreadsType DEF TokenFit

LEMMA FreesFit ==
    ASSUME NEW t, NEW s \in {"QUEUED", "SKIPPED"}, NEW e, NEW w \in Workers, NEW q, NEW T,
           ~Holds(T[w], t), ~Listed(q, t), \A x \in Threads : x # w => ~Keeps(T[x], t)
    PROVE  TokenFit(t, s, e, Nil, Nil, q, T)
<1>1. \A x \in Threads : /\ ~Holds(T[x], t)
                         /\ Frees(T[x], t) \/ Lists(T[x], t) \/ Appends(T[x], t) => x = w
  BY ZenonT(30), KeepsParts
<1>2. w # Daemon
  BY ZenonT(30), CoordinatorAssumption
<1> QED
  BY ZenonT(30), <1>1, <1>2, ThreadsType DEF TokenFit

LEMMA QueueFit ==
    ASSUME NEW t, NEW s \in {"QUEUED", "SKIPPED"}, NEW e, NEW q, NEW T, \A x \in Threads : ~Keeps(T[x], t)
    PROVE  TokenFit(t, s, e, Nil, Nil, q, T)
<1>1. \A x \in Threads : ~Holds(T[x], t) /\ ~Frees(T[x], t) /\ ~Lists(T[x], t) /\ ~Appends(T[x], t)
  BY ZenonT(30), KeepsParts
<1> QED
  BY ZenonT(30), <1>1, ThreadsType DEF TokenFit

LEMMA ListFit ==
    ASSUME NEW t, NEW s, NEW e, NEW q, NEW T, ~Listed(q, t), ~Holds(T[Daemon], t), ~Frees(T[Daemon], t),
           \/ s \in {"RUNNING", "SKIPPED"} /\ ~Appends(T[Daemon], t)
           \/ s \in {"QUEUED", "SKIPPED"} /\ ~Lists(T[Daemon], t),
           \A x \in Threads : x # Daemon => ~Keeps(T[x], t)
    PROVE  TokenFit(t, s, e, Nil, Nil, q, T)
<1>1. \A x \in Threads : ~Holds(T[x], t) /\ ~Frees(T[x], t)
  BY ZenonT(30), KeepsParts
<1> QED
  BY ZenonT(30), <1>1, ThreadsType DEF TokenFit

\* Threads that keep no more of t than before, none at a result of t.
LEMMA StayFit ==
    ASSUME NEW t, NEW s, NEW e, NEW rt, NEW at, NEW q, NEW q2, NEW T, NEW T2,
           TokenFit(t, s, e, rt, at, q, T), Listed(q2, t) => Listed(q, t),
           \A x \in Threads : T2[x] = T[x] \/ NoMore(T[x], T2[x], t)
    PROVE  TokenFit(t, s, e, rt, at, q2, T2)
<1>1. /\ \A w \in Workers : w \in Threads
      /\ Daemon \in Threads
  BY ZenonT(30), ThreadsType
<1>2. \A x \in Threads : /\ Holds(T2[x], t) => T2[x] = T[x]
                         /\ Holds(T[x], t) => T2[x] = T[x]
                         /\ Frees(T2[x], t) => Frees(T[x], t)
                         /\ Lists(T2[x], t) => Lists(T[x], t)
                         /\ Appends(T2[x], t) => Appends(T[x], t)
  BY ZenonT(30) DEF NoMore
<1>3. rt = Nil <=> at = Nil
  BY ZenonT(30) DEF TokenFit
<1>4. ASSUME NEW w \in Workers, Holds(T2[w], t)
      PROVE  /\ rt = w /\ at = T2[w].eid /\ s \in StatesAt(T2[w].pc)
             /\ T2[w].pc \in BeforeTx => e = T2[w].eid
  <2>1. T2[w] = T[w] /\ Holds(T[w], t)
    BY ZenonT(30), <1>1, <1>2, <1>4
  <2> QED
    BY ZenonT(30), <2>1 DEF TokenFit
<1>5. ASSUME at # Nil, \A w \in Workers : ~Holds(T2[w], t)
      PROVE  s \in {"RUNNING", "SKIPPED"} /\ e = at
  <2>1. \A w \in Workers : ~Holds(T[w], t)
    BY ZenonT(30), <1>1, <1>2, <1>5
  <2> QED
    BY ZenonT(30), <1>5, <2>1 DEF TokenFit
<1>6. Listed(q2, t) =>
            /\ rt = Nil /\ s \in {"QUEUED", "SKIPPED"}
            /\ ~Lists(T2[Daemon], t) /\ ~Appends(T2[Daemon], t)
            /\ \A x \in Threads : ~Frees(T2[x], t)
  BY ZenonT(30), <1>1, <1>2 DEF TokenFit
<1>7. ASSUME NEW x \in Threads, Frees(T2[x], t)
      PROVE  /\ rt = Nil /\ s \in {"QUEUED", "SKIPPED"}
             /\ ~Lists(T2[Daemon], t) /\ ~Appends(T2[Daemon], t)
             /\ \A y \in Threads : Frees(T2[y], t) => x = y
  BY ZenonT(30), <1>1, <1>2, <1>7 DEF TokenFit
<1>8. Lists(T2[Daemon], t) => rt = Nil /\ s \in {"RUNNING", "SKIPPED"} /\ ~Appends(T2[Daemon], t)
  BY ZenonT(30), <1>1, <1>2 DEF TokenFit
<1>9. Appends(T2[Daemon], t) => rt = Nil /\ s \in {"QUEUED", "SKIPPED"}
  BY ZenonT(30), <1>1, <1>2 DEF TokenFit
<1> QED
  BY ZenonT(30), <1>3, <1>4, <1>5, <1>6, <1>7, <1>8, <1>9 DEF TokenFit

\* A record without a result may become SKIPPED in any place.
LEMMA SkipFit ==
    ASSUME NEW t, NEW s, NEW e, NEW rt, NEW at, NEW q, NEW T,
           TokenFit(t, s, e, rt, at, q, T), s \notin {"COMPLETE", "FAILED"}
    PROVE  TokenFit(t, "SKIPPED", e, rt, at, q, T)
<1>1. \A p : s \in StatesAt(p) => "SKIPPED" \in StatesAt(p)
  BY DEF StatesAt
<1> QED
  BY ZenonT(30), <1>1 DEF TokenFit

\* What the types say about which threads keep tasks how.
LEMMA KeepersType ==
    ASSUME TypeInv, NEW x \in Threads, NEW t
    PROVE  /\ Holds(thr[x], t) => x \in Workers
           /\ Frees(thr[x], t) => x \in Workers
           /\ Lists(thr[x], t) \/ Appends(thr[x], t) => x = Daemon
BY DEF TypeInv, LocalsOK, LocalsFit, Holds, Frees, Lists, Appends, ResultPCs

\* A task is in one place only.
LEMMA OnePlace ==
    ASSUME TypeInv, NEW t \in Tasks, TokenOK(t)
    PROVE  /\ InQueue(t) => /\ runningTasks[t] = Nil /\ assignedTasks[t] = Nil
                            /\ \A x \in Threads : ~Keeps(thr[x], t)
           /\ runningTasks[t] # Nil =>
                    /\ ~InQueue(t) /\ assignedTasks[t] # Nil
                    /\ \A x \in Threads : ~Frees(thr[x], t) /\ ~Lists(thr[x], t) /\ ~Appends(thr[x], t)
                    /\ \A x \in Threads : Holds(thr[x], t) => x = runningTasks[t]
           /\ \A x \in Threads : Holds(thr[x], t) => runningTasks[t] = x /\ x # Nil
           /\ \A x \in Threads : Frees(thr[x], t) \/ Lists(thr[x], t) \/ Appends(thr[x], t) =>
                    /\ runningTasks[t] = Nil /\ assignedTasks[t] = Nil /\ ~InQueue(t)
                    /\ \A y \in Threads : ~Holds(thr[y], t)
                    /\ \A y \in Threads : Keeps(thr[y], t) => x = y
           /\ \A x \in Threads : Lists(thr[x], t) => ~Appends(thr[x], t)
<1> DEFINE s == taskState[t]
           rt == runningTasks[t]
           at == assignedTasks[t]
<1>1. TokenFit(t, s, execID[t], rt, at, readyQueue, thr)
  BY ZenonT(30) DEF TokenOK
<1> HIDE DEF s, rt, at
<1>2. /\ rt = Nil <=> at = Nil
      /\ \A w \in Workers : Holds(thr[w], t) => rt = w
      /\ InQueue(t) => /\ rt = Nil
                       /\ ~Lists(thr[Daemon], t) /\ ~Appends(thr[Daemon], t)
                       /\ \A x \in Threads : ~Frees(thr[x], t)
      /\ \A x \in Threads : Frees(thr[x], t) =>
            /\ rt = Nil /\ ~Lists(thr[Daemon], t) /\ ~Appends(thr[Daemon], t)
            /\ \A y \in Threads : Frees(thr[y], t) => x = y
      /\ Lists(thr[Daemon], t) => rt = Nil /\ ~Appends(thr[Daemon], t)
      /\ Appends(thr[Daemon], t) => rt = Nil
  BY ZenonT(30), <1>1 DEF TokenFit, InQueue, Listed
<1>3. Nil \notin Workers
  BY ZenonT(30), StoreAssumption
<1>4. \A x \in Threads : Holds(thr[x], t) => rt = x /\ x # Nil
  BY ZenonT(30), <1>2, <1>3, KeepersType
<1>5. \A x \in Threads : Frees(thr[x], t) \/ Lists(thr[x], t) \/ Appends(thr[x], t) => rt = Nil /\ ~InQueue(t)
  BY ZenonT(30), <1>2, KeepersType
<1>6. InQueue(t) => \A x \in Threads : ~Keeps(thr[x], t)
  BY ZenonT(30), <1>2, <1>4, <1>5, KeepsParts
<1>7. ASSUME NEW x \in Threads, Frees(thr[x], t) \/ Lists(thr[x], t) \/ Appends(thr[x], t),
             NEW y \in Threads, Keeps(thr[y], t)
      PROVE  x = y
  <2>1. Frees(thr[y], t) \/ Lists(thr[y], t) \/ Appends(thr[y], t)
    BY ZenonT(30), <1>4, <1>5, <1>7, KeepsParts
  <2> QED
    BY ZenonT(30), <1>2, <1>7, <2>1, KeepersType
<1>8. \A x \in Threads : Lists(thr[x], t) => ~Appends(thr[x], t)
  BY ZenonT(30), <1>2, KeepersType
<1>9. /\ InQueue(t) => rt = Nil /\ at = Nil /\ \A x \in Threads : ~Keeps(thr[x], t)
      /\ rt # Nil => /\ ~InQueue(t) /\ at # Nil
                     /\ \A x \in Threads : ~Frees(thr[x], t) /\ ~Lists(thr[x], t) /\ ~Appends(thr[x], t)
                     /\ \A x \in Threads : Holds(thr[x], t) => x = rt
  BY ZenonT(30), <1>2, <1>4, <1>5, <1>6
<1>10. \A x \in Threads : Frees(thr[x], t) \/ Lists(thr[x], t) \/ Appends(thr[x], t) =>
                    /\ rt = Nil /\ at = Nil /\ ~InQueue(t)
                    /\ \A y \in Threads : ~Holds(thr[y], t)
                    /\ \A y \in Threads : Keeps(thr[y], t) => x = y
  BY ZenonT(30), <1>2, <1>4, <1>5, <1>7
<1> QED
  BY ZenonT(30), <1>4, <1>8, <1>9, <1>10 DEF rt, at

\* The states a record may be in, by place.
LEMMA PlaceStates ==
    ASSUME TypeInv, NEW t \in Tasks, TokenOK(t)
    PROVE  /\ InQueue(t) => taskState[t] \in {"QUEUED", "SKIPPED"}
           /\ runningTasks[t] # Nil => taskState[t] \in {"RUNNING", "SKIPPED", "QUEUED", "COMPLETE", "FAILED"}
           /\ \A x \in Threads :
                /\ Holds(thr[x], t) => /\ taskState[t] \in StatesAt(thr[x].pc)
                                       /\ thr[x].pc \in BeforeTx => execID[t] = thr[x].eid
                                       /\ assignedTasks[t] = thr[x].eid
                /\ Frees(thr[x], t) => taskState[t] \in {"QUEUED", "SKIPPED"}
                /\ Lists(thr[x], t) => taskState[t] \in {"RUNNING", "SKIPPED"}
                /\ Appends(thr[x], t) => taskState[t] \in {"QUEUED", "SKIPPED"}
           /\ runningTasks[t] # Nil /\ (\A x \in Threads : ~Holds(thr[x], t)) =>
                    taskState[t] \in {"RUNNING", "SKIPPED"} /\ execID[t] = assignedTasks[t]
<1> DEFINE s == taskState[t]
           rt == runningTasks[t]
           at == assignedTasks[t]
<1>1. TokenFit(t, s, execID[t], rt, at, readyQueue, thr)
  BY ZenonT(30) DEF TokenOK
<1> HIDE DEF s, rt, at
<1>2. /\ InQueue(t) => s \in {"QUEUED", "SKIPPED"}
      /\ \A x \in Threads : Frees(thr[x], t) => s \in {"QUEUED", "SKIPPED"}
      /\ Lists(thr[Daemon], t) => s \in {"RUNNING", "SKIPPED"}
      /\ Appends(thr[Daemon], t) => s \in {"QUEUED", "SKIPPED"}
  BY ZenonT(30), <1>1 DEF TokenFit, InQueue, Listed
<1>3. \A w \in Workers : Holds(thr[w], t) =>
            s \in StatesAt(thr[w].pc) /\ at = thr[w].eid /\ (thr[w].pc \in BeforeTx => execID[t] = thr[w].eid)
  BY ZenonT(30), <1>1 DEF TokenFit
<1>4. rt # Nil /\ (\A w \in Workers : ~Holds(thr[w], t)) => s \in {"RUNNING", "SKIPPED"} /\ execID[t] = at
  BY ZenonT(30), <1>1 DEF TokenFit
<1>5. \A p : StatesAt(p) \subseteq {"RUNNING", "SKIPPED", "QUEUED", "COMPLETE", "FAILED"}
  BY DEF StatesAt
<1>6. rt # Nil => s \in {"RUNNING", "SKIPPED", "QUEUED", "COMPLETE", "FAILED"}
  <2>1. CASE \A w \in Workers : ~Holds(thr[w], t)
    BY <1>4, <2>1
  <2>2. CASE ~(\A w \in Workers : ~Holds(thr[w], t))
    BY ZenonT(30), <1>3, <1>5, <2>2
  <2> QED
    BY <2>1, <2>2
<1>7. rt # Nil /\ (\A x \in Threads : ~Holds(thr[x], t)) => s \in {"RUNNING", "SKIPPED"} /\ execID[t] = at
  BY ZenonT(30), <1>4, ThreadsType
<1>8. \A x \in Threads : Holds(thr[x], t) =>
            s \in StatesAt(thr[x].pc) /\ at = thr[x].eid /\ (thr[x].pc \in BeforeTx => execID[t] = thr[x].eid)
  BY ZenonT(30), <1>3, KeepersType
<1>9. \A x \in Threads : /\ Lists(thr[x], t) => s \in {"RUNNING", "SKIPPED"}
                         /\ Appends(thr[x], t) => s \in {"QUEUED", "SKIPPED"}
  BY ZenonT(30), <1>2, KeepersType
<1> QED
  BY ZenonT(30), <1>2, <1>6, <1>7, <1>8, <1>9 DEF s, rt, at

\* A waiting or absent task is in no place.
LEMMA PendingUntouched ==
    ASSUME TypeInv, NEW t \in Tasks, TokenOK(t), taskState[t] \in {"PENDING", "ABSENT"}
    PROVE  ~Touched(t)
<1>1. ~InQueue(t) /\ runningTasks[t] = Nil
  BY PlaceStates
<1>2. assignedTasks[t] = Nil
  BY ZenonT(30), <1>1 DEF TokenOK, TokenFit
<1>3. \A p : "PENDING" \notin StatesAt(p) /\ "ABSENT" \notin StatesAt(p)
  BY DEF StatesAt
<1>4. \A x \in Threads : ~Holds(thr[x], t) /\ ~Frees(thr[x], t) /\ ~Lists(thr[x], t) /\ ~Appends(thr[x], t)
  BY <1>3, PlaceStates
<1>5. \A x \in Threads : ~Keeps(thr[x], t)
  BY ZenonT(30), <1>4, KeepsParts
<1> QED
  BY ZenonT(30), <1>1, <1>2, <1>5, TouchedKept
-----------------------------------------------------------------------------
(* Steps. *)

LEMMA TouchedNext ==
    ASSUME TypeInv', NEW t \in Tasks
    PROVE  Touched(t)' <=> \/ InQueue(t)'
                           \/ runningTasks'[t] # Nil \/ assignedTasks'[t] # Nil
                           \/ \E x \in Threads : Keeps(thr'[x], t)
<1>1. \A x \in Threads : thr'[x].pc \in {"dwRequeue", "dwAppend", "rcRequeue"} => x = Daemon
  BY DEF TypeInv, LocalsOK, LocalsFit
<1> QED
  BY <1>1, ThreadsType DEF Touched, Keeps, Handling, Releasing, Relisted

\* Task t stays where it is or leaves, and its record is left alone or skipped.
Same(t) ==
    /\ execID'[t] = execID[t]
    /\ runningTasks'[t] = runningTasks[t] /\ assignedTasks'[t] = assignedTasks[t]
    /\ InQueue(t)' => InQueue(t)
    /\ \/ taskState'[t] = taskState[t]
       \/ taskState'[t] = "SKIPPED" /\ taskState[t] \notin {"COMPLETE", "FAILED"}

LEMMA SameFits ==
    ASSUME TypeInv, TypeInv', NEW t \in Tasks, TokenOK(t), Same(t),
           \A x \in Threads : thr'[x] = thr[x] \/ NoMore(thr[x], thr'[x], t)
    PROVE  TokenOK(t)' /\ Moves(t) /\ Enters(t)
<1>1. TokenFit(t, taskState'[t], execID[t], runningTasks[t], assignedTasks[t], readyQueue, thr)
  <2>1. TokenFit(t, taskState[t], execID[t], runningTasks[t], assignedTasks[t], readyQueue, thr)
    BY ZenonT(30) DEF TokenOK
  <2>2. CASE taskState'[t] = taskState[t]
    BY ZenonT(30), <2>1, <2>2
  <2>3. CASE taskState'[t] = "SKIPPED" /\ taskState[t] \notin {"COMPLETE", "FAILED"}
    BY ZenonT(30), <2>1, <2>3, SkipFit
  <2> QED
    BY ZenonT(30), <2>2, <2>3 DEF Same
<1>2. Listed(readyQueue', t) => Listed(readyQueue, t)
  BY ZenonT(30) DEF Same, InQueue, Listed
<1>3. TokenFit(t, taskState'[t], execID[t], runningTasks[t], assignedTasks[t], readyQueue', thr')
  BY ZenonT(30), <1>1, <1>2, StayFit DEF Same
<1>4. TokenOK(t)'
  BY ZenonT(30), <1>3 DEF TokenOK, Same
<1>5. Moves(t)
  BY ZenonT(30) DEF Same, Moves
<1>6. Touched(t)' => Touched(t)
  <2>1. \A x \in Threads : Keeps(thr'[x], t) => Keeps(thr[x], t)
    BY ZenonT(30), KeepsParts DEF Same, NoMore
  <2> QED
    BY ZenonT(30), <2>1, TouchedNext, TouchedKept DEF Same
<1> QED
  BY ZenonT(30), <1>4, <1>5, <1>6 DEF Enters, Placed

\* A task that leaves all places.
LEMMA ClearFits ==
    ASSUME TypeInv, TypeInv', NEW t \in Tasks, ~InQueue(t)', runningTasks'[t] = Nil, assignedTasks'[t] = Nil,
           \A x \in Threads : ~Keeps(thr'[x], t)
    PROVE  TokenOK(t)' /\ Enters(t)
<1>1. TokenFit(t, taskState'[t], execID'[t], Nil, Nil, readyQueue', thr')
  BY ZenonT(30), ClearFit DEF InQueue, Listed
<1>2. TokenOK(t)'
  BY ZenonT(30), <1>1 DEF TokenOK
<1>3. ~Touched(t)'
  BY ZenonT(30), TouchedNext
<1> QED
  BY ZenonT(30), <1>2, <1>3 DEF Enters

\* The in-degrees stay exact when no task completes and none is created.
LEMMA InDegreeStays ==
    ASSUME InDegreeExact,
           \A t \in Tasks : taskState'[t] = "COMPLETE" <=> taskState[t] = "COMPLETE",
           \A t \in Tasks : taskState'[t] = "PENDING" => taskState[t] = "PENDING" /\ inDegree'[t] = inDegree[t]
    PROVE  InDegreeExact'
<1> SUFFICES ASSUME NEW t \in Tasks, taskState'[t] = "PENDING"
             PROVE  inDegree'[t] = Cardinality({d \in Deps[t] : taskState'[d] # "COMPLETE"})
  BY DEF InDegreeExact
<1>1. Deps[t] \subseteq Tasks
  BY StoreAssumption
<1>2. {d \in Deps[t] : taskState'[d] # "COMPLETE"} = {d \in Deps[t] : taskState[d] # "COMPLETE"}
  BY <1>1
<1> QED
  BY <1>2 DEF InDegreeExact

\* The maps fit the assignments held when keys are only deleted.
LEMMA MapsStay ==
    ASSUME TypeInv, MapsOK, up => up', held' \subseteq held,
           \A t \in Tasks : \/ runningTasks'[t] = runningTasks[t] /\ assignedTasks'[t] = assignedTasks[t]
                            \/ runningTasks'[t] = Nil /\ assignedTasks'[t] = Nil
    PROVE  MapsOK'
<1>1. Nil \notin Execs
  BY ZenonT(30), StoreAssumption
<1> QED
  BY ZenonT(30), <1>1 DEF MapsOK

\* A task met by the walk is blocked: it has not been unlocked.
LEMMA SeenUnplaced ==
    ASSUME PlacedIsReady, NEW r, r.seen \in SUBSET Tasks, WalkFit(r, taskState),
           r.pc \in {"skip", "skipWrite"}, NEW t \in r.seen
    PROVE  ~Placed(t)
<1>1. PICK d \in Deps[t] : d \in r.seen \/ taskState[d] = "FAILED"
  BY ZenonT(30) DEF WalkFit
<1>2. taskState[d] # "COMPLETE"
  BY <1>1 DEF WalkFit
<1> QED
  BY <1>1, <1>2 DEF PlacedIsReady

\* A walk stays among blocked tasks while other threads move.
LEMMA WalkStays ==
    ASSUME PlacedIsReady, NEW r, r.seen \in SUBSET Tasks, WalkFit(r, taskState),
           \A t \in Tasks : Moves(t)
    PROVE  WalkFit(r, taskState')
<1> SUFFICES ASSUME r.pc \in {"skip", "skipWrite"}, NEW t \in r.seen
             PROVE  /\ taskState'[t] \in {"PENDING", "SKIPPED"}
                    /\ \E d \in Deps[t] : d \in r.seen \/ taskState'[d] = "FAILED"
  BY ZenonT(30) DEF WalkFit
<1>1. \A u \in r.seen : taskState[u] \in {"PENDING", "SKIPPED"} /\ ~Placed(u) /\ Moves(u)
  BY SeenUnplaced DEF WalkFit
<1>2. \A u \in r.seen : taskState'[u] # "COMPLETE"
  BY <1>1 DEF Moves
<1>3. PICK d \in Deps[t] : d \in r.seen \/ taskState[d] = "FAILED"
  BY ZenonT(30) DEF WalkFit
<1>4. d \in Tasks
  BY <1>3, StoreAssumption
<1>5. taskState[d] = "FAILED" => taskState'[d] = "FAILED"
  BY <1>4 DEF Moves
<1>6. taskState'[d] # "COMPLETE"
  BY <1>2, <1>3, <1>5
<1>7. taskState'[t] \in {"PENDING", "SKIPPED"}
  BY <1>1, <1>3, <1>6 DEF Moves
<1> QED
  BY <1>3, <1>5, <1>7

\* A step keeps TokenInv when it moves every task as Moves and Enters allow
\* and leaves it in one place.
LEMMA TokenStep ==
    ASSUME TypeInv, TypeInv', TokenInv, \A t \in Tasks : Moves(t) /\ TokenOK(t)' /\ Enters(t),
           \A x \in Threads : WalkFit(thr'[x], taskState),
           QueueDistinct', MapsOK', InDegreeExact'
    PROVE  TokenKept
<1>1. PlacedIsReady'
  <2> SUFFICES ASSUME NEW t \in Tasks, Placed(t)', NEW d \in Deps[t]
               PROVE  taskState'[d] = "COMPLETE"
    BY DEF PlacedIsReady
  <2>1. d \in Tasks
    BY StoreAssumption
  <2>2. taskState[d] = "COMPLETE" => taskState'[d] = "COMPLETE"
    BY <2>1 DEF Moves
  <2>3. Placed(t) => taskState'[d] = "COMPLETE"
    BY <2>2 DEF TokenInv, PlacedIsReady
  <2>4. CASE Touched(t)'
    BY <2>3, <2>4 DEF Enters
  <2>5. CASE taskState'[t] \in {"QUEUED", "RUNNING", "COMPLETE", "FAILED"}
    BY <2>3, <2>5 DEF Moves, Placed
  <2> QED
    BY <2>4, <2>5 DEF Placed
<1>2. \A x \in Threads : WalkFit(thr[x], taskState)'
  <2> TAKE x \in Threads
  <2>1. thr'[x].seen \in SUBSET Tasks
    BY DEF TypeInv, TypeOK, ThreadState
  <2>2. WalkFit(thr'[x], taskState')
    BY ZenonT(30), <2>1, WalkStays DEF TokenInv
  <2> QED
    BY <2>2
<1>3. TokenInv'
  BY ZenonT(30), <1>1, <1>2 DEF TokenInv
<1> QED
  BY <1>3 DEF TokenKept

\* A step of thread x that leaves the tasks outside U where they are.
LEMMA ThreadStep ==
    ASSUME TypeInv, TypeInv', TokenInv, NEW x \in Threads, NEW r, Becomes(x, r), WalkFit(r, taskState), NEW U,
           \A t \in Tasks : t \notin U => Same(t) /\ NoMore(thr[x], r, t),
           \A t \in Tasks : t \in U => Moves(t) /\ TokenOK(t)' /\ Enters(t),
           QueueDistinct', MapsOK', InDegreeExact'
    PROVE  TokenKept
<1>1. \A y \in Threads : thr'[y] = IF y = x THEN r ELSE thr[y]
  BY DEF Becomes, TypeInv, TypeOK
<1>2. \A y \in Threads : WalkFit(thr'[y], taskState)
  BY <1>1 DEF TokenInv
<1>3. \A t \in Tasks : TokenOK(t)
  BY DEF TokenInv
<1>4. ASSUME NEW t \in Tasks, t \notin U PROVE Moves(t) /\ TokenOK(t)' /\ Enters(t)
  <2>1. Same(t) /\ \A y \in Threads : thr'[y] = thr[y] \/ NoMore(thr[y], thr'[y], t)
    BY <1>1, <1>4
  <2> QED
    BY ZenonT(30), <1>3, <2>1, SameFits
<1>5. \A t \in Tasks : Moves(t) /\ TokenOK(t)' /\ Enters(t)
  BY ZenonT(30), <1>4
<1> QED
  BY <1>2, <1>5, TokenStep

\* Labels at which a thread keeps no task.
Free == PCs \ (ResultPCs \cup {"dwRequeue", "dwAppend", "rcRequeue"})

LEMMA FreeKeepsNone ==
    ASSUME NEW r, r.pc \in Free, NEW t
    PROVE  ~Holds(r, t) /\ ~Frees(r, t) /\ ~Lists(r, t) /\ ~Appends(r, t)
BY DEF Free, ResultPCs, Holds, Frees, Lists, Appends

LEMMA FreeNoMore ==
    ASSUME NEW r0, NEW r, r0.pc \notin ResultPCs, r.pc \in Free, NEW t
    PROVE  NoMore(r0, r, t)
BY ZenonT(30), FreeKeepsNone DEF NoMore, Holds

\* A step of thread x in which no task enters a place, and records change at
\* most to SKIPPED.
LEMMA PlainStep ==
    ASSUME TypeInv, TypeInv', TokenInv, NEW x \in Threads, NEW r, Becomes(x, r), WalkFit(r, taskState),
           \A t \in Tasks : NoMore(thr[x], r, t),
           \A t \in Tasks : \/ taskState'[t] = taskState[t]
                            \/ taskState'[t] = "SKIPPED" /\ taskState[t] \notin {"COMPLETE", "FAILED"},
           UNCHANGED <<execID, inDegree, runningTasks, assignedTasks, held>>, up => up',
           \A t \in Tasks : InQueue(t)' => InQueue(t), QueueDistinct'
    PROVE  TokenKept
<1>1. \A t \in Tasks : Same(t)
  BY ZenonT(30) DEF Same
<1>2. MapsOK'
  BY MapsStay DEF TokenInv
<1>3. InDegreeExact'
  BY InDegreeStays DEF TokenInv
<1> DEFINE none == {}
<1>4. \A t \in Tasks : t \notin none => Same(t) /\ NoMore(thr[x], r, t)
  BY ZenonT(30), <1>1
<1>5. \A t \in Tasks : t \in none => Moves(t) /\ TokenOK(t)' /\ Enters(t)
  OBVIOUS
<1> HIDE DEF none
<1> QED
  BY ZenonT(30), <1>2, <1>3, <1>4, <1>5, ThreadStep

\* A thread that goes from a free label to another and changes no record.
LEMMA FreeStep ==
    ASSUME TypeInv, TypeInv', TokenInv, NEW x \in Threads, NEW r, Becomes(x, r),
           thr[x].pc \notin ResultPCs, r.pc \in Free \ {"skip", "skipWrite"},
           UNCHANGED <<taskState, execID, inDegree, readyQueue, runningTasks, assignedTasks, held>>, up => up'
    PROVE  TokenKept
<1>1. \A t \in Tasks : NoMore(thr[x], r, t)
  BY FreeNoMore
<1>2. WalkFit(r, taskState)
  BY DEF WalkFit
<1>3. (\A t \in Tasks : InQueue(t)' => InQueue(t)) /\ QueueDistinct'
  BY DEF InQueue, TokenInv, QueueDistinct
<1>4. \A t \in Tasks : taskState'[t] = taskState[t]
  OBVIOUS
<1> QED
  BY ZenonT(30), <1>1, <1>2, <1>3, <1>4, PlainStep

LEMMA IdleFree == Idle.pc \in Free \ {"skip", "skipWrite"}
BY DEF Idle, Free, PCs, ResultPCs

LEMMA TokenStutter ==
    ASSUME TokenInv, UNCHANGED <<dbVars, up, readyQueue, runningTasks, assignedTasks, thr>>, held' \subseteq held
    PROVE  TokenKept
<1>1. UNCHANGED <<taskState, execID, inDegree, up, readyQueue, runningTasks, assignedTasks, thr>>
  BY DEF dbVars
<1>2. (\A t \in Tasks : TokenOK(t))' /\ QueueDistinct' /\ PlacedIsReady' /\ InDegreeExact'
  BY ZenonT(30), <1>1 DEF TokenInv, TokenOK, QueueDistinct, PlacedIsReady, Placed, InDegreeExact, Touched, InQueue,
              Handling, Releasing, Relisted
<1>3. MapsOK'
  <2>1. MapsOK /\ \A w, t, e : <<w, t, e>> \in held' => <<w, t, e>> \in held
    BY ZenonT(30) DEF TokenInv
  <2> QED
    BY <1>1, <2>1 DEF MapsOK
<1> QED
  BY <1>1, <1>2, <1>3 DEF TokenInv, TokenKept, Moves

\* A step of thread x that moves task u alone.
LEMMA TaskStep ==
    ASSUME TypeInv, TypeInv', TokenInv, NEW x \in Threads, NEW r, Becomes(x, r), WalkFit(r, taskState),
           NEW u \in Tasks, \A t \in Tasks : t # u => Same(t) /\ NoMore(thr[x], r, t),
           Moves(u), TokenOK(u)', Enters(u), QueueDistinct', MapsOK', InDegreeExact'
    PROVE  TokenKept
<1> DEFINE U == {u}
<1>1. \A t \in Tasks : t \notin U => Same(t) /\ NoMore(thr[x], r, t)
  BY ZenonT(30)
<1>2. \A t \in Tasks : t \in U => Moves(t) /\ TokenOK(t)' /\ Enters(t)
  BY ZenonT(30)
<1> HIDE DEF U
<1> QED
  BY ZenonT(30), <1>1, <1>2, ThreadStep

LEMMA InDegreeWrite ==
    ASSUME InDegreeExact, NEW u \in Tasks, taskState[u] # "COMPLETE", taskState'[u] \notin {"COMPLETE", "PENDING"},
           \A t \in Tasks : t # u => taskState'[t] = taskState[t], UNCHANGED inDegree
    PROVE  InDegreeExact'
BY InDegreeStays

\* The task whose result a handler processes is on its worker and nowhere else.
LEMMA HeldTask ==
    ASSUME TypeInv, TokenInv, NEW w \in Workers, thr[w].pc \in ResultPCs, NEW t, t = thr[w].task
    PROVE  /\ t \in Tasks /\ Holds(thr[w], t) /\ TokenOK(t)
           /\ runningTasks[t] = w /\ assignedTasks[t] = thr[w].eid /\ thr[w].eid # Nil
           /\ ~InQueue(t) /\ ~Frees(thr[w], t)
           /\ \A x \in Threads : x # w => ~Keeps(thr[x], t)
           /\ taskState[t] \in StatesAt(thr[w].pc)
           /\ thr[w].pc \in BeforeTx => execID[t] = thr[w].eid
           /\ Placed(t)
<1>1. w \in Threads /\ t \in Tasks /\ Holds(thr[w], t) /\ thr[w].eid # Nil
  BY LocalsType, ThreadsType, StoreAssumption DEF LocalsFit, Holds
<1>2. TokenOK(t)
  BY <1>1 DEF TokenInv
<1>3. runningTasks[t] = w /\ w # Nil
  BY ZenonT(30), <1>1, <1>2, OnePlace
<1>4. /\ ~InQueue(t)
      /\ \A x \in Threads : ~Frees(thr[x], t) /\ ~Lists(thr[x], t) /\ ~Appends(thr[x], t)
      /\ \A x \in Threads : Holds(thr[x], t) => x = w
  BY ZenonT(30), <1>1, <1>2, <1>3, OnePlace
<1>5. \A x \in Threads : x # w => ~Keeps(thr[x], t)
  BY ZenonT(30), <1>4, KeepsParts
<1>6. /\ taskState[t] \in StatesAt(thr[w].pc) /\ assignedTasks[t] = thr[w].eid
      /\ thr[w].pc \in BeforeTx => execID[t] = thr[w].eid
  BY ZenonT(30), <1>1, <1>2, PlaceStates
<1>7. Placed(t)
  BY ZenonT(30), <1>1, <1>3, TouchedKept DEF Placed
<1> QED
  BY ZenonT(30), <1>1, <1>2, <1>3, <1>4, <1>5, <1>6, <1>7

\* Of the other tasks, a handler that leaves a result keeps no more than before.
LEMMA HoldNoMore ==
    ASSUME NEW r0, NEW r, NEW t, r0.pc \in ResultPCs, r0.task # t, r.pc \in Free \/ (r.pc \in ResultPCs \ {"ctClean"} /\ r.task # t)
    PROVE  NoMore(r0, r, t)
BY DEF NoMore, Holds, Frees, Lists, Appends, Free, ResultPCs

LEMMA SameData ==
    ASSUME NEW t, taskState'[t] = taskState[t], execID'[t] = execID[t],
           runningTasks'[t] = runningTasks[t], assignedTasks'[t] = assignedTasks[t], InQueue(t)' => InQueue(t)
    PROVE  Same(t)
BY ZenonT(30) DEF Same

\* A handler goes on with its result, and may write the record of the task.
LEMMA HoldStep ==
    ASSUME TypeInv, TypeInv', TokenInv, NEW w \in Workers, thr[w].pc \in ResultPCs, NEW t, t = thr[w].task,
           NEW r, Becomes(w, r), r.pc \in ResultPCs \ {"ctClean"}, r.task = t, r.eid = thr[w].eid,
           \A u \in Tasks : u # t => taskState'[u] = taskState[u] /\ execID'[u] = execID[u],
           \/ taskState'[t] = taskState[t]
           \/ taskState[t] \notin {"COMPLETE", "FAILED"} /\ taskState'[t] \in {"QUEUED", "FAILED"},
           taskState'[t] \in StatesAt(r.pc), r.pc \in BeforeTx => execID'[t] = r.eid,
           UNCHANGED <<inDegree, readyQueue, runningTasks, assignedTasks, held>>, up => up'
    PROVE  TokenKept
<1>1. /\ t \in Tasks /\ runningTasks[t] = w /\ assignedTasks[t] = thr[w].eid /\ thr[w].eid # Nil
      /\ ~InQueue(t) /\ (\A x \in Threads : x # w => ~Keeps(thr[x], t)) /\ Placed(t)
  BY ZenonT(30), HeldTask
<1>2. thr'[w] = r /\ \A x \in Threads : x # w => thr'[x] = thr[x]
  BY ZenonT(30), ThreadsType DEF Becomes, TypeInv, TypeOK
<1>3. TokenFit(t, taskState'[t], execID'[t], w, r.eid, readyQueue', thr')
  <2>1. Holds(thr'[w], t) /\ ~Frees(thr'[w], t) /\ thr'[w].eid = r.eid
    BY <1>2 DEF Holds, Frees
  <2>2. ~Listed(readyQueue', t)
    BY <1>1 DEF InQueue, Listed
  <2>3. \A x \in Threads : x # w => ~Keeps(thr'[x], t)
    BY <1>1, <1>2
  <2> QED
    BY ZenonT(30), <1>1, <1>2, <2>1, <2>2, <2>3, HoldFit
<1>4. TokenOK(t)'
  BY ZenonT(30), <1>1, <1>3 DEF TokenOK
<1>5. Moves(t) /\ Enters(t)
  BY <1>1 DEF Moves, Enters
<1>6. \A u \in Tasks : u # t => Same(u) /\ NoMore(thr[w], r, u)
  <2>1. \A u \in Tasks : InQueue(u)' => InQueue(u)
    BY DEF InQueue
  <2> QED
    BY <2>1, HoldNoMore, SameData
<1>7. QueueDistinct' /\ MapsOK'
  BY ZenonT(30), MapsStay DEF TokenInv, QueueDistinct
<1>8. InDegreeExact'
  BY ZenonT(30), <1>1, InDegreeStays DEF TokenInv
<1>9. WalkFit(r, taskState)
  BY DEF WalkFit, ResultPCs
<1>10. w \in Threads
  BY ThreadsType
<1> QED
  BY ZenonT(30), <1>1, <1>4, <1>5, <1>6, <1>7, <1>8, <1>9, <1>10, TaskStep
-----------------------------------------------------------------------------
(* The actions. *)

LEMMA GetReadyToken ==
    ASSUME TypeInv, TypeInv', TokenInv, NEW w \in Workers, GetReadyTask(w)
    PROVE  TokenKept
<1>1. PICK h : h = Head(readyQueue)
  BY ZenonT(30)
<1>2. /\ QueueDistinct' /\ h \in Tasks /\ InQueue(h) /\ ~InQueue(h)'
      /\ \A t \in Tasks : InQueue(t)' => InQueue(t)
  BY <1>1, TailDistinct DEF GetReadyTask, TokenInv
<1>3. w \in Threads /\ Becomes(w, thr[w]) /\ thr[w].pc = "idle" /\ up /\ up' = up /\ UNCHANGED thr
  BY ZenonT(30), ThreadsType DEF GetReadyTask, At, Becomes, TypeInv, TypeOK
<1>4. WalkFit(thr[w], taskState) /\ \A t \in Tasks : NoMore(thr[w], thr[w], t)
  BY ZenonT(30), <1>3, FreeNoMore DEF WalkFit, Free, PCs, ResultPCs
<1>5. CASE UNCHANGED <<dbVars, runningTasks, assignedTasks, held>>
  <2>1. UNCHANGED <<taskState, execID, inDegree, runningTasks, assignedTasks, held>>
    BY <1>5 DEF dbVars
  <2>2. \A t \in Tasks : taskState'[t] = taskState[t]
    BY <2>1
  <2>3. UNCHANGED <<execID, inDegree, runningTasks, assignedTasks, held>> /\ (up => up')
    BY <1>3, <2>1
  <2> QED
    BY ZenonT(30), <1>2, <1>3, <1>4, <2>2, <2>3, PlainStep
<1>6. ASSUME NEW e \in Execs \ ExecsInUse, TxAssignTask(h, e),
             runningTasks' = [runningTasks EXCEPT ![h] = w],
             assignedTasks' = [assignedTasks EXCEPT ![h] = e],
             held' = held \cup {<<w, h, e>>}
      PROVE  TokenKept
  <2>1. /\ TokenOK(h) /\ taskState[h] \in {"QUEUED", "SKIPPED"}
        /\ \A x \in Threads : ~Keeps(thr'[x], h)
    BY ZenonT(30), <1>2, <1>3, OnePlace, PlaceStates DEF TokenInv
  <2>2. /\ taskState'[h] = "RUNNING" /\ execID'[h] = e /\ runningTasks'[h] = w /\ assignedTasks'[h] = e
        /\ UNCHANGED inDegree
        /\ \A t \in Tasks : t # h => /\ taskState'[t] = taskState[t] /\ execID'[t] = execID[t]
                                     /\ runningTasks'[t] = runningTasks[t] /\ assignedTasks'[t] = assignedTasks[t]
    BY ZenonT(30), <1>2, <1>6 DEF TxAssignTask, TypeInv, TypeOK, StoreTypeOK
  <2>3. e # Nil /\ w # Nil
    BY StoreAssumption
  <2>4. TokenFit(h, "RUNNING", e, w, e, readyQueue', thr')
    <3>1. ~Listed(readyQueue', h)
      BY <1>2 DEF InQueue, Listed
    <3> QED
      BY ZenonT(30), <2>1, <2>3, <3>1, RunFit
  <2>5. TokenOK(h)'
    BY ZenonT(30), <2>2, <2>4 DEF TokenOK
  <2>6. Moves(h) /\ Enters(h)
    <3>1. Placed(h)
      BY ZenonT(30), <1>2, TouchedKept DEF Placed
    <3> QED
      BY ZenonT(30), <2>1, <2>2, <3>1 DEF Moves, Enters
  <2>7. \A t \in Tasks : t # h => Same(t) /\ NoMore(thr[w], thr[w], t)
    BY ZenonT(30), <1>2, <1>4, <2>2, SameData
  <2>8. MapsOK'
    <3>1. \A x \in Workers, t \in Tasks : <<x, t, e>> \notin held
      <4> SUFFICES ASSUME NEW x \in Workers, NEW t \in Tasks, <<x, t, e>> \in held PROVE FALSE
        OBVIOUS
      <4>1. <<x, t, e>>[3] \in ExecsInUse
        BY DEF ExecsInUse
      <4> QED
        BY <4>1
    <3>2. ASSUME NEW x \in Workers, NEW t \in Tasks, NEW f \in Execs, <<x, t, f>> \in held', assignedTasks'[t] = f
          PROVE  runningTasks'[t] = x
      <4>1. CASE <<x, t, f>> = <<w, h, e>>
        BY <2>2, <4>1
      <4>2. CASE <<x, t, f>> \in held
        <5>1. t # h
          BY ZenonT(30), <2>2, <3>1, <3>2, <4>2
        <5> QED
          BY ZenonT(30), <2>2, <3>2, <4>2, <5>1 DEF TokenInv, MapsOK
      <4> QED
        BY <1>6, <3>2, <4>1, <4>2
    <3> QED
      BY ZenonT(30), <1>3, <3>2 DEF MapsOK
  <2>9. InDegreeExact'
    BY ZenonT(30), <1>2, <2>1, <2>2, InDegreeWrite DEF TokenInv
  <2> QED
    BY ZenonT(30), <1>2, <1>3, <1>4, <2>5, <2>6, <2>7, <2>8, <2>9, TaskStep
<1> QED
  BY ZenonT(30), <1>1, <1>5, <1>6 DEF GetReadyTask

LEMMA ResultToken ==
    ASSUME TypeInv, TypeInv', TokenInv, NEW w \in Workers, NEW t \in Tasks, NEW outcome,
           NEW p \in {"ctTx", "ftRead"}, ResultArrives(w, t, outcome, p)
    PROVE  TokenKept
<1>1. PICK e \in Execs :
        /\ <<w, t, e>> \in held /\ held' = held \ {<<w, t, e>>}
        /\ \/ assignedTasks[t] = e /\ Becomes(w, [Idle EXCEPT !.pc = p, !.task = t, !.eid = e])
           \/ UNCHANGED thr
  BY ZenonT(30) DEF ResultArrives
<1>2. /\ UNCHANGED <<dbVars, up, taskState, execID, inDegree, readyQueue, runningTasks, assignedTasks>>
      /\ thr[w].pc = "idle" /\ held' \subseteq held
  BY <1>1 DEF ResultArrives, dbVars, memVars, At
<1> DEFINE r == [Idle EXCEPT !.pc = p, !.task = t, !.eid = e]
<1>3. CASE assignedTasks[t] = e /\ Becomes(w, r)
  <2>1. r.pc = p /\ r.task = t /\ r.eid = e
    BY ZenonT(30) DEF Idle
  <2> HIDE DEF r
  <2>2. runningTasks[t] = w /\ e # Nil /\ w # Nil /\ TokenOK(t)
    BY <1>1, <1>3, StoreAssumption DEF TokenInv, MapsOK
  <2>3. thr'[w] = r /\ \A x \in Threads : x # w => thr'[x] = thr[x]
    BY <1>3, ThreadsType DEF Becomes, TypeInv, TypeOK
  <2>4. \A x \in Threads : ~Holds(thr[x], t)
    <3>1. ~Holds(thr[w], t)
      BY <1>2 DEF Holds, ResultPCs
    <3> QED
      BY ZenonT(30), <2>2, <3>1, OnePlace
  <2>5. /\ ~InQueue(t) /\ taskState[t] \in {"RUNNING", "SKIPPED"} /\ execID[t] = e
        /\ \A x \in Threads : ~Keeps(thr[x], t)
    BY ZenonT(30), <1>3, <2>2, <2>4, OnePlace, PlaceStates, KeepsParts
  <2>6. TokenFit(t, taskState[t], e, w, e, readyQueue, thr')
    <3>1. Holds(thr'[w], t) /\ ~Frees(thr'[w], t) /\ thr'[w].eid = e
      BY <2>1, <2>3 DEF Holds, Frees, ResultPCs
    <3>2. ~Listed(readyQueue, t) /\ taskState[t] \in StatesAt(thr'[w].pc)
      BY <2>1, <2>3, <2>5 DEF InQueue, Listed, StatesAt, BeforeTx
    <3>3. \A x \in Threads : x # w => ~Keeps(thr'[x], t)
      BY <2>3, <2>5
    <3> QED
      BY ZenonT(30), <2>2, <3>1, <3>2, <3>3, HoldFit
  <2>7. TokenOK(t)'
    BY ZenonT(30), <1>2, <1>3, <2>2, <2>5, <2>6 DEF TokenOK
  <2>8. Moves(t) /\ Enters(t)
    BY <1>2, <2>2, TouchedKept DEF Moves, Enters, Placed
  <2>9. \A u \in Tasks : u # t => Same(u) /\ NoMore(thr[w], r, u)
    <3>1. \A u \in Tasks : InQueue(u)' => InQueue(u)
      BY <1>2 DEF InQueue
    <3>2. \A u \in Tasks : u # t => NoMore(thr[w], r, u)
      BY <1>2, <2>1 DEF NoMore, Holds, Frees, Lists, Appends, ResultPCs
    <3> QED
      BY <1>2, <3>1, <3>2, SameData
  <2>10. MapsOK' /\ QueueDistinct' /\ InDegreeExact'
    BY ZenonT(30), <1>2, MapsStay, InDegreeStays DEF TokenInv, QueueDistinct
  <2>11. WalkFit(r, taskState) /\ w \in Threads
    BY <2>1, ThreadsType DEF WalkFit
  <2> QED
    BY ZenonT(30), <1>3, <2>7, <2>8, <2>9, <2>10, <2>11, TaskStep
<1>4. CASE UNCHANGED thr
  BY ZenonT(30), <1>2, <1>4, TokenStutter
<1> QED
  BY <1>1, <1>3, <1>4

\* CompleteTask unlocks a task exactly when the one completed was the last of
\* its dependencies, and keeps the in-degrees exact.
LEMMA UnlockedAreReady ==
    ASSUME StoreTypeOK, InDegreeExact, NEW t \in Tasks, taskState[t] # "COMPLETE", NEW e, TxCompleteTask(t, e)
    PROVE  /\ \A u \in Unlocks(t) : \A d \in Deps[u] : taskState'[d] = "COMPLETE"
           /\ InDegreeExact'
<1> DEFINE Open(u) == {d \in Deps[u] : taskState[d] # "COMPLETE"}
<1>1. \A u \in Tasks : /\ Open(u) \subseteq Tasks /\ IsFiniteSet(Open(u)) /\ Cardinality(Open(u)) \in Nat
                       /\ Open(u) \subseteq Deps[u]
                       /\ taskState[u] = "PENDING" => inDegree[u] = Cardinality(Open(u))
  <2> TAKE u \in Tasks
  <2>1. Open(u) \subseteq Tasks /\ Open(u) \subseteq Deps[u]
    BY StoreAssumption
  <2>2. IsFiniteSet(Open(u)) /\ Cardinality(Open(u)) \in Nat
    <3> HIDE DEF Open
    <3> QED
      BY <2>1, StoreAssumption, FS_Subset, FS_CardinalityType
  <2> QED
    BY ZenonT(30), <2>1, <2>2 DEF InDegreeExact
<1>2. \A u \in Unlocks(t) : u \in Tasks /\ taskState[u] = "PENDING" /\ t \in Open(u) /\ inDegree[u] <= 1
  BY DEF Unlocks, Downstream
<1>3. \A u \in Tasks : taskState'[u] = IF u = t THEN "COMPLETE"
                                      ELSE IF u \in Unlocks(t) THEN "QUEUED" ELSE taskState[u]
  BY DEF TxCompleteTask, Unlocked
<1>4. \A u \in Tasks : taskState'[u] = "COMPLETE" <=> u = t \/ taskState[u] = "COMPLETE"
  BY <1>2, <1>3
<1>5. ASSUME NEW u \in Unlocks(t), NEW d \in Deps[u] PROVE taskState'[d] = "COMPLETE"
  <2>1. d \in Tasks
    BY <1>2, StoreAssumption
  <2>2. CASE d = t \/ taskState[d] = "COMPLETE"
    BY <1>4, <2>1, <2>2
  <2>3. CASE d # t /\ taskState[d] # "COMPLETE"
    <3>1. d \in Open(u) \ {t}
      BY <2>3
    <3>2. IsFiniteSet(Open(u)) /\ Cardinality(Open(u)) \in Nat /\ t \in Open(u) /\ Cardinality(Open(u)) <= 1
      BY ZenonT(30), <1>1, <1>2
    <3> HIDE DEF Open
    <3>3. IsFiniteSet(Open(u) \ {t}) /\ Cardinality(Open(u) \ {t}) = Cardinality(Open(u)) - 1
      BY <3>2, FS_RemoveElement
    <3>4. Cardinality(Open(u) \ {t}) = 0
      BY <3>2, <3>3, FS_CardinalityType
    <3> QED
      BY <3>1, <3>3, <3>4, FS_EmptySet
  <2> QED
    BY <2>2, <2>3
<1>6. ASSUME NEW u \in Tasks, taskState'[u] = "PENDING"
      PROVE  inDegree'[u] = Cardinality({d \in Deps[u] : taskState'[d] # "COMPLETE"})
  <2>1. taskState[u] = "PENDING" /\ u # t /\ u \notin Unlocks(t)
    BY <1>3, <1>6
  <2>2. {d \in Deps[u] : taskState'[d] # "COMPLETE"} = Open(u) \ {t}
    BY <1>4, StoreAssumption
  <2>3. inDegree'[u] = IF u \in Decremented(t) THEN inDegree[u] - 1 ELSE inDegree[u]
    BY DEF TxCompleteTask
  <2>4. CASE t \in Deps[u]
    <3>1. inDegree[u] \in Nat /\ ~(inDegree[u] <= 1)
      BY <2>1, <2>4 DEF Unlocks, Downstream, StoreTypeOK
    <3>2. u \in Decremented(t)
      BY <2>1, <2>4, <3>1 DEF Decremented, Downstream
    <3>3. t \in Open(u)
      BY <2>4
    <3>4. IsFiniteSet(Open(u)) /\ Cardinality(Open(u)) = inDegree[u]
      BY <1>1, <2>1
    <3> HIDE DEF Open
    <3>5. Cardinality(Open(u) \ {t}) = Cardinality(Open(u)) - 1
      BY ZenonT(30), <3>3, <3>4, FS_RemoveElement
    <3> QED
      BY <2>2, <2>3, <3>2, <3>4, <3>5
  <2>5. CASE t \notin Deps[u]
    <3>1. u \notin Decremented(t)
      BY <2>5 DEF Decremented, Downstream
    <3>2. Open(u) \ {t} = Open(u)
      BY <2>5
    <3>3. inDegree[u] = Cardinality(Open(u))
      BY ZenonT(30), <1>1, <2>1
    <3> QED
      BY ZenonT(30), <2>2, <2>3, <3>1, <3>2, <3>3
  <2> QED
    BY <2>4, <2>5
<1> QED
  BY ZenonT(30), <1>5, <1>6 DEF InDegreeExact

LEMMA CompleteTxToken ==
    ASSUME TypeInv, TypeInv', TokenInv, NEW w \in Workers, CompleteTaskTx(w)
    PROVE  TokenKept
<1>1. PICK t : t = thr[w].task
  BY ZenonT(30)
<1>2. thr[w].pc = "ctTx" /\ w \in Threads /\ thr[w] \in ThreadState /\ StoreTypeOK /\ thr[w].pc \in ResultPCs
  BY ThreadsType, LocalsType DEF CompleteTaskTx, At, ResultPCs
<1>3. /\ t \in Tasks /\ runningTasks[t] = w /\ assignedTasks[t] = thr[w].eid /\ thr[w].eid # Nil
      /\ ~InQueue(t) /\ (\A x \in Threads : x # w => ~Keeps(thr[x], t)) /\ Placed(t)
      /\ taskState[t] \in {"RUNNING", "SKIPPED"} /\ execID[t] = thr[w].eid
  <2>1. taskState[t] \in StatesAt("ctTx") /\ "ctTx" \in BeforeTx
    BY ZenonT(30), <1>1, <1>2, HeldTask DEF BeforeTx
  <2>2. taskState[t] \in {"RUNNING", "SKIPPED"}
    BY <2>1 DEF StatesAt
  <2> QED
    BY ZenonT(30), <1>1, <1>2, <2>1, <2>2, HeldTask
<1>4. PICK o : o = Unlocks(t)
  BY ZenonT(30)
<1> DEFINE r == [thr[w] EXCEPT !.pc = "ctClean", !.out = o]
<1>5. TxCompleteTask(t, thr[w].eid) /\ Becomes(w, r)
  BY ZenonT(30), <1>1, <1>3, <1>4 DEF CompleteTaskTx, Unlocked
<1>6. r.pc = "ctClean" /\ r.task = t /\ r.eid = thr[w].eid /\ r.out = o
  BY <1>1, <1>2 DEF ThreadState
<1> HIDE DEF r
<1>7. UNCHANGED <<execID, readyQueue, runningTasks, assignedTasks, held, up>>
  BY <1>5 DEF CompleteTaskTx, TxCompleteTask, memVars, envVars
<1>8. (\A u \in o : \A d \in Deps[u] : taskState'[d] = "COMPLETE") /\ InDegreeExact'
  BY ZenonT(30), <1>2, <1>3, <1>4, <1>5, UnlockedAreReady DEF TokenInv
<1>9. \A u \in o : u \in Tasks /\ taskState[u] = "PENDING" /\ u # t
  BY ZenonT(30), <1>3, <1>4 DEF Unlocks, Downstream
<1>10. \A u \in Tasks : taskState'[u] = IF u = t THEN "COMPLETE" ELSE IF u \in o THEN "QUEUED" ELSE taskState[u]
  BY ZenonT(30), <1>3, <1>4, <1>5 DEF TxCompleteTask, Unlocked
<1>11. thr'[w] = r /\ \A x \in Threads : x # w => thr'[x] = thr[x]
  BY ZenonT(30), <1>2, <1>5 DEF Becomes, TypeInv, TypeOK
<1>12. Moves(t) /\ TokenOK(t)' /\ Enters(t)
  <2>1. Moves(t) /\ Enters(t)
    BY ZenonT(30), <1>3, <1>10 DEF Moves, Enters
  <2>2. TokenFit(t, "COMPLETE", execID'[t], w, r.eid, readyQueue', thr')
    <3>1. Holds(thr'[w], t) /\ ~Frees(thr'[w], t) /\ thr'[w].eid = r.eid
      BY <1>6, <1>9, <1>11 DEF Holds, Frees, ResultPCs
    <3>2. ~Listed(readyQueue', t)
      BY <1>3, <1>7 DEF InQueue, Listed
    <3>3. \A x \in Threads : x # w => ~Keeps(thr'[x], t)
      BY ZenonT(30), <1>3, <1>11
    <3>4. "COMPLETE" \in StatesAt(thr'[w].pc) /\ thr'[w].pc \notin BeforeTx
      BY <1>6, <1>11 DEF StatesAt, BeforeTx
    <3>5. r.eid # Nil
      BY <1>3, <1>6
    <3> QED
      BY ZenonT(30), <3>1, <3>2, <3>3, <3>4, <3>5, HoldFit
  <2>3. runningTasks'[t] = w /\ assignedTasks'[t] = r.eid /\ taskState'[t] = "COMPLETE"
    BY ZenonT(30), <1>3, <1>6, <1>7, <1>10
  <2> QED
    BY ZenonT(30), <2>1, <2>2, <2>3 DEF TokenOK
<1>13. ASSUME NEW u \in o PROVE Moves(u) /\ TokenOK(u)' /\ Enters(u)
  <2>1. Moves(u) /\ Enters(u)
    BY ZenonT(30), <1>8, <1>9, <1>10 DEF Moves, Enters
  <2>2. ~InQueue(u) /\ runningTasks[u] = Nil /\ assignedTasks[u] = Nil /\ \A x \in Threads : ~Keeps(thr[x], u)
    <3>1. u \in Tasks /\ TokenOK(u) /\ taskState[u] \in {"PENDING", "ABSENT"}
      BY <1>9 DEF TokenInv
    <3> QED
      BY ZenonT(30), <3>1, PendingUntouched, TouchedKept
  <2>3. TokenFit(u, "QUEUED", execID'[u], Nil, Nil, readyQueue', thr')
    <3>1. ~Holds(thr'[w], u)
      BY <1>6, <1>9, <1>11 DEF Holds
    <3>2. ~Listed(readyQueue', u)
      BY <1>7, <2>2 DEF InQueue, Listed
    <3>3. \A x \in Threads : x # w => ~Keeps(thr'[x], u)
      BY ZenonT(30), <1>11, <2>2
    <3> QED
      BY ZenonT(30), <3>1, <3>2, <3>3, FreesFit
  <2>4. runningTasks'[u] = Nil /\ assignedTasks'[u] = Nil /\ taskState'[u] = "QUEUED"
    BY ZenonT(30), <1>7, <1>9, <1>10, <2>2
  <2> QED
    BY ZenonT(30), <2>1, <2>3, <2>4 DEF TokenOK
<1> DEFINE U == {t} \cup o
<1>14. \A u \in Tasks : u \in U => Moves(u) /\ TokenOK(u)' /\ Enters(u)
  BY ZenonT(30), <1>12, <1>13
<1>15. \A u \in Tasks : u \notin U => Same(u) /\ NoMore(thr[w], r, u)
  <2>1. \A u \in Tasks : InQueue(u)' => InQueue(u)
    BY <1>7 DEF InQueue
  <2>2. \A u \in Tasks : u \notin U => NoMore(thr[w], r, u)
    BY <1>1, <1>6 DEF NoMore, Holds, Frees, Lists, Appends
  <2> QED
    BY ZenonT(30), <1>7, <1>10, <2>1, <2>2, SameData
<1> HIDE DEF U
<1>16. QueueDistinct' /\ MapsOK'
  BY <1>7, MapsStay DEF TokenInv, QueueDistinct
<1>17. WalkFit(r, taskState)
  BY <1>6 DEF WalkFit
<1> QED
  BY ZenonT(30), <1>2, <1>5, <1>8, <1>14, <1>15, <1>16, <1>17, ThreadStep

\* delete on both maps.
LEMMA ForgetMaps ==
    ASSUME TypeInv, NEW t \in Tasks, Forget(t)
    PROVE  /\ runningTasks'[t] = Nil /\ assignedTasks'[t] = Nil
           /\ \A u \in Tasks : u # t => runningTasks'[u] = runningTasks[u] /\ assignedTasks'[u] = assignedTasks[u]
           /\ MapsOK /\ (up => up') /\ held' \subseteq held => MapsOK'
<1>1. /\ runningTasks'[t] = Nil /\ assignedTasks'[t] = Nil
      /\ \A u \in Tasks : u # t => runningTasks'[u] = runningTasks[u] /\ assignedTasks'[u] = assignedTasks[u]
  BY DEF Forget, TypeInv, TypeOK
<1> QED
  BY ZenonT(30), <1>1, MapsStay

LEMMA CompleteCleanToken ==
    ASSUME TypeInv, TypeInv', TokenInv, NEW w \in Workers, CompleteTaskClean(w)
    PROVE  TokenKept
<1>1. PICK t, o : t = thr[w].task /\ o = thr[w].out
  BY ZenonT(30)
<1>2. /\ thr[w].pc = "ctClean" /\ w \in Threads /\ thr[w] \in ThreadState /\ thr[w].pc \in ResultPCs
      /\ o \in SUBSET Tasks
  BY <1>1, ThreadsType, LocalsType DEF CompleteTaskClean, At, ResultPCs, ThreadState
<1>3. /\ t \in Tasks /\ ~InQueue(t) /\ t \notin o /\ \A x \in Threads : x # w => ~Keeps(thr[x], t)
  BY ZenonT(30), <1>1, <1>2, HeldTask DEF Frees
<1>4. PICK r : Becomes(w, r) /\ r.pc \in Free \ {"skip", "skipWrite"}
  <2> DEFINE c == [Idle EXCEPT !.pc = "chkDone", !.wf = WfOf[t]]
  <2>1. c.pc \in Free \ {"skip", "skipWrite"}
    BY DEF Idle, Free, PCs, ResultPCs
  <2>2. Becomes(w, c) \/ Becomes(w, Idle)
    BY <1>1 DEF CompleteTaskClean, Return
  <2> HIDE DEF c
  <2> QED
    BY ZenonT(30), <2>1, <2>2, IdleFree
<1>5. /\ UNCHANGED <<taskState, execID, inDegree, held>> /\ up' = up /\ Forget(t)
  BY <1>1 DEF CompleteTaskClean, dbVars, envVars
<1>6. thr'[w] = r /\ \A x \in Threads : x # w => thr'[x] = thr[x]
  BY ZenonT(30), <1>2, <1>4 DEF Becomes, TypeInv, TypeOK
<1>7. \A u \in o : u \in Tasks /\ TokenOK(u) /\ Frees(thr[w], u)
  BY <1>1, <1>2 DEF Frees, TokenInv
<1>8. \A u \in o : /\ runningTasks[u] = Nil /\ assignedTasks[u] = Nil /\ ~InQueue(u)
                   /\ taskState[u] \in {"QUEUED", "SKIPPED"}
                   /\ \A x \in Threads : Keeps(thr[x], u) => w = x
                   /\ Placed(u)
  <2> TAKE u \in o
  <2>1. Placed(u)
    BY ZenonT(30), <1>2, <1>7, TouchedKept, KeepsParts DEF Placed
  <2> QED
    BY ZenonT(30), <1>2, <1>7, <2>1, OnePlace, PlaceStates
<1>9. QueueDistinct' /\ \A u \in Tasks : InQueue(u)' <=> InQueue(u) \/ u \in o
  <2>1. PICK q \in Orders(o) : readyQueue' = readyQueue \o q
    BY <1>1 DEF CompleteTaskClean
  <2>2. QueueDistinct /\ \A u \in o : ~InQueue(u)
    BY ZenonT(30), <1>8 DEF TokenInv
  <2> QED
    BY ZenonT(30), <1>2, <2>1, <2>2, OrderedDistinct
<1>10. /\ runningTasks'[t] = Nil /\ assignedTasks'[t] = Nil
       /\ \A u \in Tasks : u # t => runningTasks'[u] = runningTasks[u] /\ assignedTasks'[u] = assignedTasks[u]
       /\ MapsOK'
  BY ZenonT(30), <1>3, <1>5, ForgetMaps DEF TokenInv
<1>11. \A u : ~Keeps(r, u)
  BY ZenonT(30), <1>4, FreeKeepsNone, KeepsParts
<1>12. Moves(t) /\ TokenOK(t)' /\ Enters(t)
  <2>1. ~InQueue(t)'
    BY <1>3, <1>9
  <2>2. \A x \in Threads : ~Keeps(thr'[x], t)
    BY ZenonT(30), <1>3, <1>6, <1>11
  <2> QED
    BY ZenonT(30), <1>3, <1>5, <1>10, <2>1, <2>2, ClearFits DEF Moves
<1>13. ASSUME NEW u \in o PROVE Moves(u) /\ TokenOK(u)' /\ Enters(u)
  <2>1. Moves(u) /\ Enters(u)
    BY ZenonT(30), <1>5, <1>8, <1>13 DEF Moves, Enters
  <2>2. \A x \in Threads : ~Keeps(thr'[x], u)
    BY ZenonT(30), <1>6, <1>8, <1>11
  <2>3. TokenFit(u, taskState[u], execID'[u], Nil, Nil, readyQueue', thr')
    BY ZenonT(30), <1>8, <2>2, QueueFit
  <2>4. runningTasks'[u] = Nil /\ assignedTasks'[u] = Nil /\ taskState'[u] = taskState[u]
    BY ZenonT(30), <1>2, <1>3, <1>5, <1>8, <1>10
  <2> QED
    BY ZenonT(30), <2>1, <2>3, <2>4 DEF TokenOK
<1> DEFINE U == {t} \cup o
<1>14. \A u \in Tasks : u \in U => Moves(u) /\ TokenOK(u)' /\ Enters(u)
  BY ZenonT(30), <1>12, <1>13
<1>15. \A u \in Tasks : u \notin U => Same(u) /\ NoMore(thr[w], r, u)
  <2>1. \A u \in Tasks : u \notin U => NoMore(thr[w], r, u)
    BY ZenonT(30), <1>1, <1>2, <1>4, HoldNoMore
  <2> QED
    BY ZenonT(30), <1>5, <1>9, <1>10, <2>1, SameData
<1> HIDE DEF U
<1>16. InDegreeExact' /\ WalkFit(r, taskState)
  BY ZenonT(30), <1>4, <1>5, InDegreeStays DEF TokenInv, WalkFit
<1> QED
  BY ZenonT(30), <1>2, <1>4, <1>9, <1>10, <1>14, <1>15, <1>16, ThreadStep

LEMMA CheckToken ==
    ASSUME TypeInv, TypeInv', TokenInv, NEW w \in Workers, CheckDone(w) \/ CheckStatuses(w)
    PROVE  TokenKept
<1>1. w \in Threads /\ thr[w] \in ThreadState /\ thr[w].pc \notin ResultPCs
  BY ThreadsType, LocalsType DEF CheckDone, CheckStatuses, At, ResultPCs
<1>2. UNCHANGED <<taskState, execID, inDegree, readyQueue, runningTasks, assignedTasks, held>> /\ (up => up')
  BY DEF CheckDone, CheckStatuses, dbVars, memVars, envVars
<1> DEFINE c == [thr[w] EXCEPT !.pc = "chkStatus"]
           f == FinalState(thr[w].wf)
           d == [thr[w] EXCEPT !.pc = "setState", !.fin = f]
<1>3. Becomes(w, c) \/ Becomes(w, d) \/ Becomes(w, Idle)
  BY DEF CheckDone, CheckStatuses, Goto, Return
<1>4. c.pc = "chkStatus" /\ d.pc = "setState"
  <2> HIDE DEF f
  <2> QED
    BY <1>1 DEF ThreadState
<1> HIDE DEF c, d
<1>5. c.pc \in Free \ {"skip", "skipWrite"} /\ d.pc \in Free \ {"skip", "skipWrite"}
  BY <1>4 DEF Free, PCs, ResultPCs
<1> QED
  BY ZenonT(30), <1>1, <1>2, <1>3, <1>5, IdleFree, FreeStep

LEMMA FailHoldToken ==
    ASSUME TypeInv, TypeInv', TokenInv, NEW w \in Workers,
           FailTaskRead(w) \/ FailTaskRequeue(w) \/ FailTaskFail(w)
    PROVE  TokenKept
<1>1. PICK t : t = thr[w].task
  BY ZenonT(30)
<1>2. w \in Threads /\ thr[w] \in ThreadState /\ StoreTypeOK
  BY ThreadsType, LocalsType
<1>3. thr[w].pc \in {"ftRead", "ftRequeue", "ftFail"} /\ thr[w].pc \in ResultPCs /\ thr[w].pc \in BeforeTx
  BY DEF FailTaskRead, FailTaskRequeue, FailTaskFail, At, ResultPCs, BeforeTx
<1>4. t \in Tasks /\ taskState[t] \in {"RUNNING", "SKIPPED"} /\ execID[t] = thr[w].eid
  <2>1. taskState[t] \in StatesAt(thr[w].pc) /\ t \in Tasks /\ execID[t] = thr[w].eid
    BY ZenonT(30), <1>1, <1>3, HeldTask
  <2> QED
    BY ZenonT(30), <1>3, <2>1 DEF StatesAt
<1>5. UNCHANGED <<inDegree, readyQueue, runningTasks, assignedTasks, held>> /\ (up => up')
  BY DEF FailTaskRead, FailTaskRequeue, FailTaskFail, TxRequeueTask, TxFailTask, dbVars, memVars, envVars
<1>6. CASE FailTaskRead(w)
  <2> DEFINE n == attempts[t] + 1
             p == IF n < RetryLimit(t) THEN "ftRequeue" ELSE "ftFail"
             r == [thr[w] EXCEPT !.att = n, !.pc = p]
  <2>1. p \in {"ftRequeue", "ftFail"}
    OBVIOUS
  <2>2. Becomes(w, r) /\ UNCHANGED <<taskState, execID>>
    BY <1>1, <1>6 DEF FailTaskRead, dbVars
  <2> HIDE DEF p, n
  <2>3. r.pc \in {"ftRequeue", "ftFail"} /\ r.task = t /\ r.eid = thr[w].eid
    BY ZenonT(30), <1>1, <1>2, <2>1 DEF ThreadState
  <2> HIDE DEF r
  <2>4. /\ r.pc \in ResultPCs \ {"ctClean"} /\ taskState'[t] \in StatesAt(r.pc)
        /\ execID'[t] = r.eid
    BY ZenonT(30), <1>4, <2>2, <2>3 DEF ResultPCs, StatesAt, BeforeTx
  <2>5. \A u \in Tasks : taskState'[u] = taskState[u] /\ execID'[u] = execID[u]
    BY <2>2
  <2> QED
    BY ZenonT(30), <1>1, <1>3, <1>4, <1>5, <2>2, <2>3, <2>4, <2>5, HoldStep
<1>7. CASE FailTaskRequeue(w)
  <2> DEFINE r == [thr[w] EXCEPT !.pc = "ftRequeued"]
  <2>1. Becomes(w, r) /\ TxRequeueTask(t)
    BY <1>1, <1>7 DEF FailTaskRequeue, Goto
  <2>2. r.pc = "ftRequeued" /\ r.task = t /\ r.eid = thr[w].eid
    BY <1>1, <1>2 DEF ThreadState
  <2> HIDE DEF r
  <2>3. /\ taskState'[t] = "QUEUED"
        /\ \A u \in Tasks : u # t => taskState'[u] = taskState[u] /\ execID'[u] = execID[u]
    BY ZenonT(30), <1>2, <1>4, <2>1 DEF TxRequeueTask, StoreTypeOK
  <2>4. r.pc \in ResultPCs \ {"ctClean"} /\ taskState'[t] \in StatesAt(r.pc) /\ r.pc \notin BeforeTx
    BY <2>2, <2>3 DEF ResultPCs, StatesAt, BeforeTx
  <2>5. taskState[t] \notin {"COMPLETE", "FAILED"} /\ taskState'[t] \in {"QUEUED", "FAILED"}
    BY ZenonT(30), <1>4, <2>3
  <2> QED
    BY ZenonT(30), <1>1, <1>3, <1>5, <2>1, <2>2, <2>3, <2>4, <2>5, HoldStep
<1>8. CASE FailTaskFail(w)
  <2> DEFINE r == [thr[w] EXCEPT !.pc = "ftFailed"]
  <2>1. Becomes(w, r) /\ TxFailTask(t, thr[w].att)
    BY <1>1, <1>8 DEF FailTaskFail, Goto
  <2>2. r.pc = "ftFailed" /\ r.task = t /\ r.eid = thr[w].eid
    BY <1>1, <1>2 DEF ThreadState
  <2> HIDE DEF r
  <2>3. /\ taskState'[t] = "FAILED"
        /\ \A u \in Tasks : u # t => taskState'[u] = taskState[u] /\ execID'[u] = execID[u]
    BY ZenonT(30), <1>2, <1>4, <2>1 DEF TxFailTask, StoreTypeOK
  <2>4. r.pc \in ResultPCs \ {"ctClean"} /\ taskState'[t] \in StatesAt(r.pc) /\ r.pc \notin BeforeTx
    BY <2>2, <2>3 DEF ResultPCs, StatesAt, BeforeTx
  <2>5. taskState[t] \notin {"COMPLETE", "FAILED"} /\ taskState'[t] \in {"QUEUED", "FAILED"}
    BY <1>4, <2>3
  <2> QED
    BY ZenonT(30), <1>1, <1>3, <1>5, <2>1, <2>2, <2>3, <2>4, <2>5, HoldStep
<1> QED
  BY <1>6, <1>7, <1>8

\* The last step of a result: the task leaves the maps, for the queue or for
\* good.
LEMMA LeaveToken ==
    ASSUME TypeInv, TypeInv', TokenInv, NEW w \in Workers, thr[w].pc \in ResultPCs \ {"ctClean"},
           NEW t, t = thr[w].task, NEW r, Becomes(w, r), r.pc \in Free, WalkFit(r, taskState),
           Forget(t), UNCHANGED <<taskState, execID, inDegree, held>>, up' = up,
           \/ UNCHANGED readyQueue
           \/ taskState[t] \in {"QUEUED", "SKIPPED"} /\ readyQueue' = Append(readyQueue, t)
    PROVE  TokenKept
<1>1. /\ t \in Tasks /\ ~InQueue(t) /\ Placed(t) /\ \A x \in Threads : x # w => ~Keeps(thr[x], t)
  BY ZenonT(30), HeldTask
<1>2. w \in Threads /\ thr'[w] = r /\ \A x \in Threads : x # w => thr'[x] = thr[x]
  BY ZenonT(30), ThreadsType DEF Becomes, TypeInv, TypeOK
<1>3. /\ runningTasks'[t] = Nil /\ assignedTasks'[t] = Nil
      /\ \A u \in Tasks : u # t => runningTasks'[u] = runningTasks[u] /\ assignedTasks'[u] = assignedTasks[u]
      /\ MapsOK'
  BY ZenonT(30), <1>1, ForgetMaps DEF TokenInv
<1>4. \A x \in Threads : ~Keeps(thr'[x], t)
  <2>1. ~Keeps(r, t)
    BY ZenonT(30), FreeKeepsNone, KeepsParts
  <2> QED
    BY ZenonT(30), <1>1, <1>2, <2>1
<1>5. /\ QueueDistinct' /\ \A u \in Tasks : u # t /\ InQueue(u)' => InQueue(u)
      /\ InQueue(t)' => taskState[t] \in {"QUEUED", "SKIPPED"}
  <2>1. CASE UNCHANGED readyQueue
    BY ZenonT(30), <1>1, <2>1 DEF TokenInv, QueueDistinct, InQueue
  <2>2. CASE taskState[t] \in {"QUEUED", "SKIPPED"} /\ readyQueue' = Append(readyQueue, t)
    BY ZenonT(30), <1>1, <2>2, AppendDistinct DEF TokenInv
  <2> QED
    BY ZenonT(30), <2>1, <2>2
<1>6. Moves(t) /\ Enters(t)
  BY ZenonT(30), <1>1 DEF Moves, Enters
<1>7. TokenOK(t)'
  <2>1. CASE InQueue(t)'
    <3>1. TokenFit(t, taskState[t], execID[t], Nil, Nil, readyQueue', thr')
      BY ZenonT(30), <1>4, <1>5, <2>1, QueueFit
    <3> QED
      BY ZenonT(30), <1>3, <3>1 DEF TokenOK
  <2>2. CASE ~InQueue(t)'
    BY ZenonT(30), <1>1, <1>3, <1>4, <2>2, ClearFits
  <2> QED
    BY ZenonT(30), <2>1, <2>2
<1>8. \A u \in Tasks : u # t => Same(u) /\ NoMore(thr[w], r, u)
  BY ZenonT(30), <1>3, <1>5, HoldNoMore, SameData
<1>9. InDegreeExact'
  BY ZenonT(30), InDegreeStays DEF TokenInv
<1> QED
  BY ZenonT(30), <1>1, <1>2, <1>3, <1>5, <1>6, <1>7, <1>8, <1>9, TaskStep

\* A task below one that is not COMPLETE has not been unlocked.
LEMMA BelowIsBlocked ==
    ASSUME TypeInv, SubmitInv, TokenInv, NEW t \in Tasks, taskState[t] \notin {"COMPLETE", "ABSENT"},
           NEW u \in Downstream(t)
    PROVE  u \in Tasks /\ t \in Deps[u] /\ taskState[u] \in {"PENDING", "SKIPPED"}
<1>1. u \in Tasks /\ t \in Deps[u] /\ WfOf[u] = WfOf[t]
  BY StoreAssumption DEF Downstream
<1>2. ~Placed(u)
  BY <1>1 DEF TokenInv, PlacedIsReady
<1>3. taskState[u] # "ABSENT"
  BY <1>1 DEF SubmitInv, RecordsAppearTogether
<1>4. taskState[u] \in TaskStates \cup {"ABSENT"}
  BY ZenonT(30), <1>1 DEF TypeInv, TypeOK, StoreTypeOK
<1> QED
  BY ZenonT(30), <1>1, <1>2, <1>3, <1>4 DEF Placed, TaskStates

LEMMA FailLeaveToken ==
    ASSUME TypeInv, TypeInv', SubmitInv, TokenInv, NEW w \in Workers, FailTaskRequeued(w) \/ FailTaskFailed(w)
    PROVE  TokenKept
<1>1. PICK t : t = thr[w].task
  BY ZenonT(30)
<1>2. thr[w].pc \in {"ftRequeued", "ftFailed"} /\ thr[w].pc \in ResultPCs \ {"ctClean"} /\ thr[w].pc \in ResultPCs
  BY DEF FailTaskRequeued, FailTaskFailed, At, ResultPCs
<1>3. t \in Tasks /\ taskState[t] \in StatesAt(thr[w].pc)
  BY ZenonT(30), <1>1, <1>2, HeldTask
<1>4. UNCHANGED <<taskState, execID, inDegree, held>> /\ up' = up /\ Forget(t)
  BY <1>1 DEF FailTaskRequeued, FailTaskFailed, dbVars, envVars
<1>5. CASE FailTaskRequeued(w)
  <2>1. Becomes(w, Idle) /\ readyQueue' = Append(readyQueue, t)
    BY <1>1, <1>5 DEF FailTaskRequeued, Return
  <2>2. taskState[t] \in {"QUEUED", "SKIPPED"}
    BY ZenonT(30), <1>3, <1>5 DEF FailTaskRequeued, At, StatesAt, BeforeTx
  <2>3. Idle.pc \in Free /\ WalkFit(Idle, taskState)
    BY IdleFree DEF WalkFit
  <2> QED
    BY ZenonT(30), <1>1, <1>2, <1>4, <2>1, <2>2, <2>3, LeaveToken
<1>6. CASE FailTaskFailed(w)
  <2>1. taskState[t] = "FAILED"
    BY <1>3, <1>6 DEF FailTaskFailed, At, StatesAt, BeforeTx
  <2>2. PICK d : d = Downstream(t)
    BY ZenonT(30)
  <2> DEFINE c == [Idle EXCEPT !.pc = "cancelTx", !.wf = WfOf[t], !.fin = "FAILED"]
             s == [Idle EXCEPT !.pc = "skip", !.wf = WfOf[t], !.todo = d, !.seen = d]
  <2>3. c.pc = "cancelTx" /\ s.pc = "skip" /\ s.seen = d
    BY ZenonT(30) DEF Idle
  <2>4. Becomes(w, Idle) \/ Becomes(w, c) \/ Becomes(w, s)
    BY <1>1, <1>6, <2>2 DEF FailTaskFailed, Return
  <2>5. UNCHANGED readyQueue
    BY <1>6 DEF FailTaskFailed
  <2> HIDE DEF c, s
  <2>6. c.pc \in Free /\ s.pc \in Free /\ Idle.pc \in Free
    BY <2>3, IdleFree DEF Free, PCs, ResultPCs
  <2>7. WalkFit(c, taskState) /\ WalkFit(Idle, taskState)
    BY <2>3, IdleFree DEF WalkFit
  <2>8. WalkFit(s, taskState)
    <3>1. \A u \in d : taskState[u] \in {"PENDING", "SKIPPED"} /\ t \in Deps[u]
      BY ZenonT(30), <1>3, <2>1, <2>2, BelowIsBlocked
    <3> QED
      BY <2>1, <2>3, <3>1 DEF WalkFit
  <2> QED
    BY ZenonT(30), <1>1, <1>2, <1>4, <2>4, <2>5, <2>6, <2>7, <2>8, LeaveToken
<1> QED
  BY <1>5, <1>6

LEMMA SkipToken ==
    ASSUME TypeInv, TypeInv', SubmitInv, TokenInv, NEW w \in Workers, SkipVisit(w) \/ SkipWrite(w) \/ SkipDone(w)
    PROVE  TokenKept
<1>0. w \in Threads /\ thr[w] \in ThreadState /\ StoreTypeOK
  BY ThreadsType, LocalsType
<1>1. /\ thr[w].pc \in {"skip", "skipWrite"} /\ thr[w].pc \notin ResultPCs
      /\ thr[w].todo \subseteq thr[w].seen /\ thr[w].seen \in SUBSET Tasks
      /\ thr[w].pc = "skipWrite" => thr[w].task \in thr[w].seen
  <2>1. thr[w].pc \in {"skip", "skipWrite"}
    BY ZenonT(30) DEF SkipVisit, SkipWrite, SkipDone, At
  <2> QED
    BY ZenonT(30), <1>0, <2>1 DEF SubmitInv, WalksStayBelow, ThreadState, ResultPCs
<1>2. WalkFit(thr[w], taskState) /\ \A t \in thr[w].seen : taskState[t] \in {"PENDING", "SKIPPED"}
  BY ZenonT(30), <1>0, <1>1 DEF TokenInv, WalkFit
<1>3. UNCHANGED <<execID, inDegree, readyQueue, runningTasks, assignedTasks, held>> /\ (up => up')
  <2>1. UNCHANGED <<execID, inDegree, memVars, envVars>>
    BY ZenonT(30) DEF SkipVisit, SkipWrite, SkipDone, TxUpdateTaskState, dbVars
  <2> QED
    BY <2>1 DEF memVars, envVars
<1>4. (\A t \in Tasks : InQueue(t)' => InQueue(t)) /\ QueueDistinct'
  BY <1>3 DEF InQueue, TokenInv, QueueDistinct
<1>5. "skip" \in Free /\ "skipWrite" \in Free
  BY ZenonT(30) DEF Free, PCs, ResultPCs
<1>6. UNCHANGED <<execID, inDegree, runningTasks, assignedTasks, held>>
  BY <1>3
<1>7. CASE SkipVisit(w)
  <2>1. PICK u \in thr[w].todo :
          LET new == Downstream(u) \ thr[w].seen IN
          Becomes(w, [thr[w] EXCEPT
                          !.todo = (@ \ {u}) \cup new, !.seen = @ \cup new, !.task = u,
                          !.pc = IF taskState[u] \in Terminal THEN "skip" ELSE "skipWrite"])
    BY ZenonT(30), <1>7 DEF SkipVisit
  <2> DEFINE new == Downstream(u) \ thr[w].seen
             td == (thr[w].todo \ {u}) \cup new
             sn == thr[w].seen \cup new
             p == IF taskState[u] \in Terminal THEN "skip" ELSE "skipWrite"
             r == [thr[w] EXCEPT !.todo = td, !.seen = sn, !.task = u, !.pc = p]
  <2>2. u \in Tasks /\ u \in thr[w].seen /\ taskState[u] \in {"PENDING", "SKIPPED"}
    BY <1>1, <1>2, <2>1
  <2>3. \A t \in new : taskState[t] \in {"PENDING", "SKIPPED"} /\ u \in Deps[t]
    BY ZenonT(30), <2>2, BelowIsBlocked
  <2>4. p \in {"skip", "skipWrite"}
    BY ZenonT(30)
  <2>5. \A t \in sn : /\ taskState[t] \in {"PENDING", "SKIPPED"}
                      /\ \E d \in Deps[t] : d \in sn \/ taskState[d] = "FAILED"
    <3> HIDE DEF new
    <3>1. \A t \in thr[w].seen : \E d \in Deps[t] : d \in sn \/ taskState[d] = "FAILED"
      BY ZenonT(30), <1>1, <1>2 DEF WalkFit
    <3>2. \A t \in new : \E d \in Deps[t] : d \in sn
      BY ZenonT(30), <2>2, <2>3
    <3> QED
      BY ZenonT(30), <1>2, <2>3, <3>1, <3>2
  <2>6. Becomes(w, r) /\ UNCHANGED taskState
    BY ZenonT(30), <1>7, <2>1 DEF SkipVisit, dbVars
  <2> HIDE DEF td, sn, p
  <2>7. r.pc = p /\ r.seen = sn
    BY ZenonT(30), <1>0 DEF ThreadState
  <2> HIDE DEF r
  <2>8. WalkFit(r, taskState)
    BY <2>5, <2>7 DEF WalkFit
  <2>9. \A t \in Tasks : NoMore(thr[w], r, t)
    BY ZenonT(30), <1>1, <1>5, <2>4, <2>7, FreeNoMore
  <2>10. \A t \in Tasks : taskState'[t] = taskState[t]
    BY ZenonT(30), <2>6
  <2> QED
    BY ZenonT(30), <1>0, <1>3, <1>4, <1>6, <2>6, <2>8, <2>9, <2>10, PlainStep
<1>8. CASE SkipWrite(w)
  <2> DEFINE u == thr[w].task
             o == thr[w].out \cup {u}
             r == [thr[w] EXCEPT !.pc = "skip", !.out = o]
  <2>1. u \in Tasks /\ taskState[u] \in {"PENDING", "SKIPPED"}
    BY <1>1, <1>2, <1>8 DEF SkipWrite, At
  <2>2. \A t \in Tasks : taskState'[t] = IF t = u THEN "SKIPPED" ELSE taskState[t]
    BY <1>0, <1>8, <2>1 DEF SkipWrite, TxUpdateTaskState, StoreTypeOK
  <2>3. Becomes(w, r)
    BY <1>8 DEF SkipWrite
  <2> HIDE DEF o
  <2>4. r.pc = "skip" /\ r.seen = thr[w].seen
    BY ZenonT(30), <1>0 DEF ThreadState
  <2> HIDE DEF r, u
  <2>5. WalkFit(r, taskState)
    BY ZenonT(30), <1>1, <1>2, <2>4 DEF WalkFit
  <2>6. \A t \in Tasks : NoMore(thr[w], r, t)
    BY ZenonT(30), <1>1, <1>5, <2>4, FreeNoMore
  <2>7. \A t \in Tasks : \/ taskState'[t] = taskState[t]
                         \/ taskState'[t] = "SKIPPED" /\ taskState[t] \notin {"COMPLETE", "FAILED"}
    BY <2>1, <2>2
  <2> QED
    BY ZenonT(30), <1>0, <1>3, <1>4, <1>6, <2>3, <2>5, <2>6, <2>7, PlainStep
<1>9. CASE SkipDone(w)
  <2> DEFINE p == IF thr[w].out = {} THEN "chkDone" ELSE "filter"
             r == [thr[w] EXCEPT !.pc = p]
  <2>1. p \in {"chkDone", "filter"}
    OBVIOUS
  <2>2. Becomes(w, r) /\ UNCHANGED taskState
    BY <1>9 DEF SkipDone, Goto, dbVars
  <2> HIDE DEF p
  <2>3. r.pc = p
    BY <1>0 DEF ThreadState
  <2> HIDE DEF r
  <2>4. r.pc \in Free \ {"skip", "skipWrite"}
    BY <2>1, <2>3 DEF Free, PCs, ResultPCs
  <2>5. UNCHANGED <<taskState, execID, inDegree, readyQueue, runningTasks, assignedTasks, held>>
    BY <1>3, <2>2
  <2> QED
    BY ZenonT(30), <1>0, <1>1, <1>3, <2>2, <2>4, <2>5, FreeStep
<1> QED
  BY <1>7, <1>8, <1>9

LEMMA CancelToken ==
    ASSUME TypeInv, TypeInv', TokenInv, NEW x \in Workers \cup Clients, CancelStep(x)
    PROVE  TokenKept
<1>0. x \in Threads /\ thr[x] \in ThreadState /\ thr[x].pc \notin ResultPCs
  BY ThreadsType, LocalsType DEF CancelStep, CancelTasks, FilterQueue, SetWorkflowState, At, ResultPCs
<1>1. UNCHANGED <<execID, inDegree, runningTasks, assignedTasks, held>> /\ (up => up')
  BY DEF CancelStep, CancelTasks, FilterQueue, SetWorkflowState, TxCancelWorkflowTasks, TxSetWorkflowState,
         taskVars, dbVars, memVars, envVars
<1>2. CASE CancelTasks(x)
  <2> DEFINE o == Cancellable(thr[x].wf)
             r == [thr[x] EXCEPT !.pc = "filter", !.out = o]
  <2>1. Becomes(x, r) /\ UNCHANGED readyQueue
    BY <1>2 DEF CancelTasks, memVars
  <2>2. \A t \in Tasks : \/ taskState'[t] = taskState[t]
                         \/ taskState'[t] = "SKIPPED" /\ taskState[t] \notin {"COMPLETE", "FAILED"}
    BY <1>2 DEF CancelTasks, TxCancelWorkflowTasks, Cancellable, Terminal
  <2> HIDE DEF o
  <2>3. r.pc = "filter"
    BY ZenonT(30), <1>0 DEF ThreadState
  <2> HIDE DEF r
  <2>4. WalkFit(r, taskState) /\ r.pc \in Free
    BY <2>3 DEF WalkFit, Free, PCs, ResultPCs
  <2>5. \A t \in Tasks : NoMore(thr[x], r, t)
    BY <1>0, <2>4, FreeNoMore
  <2>6. (\A t \in Tasks : InQueue(t)' => InQueue(t)) /\ QueueDistinct'
    BY <2>1 DEF InQueue, TokenInv, QueueDistinct
  <2> QED
    BY ZenonT(30), <1>0, <1>1, <2>1, <2>2, <2>4, <2>5, <2>6, PlainStep
<1>3. CASE FilterQueue(x)
  <2> DEFINE p == IF thr[x].fin = Nil THEN "chkDone" ELSE "setState"
             r == [thr[x] EXCEPT !.pc = p]
  <2>1. p \in {"chkDone", "setState"}
    OBVIOUS
  <2>2. Becomes(x, r) /\ readyQueue' = Without(readyQueue, thr[x].out) /\ UNCHANGED taskState
    BY <1>3 DEF FilterQueue, Goto, dbVars
  <2> HIDE DEF p
  <2>3. r.pc = p
    BY <1>0 DEF ThreadState
  <2> HIDE DEF r
  <2>4. WalkFit(r, taskState) /\ r.pc \in Free
    BY ZenonT(30), <2>1, <2>3 DEF WalkFit, Free, PCs, ResultPCs
  <2>5. \A t \in Tasks : NoMore(thr[x], r, t)
    BY <1>0, <2>4, FreeNoMore
  <2>6. (\A t \in Tasks : InQueue(t)' => InQueue(t)) /\ QueueDistinct'
    BY <2>2, WithoutDistinct DEF TokenInv
  <2>7. \A t \in Tasks : taskState'[t] = taskState[t]
    BY <2>2
  <2> QED
    BY ZenonT(30), <1>0, <1>1, <2>2, <2>4, <2>5, <2>6, <2>7, PlainStep
<1>4. CASE SetWorkflowState(x)
  <2>1. Becomes(x, Idle) /\ UNCHANGED <<taskState, readyQueue>>
    BY <1>4 DEF SetWorkflowState, TxSetWorkflowState, Return, taskVars, memVars
  <2>2. UNCHANGED <<taskState, execID, inDegree, readyQueue, runningTasks, assignedTasks, held>>
    BY <1>1, <2>1
  <2> QED
    BY ZenonT(30), <1>0, <1>1, <2>1, <2>2, IdleFree, FreeStep
<1> QED
  BY <1>2, <1>3, <1>4 DEF CancelStep

\* The calls of a client that move no task.
LEMMA CallToken ==
    ASSUME TypeInv, TypeInv', TokenInv, NEW c \in Clients,
           \/ SubmitWorkflow(c) \/ CancelWorkflow(c) \/ SubmitInitWorkflow(c) \/ SubmitLock(c) \/ SubmitReturn(c)
    PROVE  TokenKept
<1>0. c \in Threads /\ thr[c] \in ThreadState
  BY ThreadsType, LocalsType
<1>1. thr[c].pc \notin ResultPCs
  BY ZenonT(30) DEF SubmitWorkflow, CancelWorkflow, SubmitInitWorkflow, SubmitLock, SubmitReturn, At, ResultPCs
<1>2. UNCHANGED <<taskState, execID, inDegree, readyQueue, runningTasks, assignedTasks, held>> /\ (up => up')
  <2>1. CASE SubmitWorkflow(c)
    BY ZenonT(30), <2>1 DEF SubmitWorkflow, TxStoreWorkflow, taskVars, memVars, envVars
  <2>2. CASE CancelWorkflow(c)
    BY ZenonT(30), <2>2 DEF CancelWorkflow, dbVars, memVars, envVars
  <2>3. CASE SubmitInitWorkflow(c)
    BY ZenonT(30), <2>3 DEF SubmitInitWorkflow, TxSetWorkflowState, taskVars, memVars, envVars
  <2>4. CASE SubmitLock(c) \/ SubmitReturn(c)
    BY <2>4 DEF SubmitLock, SubmitReturn, dbVars, envVars
  <2> QED
    BY ZenonT(30), <2>1, <2>2, <2>3, <2>4
<1>3. PICK r : Becomes(c, r) /\ r.pc \in {"sbInitWf", "sbInitTasks", "sbQueue", "cancelTx", "idle"}
  <2>1. CASE SubmitWorkflow(c)
    <3>1. PICK wf : Becomes(c, [Idle EXCEPT !.pc = "sbInitWf", !.wf = wf])
      BY ZenonT(30), <2>1 DEF SubmitWorkflow
    <3>2. [Idle EXCEPT !.pc = "sbInitWf", !.wf = wf].pc = "sbInitWf"
      BY DEF Idle
    <3> QED
      BY ZenonT(30), <3>1, <3>2
  <2>2. CASE CancelWorkflow(c)
    <3>1. PICK wf : Becomes(c, [Idle EXCEPT !.pc = "cancelTx", !.wf = wf, !.fin = "CANCELLED"])
      BY ZenonT(30), <2>2 DEF CancelWorkflow
    <3>2. [Idle EXCEPT !.pc = "cancelTx", !.wf = wf, !.fin = "CANCELLED"].pc = "cancelTx"
      BY DEF Idle
    <3> QED
      BY ZenonT(30), <3>1, <3>2
  <2>3. CASE SubmitInitWorkflow(c)
    <3>1. [thr[c] EXCEPT !.pc = "sbInitTasks"].pc = "sbInitTasks"
      BY <1>0 DEF ThreadState
    <3> QED
      BY ZenonT(30), <2>3, <3>1 DEF SubmitInitWorkflow, Goto
  <2>4. CASE SubmitLock(c)
    <3> DEFINE roots == {t \in TasksOf(thr[c].wf) : Deps[t] = {}}
               q == [thr[c] EXCEPT !.pc = "sbQueue", !.todo = roots]
    <3>1. Becomes(c, q)
      BY <2>4 DEF SubmitLock
    <3> HIDE DEF roots
    <3>2. q.pc = "sbQueue"
      BY ZenonT(30), <1>0 DEF ThreadState
    <3> HIDE DEF q
    <3> QED
      BY ZenonT(30), <3>1, <3>2
  <2>5. CASE SubmitReturn(c)
    <3>1. Becomes(c, Idle) /\ Idle.pc = "idle"
      BY ZenonT(30), <2>5 DEF SubmitReturn, Return, Idle
    <3> QED
      BY ZenonT(30), <3>1
  <2> QED
    BY ZenonT(30), <2>1, <2>2, <2>3, <2>4, <2>5
<1>4. r.pc \in Free \ {"skip", "skipWrite"}
  BY <1>3 DEF Free, PCs, ResultPCs
<1> QED
  BY ZenonT(30), <1>0, <1>1, <1>2, <1>3, <1>4, FreeStep

LEMMA InitTasksToken ==
    ASSUME TypeInv, TypeInv', SubmitInv, TokenInv, NEW c \in Clients, SubmitInitTasks(c)
    PROVE  TokenKept
<1>1. PICK wf : wf = thr[c].wf
  BY ZenonT(30)
<1>2. c \in Threads /\ thr[c] \in ThreadState /\ thr[c].pc = "sbInitTasks"
  BY ZenonT(30), ThreadsType, LocalsType DEF SubmitInitTasks, At
<1>3. \A t \in Tasks : WfOf[t] = wf => taskState[t] = "ABSENT" /\ ~Touched(t)
  BY ZenonT(30), <1>1, <1>2 DEF SubmitInv, RecordsAppearTogether, AbsentIsUntouched
<1> DEFINE r == [thr[c] EXCEPT !.pc = "sbLock"]
<1>4. Becomes(c, r) /\ UNCHANGED <<readyQueue, runningTasks, assignedTasks, held, up>> /\ TxInitializeTasks(wf)
  BY <1>1 DEF SubmitInitTasks, Goto, memVars, envVars
<1>5. r.pc = "sbLock"
  BY <1>2 DEF ThreadState
<1> HIDE DEF r
<1>6. \A t \in Tasks : /\ WfOf[t] = wf => taskState'[t] = "PENDING" /\ inDegree'[t] = Cardinality(Deps[t])
                       /\ WfOf[t] # wf => /\ taskState'[t] = taskState[t] /\ execID'[t] = execID[t]
                                          /\ inDegree'[t] = inDegree[t]
  BY ZenonT(30), <1>4 DEF TxInitializeTasks
<1>7. r.pc \in Free /\ thr[c].pc \notin ResultPCs /\ WalkFit(r, taskState)
  BY ZenonT(30), <1>2, <1>5 DEF Free, PCs, ResultPCs, WalkFit
<1>8. \A t \in Tasks : InQueue(t)' <=> InQueue(t)
  BY ZenonT(30), <1>4 DEF InQueue
<1>9. thr'[c] = r /\ \A x \in Threads : x # c => thr'[x] = thr[x]
  BY ZenonT(30), <1>2, <1>4 DEF Becomes, TypeInv, TypeOK
<1> DEFINE U == TasksOf(wf)
<1>10. ASSUME NEW t \in Tasks, t \in U PROVE Moves(t) /\ TokenOK(t)' /\ Enters(t)
  <2>1. WfOf[t] = wf
    BY <1>10 DEF TasksOf
  <2>2. ~InQueue(t) /\ runningTasks[t] = Nil /\ assignedTasks[t] = Nil /\ \A x \in Threads : ~Keeps(thr[x], t)
    BY ZenonT(30), <1>3, <2>1, TouchedKept
  <2>3. \A x \in Threads : ~Keeps(thr'[x], t)
    <3>1. ~Keeps(r, t)
      BY ZenonT(30), <1>7, FreeKeepsNone, KeepsParts
    <3> QED
      BY ZenonT(30), <1>9, <2>2, <3>1
  <2>4. ~InQueue(t)' /\ runningTasks'[t] = Nil /\ assignedTasks'[t] = Nil
    BY ZenonT(30), <1>4, <1>8, <2>2
  <2>5. Moves(t)
    BY ZenonT(30), <1>3, <1>6, <2>1 DEF Moves
  <2> QED
    BY ZenonT(30), <2>3, <2>4, <2>5, ClearFits
<1>11. \A t \in Tasks : t \notin U => Same(t) /\ NoMore(thr[c], r, t)
  BY ZenonT(30), <1>4, <1>6, <1>7, <1>8, FreeNoMore, SameData DEF TasksOf
<1> HIDE DEF U
<1>12. InDegreeExact'
  <2> SUFFICES ASSUME NEW t \in Tasks, taskState'[t] = "PENDING"
               PROVE  inDegree'[t] = Cardinality({d \in Deps[t] : taskState'[d] # "COMPLETE"})
    BY DEF InDegreeExact
  <2>1. \A d \in Deps[t] : d \in Tasks /\ WfOf[d] = WfOf[t]
    BY StoreAssumption
  <2>2. CASE WfOf[t] = wf
    <3>1. {d \in Deps[t] : taskState'[d] # "COMPLETE"} = Deps[t]
      BY ZenonT(30), <1>6, <2>1, <2>2
    <3> QED
      BY ZenonT(30), <1>6, <2>2, <3>1
  <2>3. CASE WfOf[t] # wf
    <3>1. {d \in Deps[t] : taskState'[d] # "COMPLETE"} = {d \in Deps[t] : taskState[d] # "COMPLETE"}
      BY ZenonT(30), <1>6, <2>1, <2>3
    <3> QED
      BY ZenonT(30), <1>6, <2>3, <3>1 DEF TokenInv, InDegreeExact
  <2> QED
    BY ZenonT(30), <2>2, <2>3
<1>13. MapsOK' /\ QueueDistinct'
  BY ZenonT(30), <1>4, MapsStay DEF TokenInv, QueueDistinct
<1> QED
  BY ZenonT(30), <1>2, <1>4, <1>7, <1>10, <1>11, <1>12, <1>13, ThreadStep

\* A task enters the queue as QUEUED, from no place or from a list.
LEMMA EnqueueToken ==
    ASSUME TypeInv, TypeInv', TokenInv, NEW x \in Threads, NEW r, Becomes(x, r), WalkFit(r, taskState),
           NEW t \in Tasks, ~InQueue(t), runningTasks[t] = Nil, assignedTasks[t] = Nil,
           \A y \in Threads : y # x => ~Keeps(thr[y], t), ~Keeps(r, t),
           taskState'[t] \in {"QUEUED", "SKIPPED"}, Moves(t), Enters(t),
           taskState'[t] # taskState[t] => taskState[t] # "COMPLETE",
           \A u \in Tasks : u # t => /\ taskState'[u] = taskState[u] /\ execID'[u] = execID[u]
                                     /\ NoMore(thr[x], r, u),
           readyQueue' = Append(readyQueue, t),
           UNCHANGED <<inDegree, runningTasks, assignedTasks, held>>, up => up'
    PROVE  TokenKept
<1>1. QueueDistinct' /\ \A u \in Tasks : InQueue(u)' <=> InQueue(u) \/ u = t
  BY ZenonT(30), AppendDistinct DEF TokenInv
<1>2. \A y \in Threads : ~Keeps(thr'[y], t)
  BY ZenonT(30) DEF Becomes, TypeInv, TypeOK
<1>3. TokenFit(t, taskState'[t], execID'[t], Nil, Nil, readyQueue', thr')
  BY ZenonT(30), <1>2, QueueFit
<1>4. TokenOK(t)'
  BY ZenonT(30), <1>3 DEF TokenOK
<1>5. \A u \in Tasks : u # t => Same(u) /\ NoMore(thr[x], r, u)
  BY ZenonT(30), <1>1, SameData
<1>6. MapsOK'
  BY ZenonT(30), MapsStay DEF TokenInv
<1>7. InDegreeExact'
  BY ZenonT(30), InDegreeStays DEF TokenInv
<1> QED
  BY ZenonT(30), <1>1, <1>4, <1>5, <1>6, <1>7, TaskStep

LEMMA SubmitQueueToken ==
    ASSUME TypeInv, TypeInv', SubmitInv, TokenInv, NEW c \in Clients, SubmitQueue(c)
    PROVE  TokenKept
<1>1. PICK t \in thr[c].todo :
        /\ TxUpdateTaskState(t, "QUEUED")
        /\ readyQueue' = Append(readyQueue, t)
        /\ Becomes(c, [thr[c] EXCEPT !.todo = @ \ {t}])
  BY ZenonT(30) DEF SubmitQueue
<1>2. c \in Threads /\ thr[c] \in ThreadState /\ thr[c].pc = "sbQueue" /\ t \in Tasks /\ StoreTypeOK
  BY <1>1, ThreadsType, LocalsType DEF SubmitQueue, At, ThreadState
<1>3. Deps[t] = {} /\ ~Touched(t) /\ taskState[t] \in {"PENDING", "SKIPPED"}
  BY <1>1, <1>2 DEF SubmitInv, RootsUntouched, Unqueued
<1> DEFINE r == [thr[c] EXCEPT !.todo = thr[c].todo \ {t}]
<1>4. Becomes(c, r) /\ r.pc = "sbQueue"
  BY <1>1, <1>2 DEF ThreadState
<1> HIDE DEF r
<1>5. UNCHANGED <<inDegree, runningTasks, assignedTasks, held>> /\ (up => up')
  BY <1>1 DEF SubmitQueue, TxUpdateTaskState, envVars
<1>6. /\ taskState'[t] = "QUEUED"
      /\ \A u \in Tasks : u # t => taskState'[u] = taskState[u] /\ execID'[u] = execID[u]
  BY <1>1, <1>2 DEF TxUpdateTaskState, StoreTypeOK
<1>7. r.pc \in Free /\ thr[c].pc \notin ResultPCs /\ WalkFit(r, taskState)
  BY ZenonT(30), <1>2, <1>4 DEF Free, PCs, ResultPCs, WalkFit
<1>8. ~InQueue(t) /\ runningTasks[t] = Nil /\ assignedTasks[t] = Nil /\ \A x \in Threads : ~Keeps(thr[x], t)
  BY ZenonT(30), <1>2, <1>3, TouchedKept
<1>9. ~Keeps(r, t) /\ \A u \in Tasks : NoMore(thr[c], r, u)
  BY ZenonT(30), <1>7, FreeNoMore, FreeKeepsNone, KeepsParts
<1>10. Moves(t) /\ Enters(t)
  BY ZenonT(30), <1>3, <1>6 DEF Moves, Enters
<1>11. taskState'[t] \in {"QUEUED", "SKIPPED"} /\ taskState[t] # "COMPLETE"
  BY ZenonT(30), <1>3, <1>6
<1> QED
  BY ZenonT(30), <1>1, <1>2, <1>4, <1>5, <1>6, <1>7, <1>8, <1>9, <1>10, <1>11, EnqueueToken

\* The first critical section of HandleDeadWorker, when no result of the worker
\* is in progress.
LEMMA DeadWorkerToken ==
    ASSUME Overlap = FALSE, TypeInv, TypeInv', TokenInv, NEW w \in Workers, HandleDeadWorker(w)
    PROVE  TokenKept
<1>1. PICK dead : dead = {t \in Tasks : runningTasks[t] = w}
  BY ZenonT(30)
<1> DEFINE r == [Idle EXCEPT !.pc = "dwRequeue", !.who = w, !.todo = dead]
<1>2. /\ Becomes(Daemon, r) /\ UNCHANGED <<taskState, execID, inDegree, readyQueue, held>> /\ up' = up
      /\ thr[Daemon].pc = "idle" /\ thr[w].pc \notin ResultPCs
      /\ runningTasks' = [t \in Tasks |-> IF t \in dead THEN Nil ELSE runningTasks[t]]
      /\ assignedTasks' = [t \in Tasks |-> IF t \in dead THEN Nil ELSE assignedTasks[t]]
  BY <1>1 DEF HandleDeadWorker, dbVars, envVars, At
<1>3. r.pc = "dwRequeue" /\ r.todo = dead
  BY ZenonT(30) DEF Idle
<1> HIDE DEF r
<1>4. Daemon \in Threads /\ w \in Threads /\ w # Nil
  BY ThreadsType, StoreAssumption
<1>5. thr'[Daemon] = r /\ \A x \in Threads : x # Daemon => thr'[x] = thr[x]
  BY ZenonT(30), <1>2, <1>4 DEF Becomes, TypeInv, TypeOK
<1>6. \A t \in Tasks : /\ t \in dead => runningTasks'[t] = Nil /\ assignedTasks'[t] = Nil
                       /\ t \notin dead => runningTasks'[t] = runningTasks[t] /\ assignedTasks'[t] = assignedTasks[t]
  BY ZenonT(30), <1>2
<1>7. ASSUME NEW t \in Tasks, t \in dead PROVE Moves(t) /\ TokenOK(t)' /\ Enters(t)
  <2>1. runningTasks[t] = w /\ TokenOK(t)
    BY <1>1, <1>7 DEF TokenInv
  <2>2. \A x \in Threads : ~Holds(thr[x], t)
    <3>1. ~Holds(thr[w], t)
      BY <1>2 DEF Holds
    <3> QED
      BY ZenonT(30), <1>4, <2>1, <3>1, OnePlace
  <2>3. ~InQueue(t) /\ taskState[t] \in {"RUNNING", "SKIPPED"} /\ \A x \in Threads : ~Keeps(thr[x], t)
    BY ZenonT(30), <1>4, <2>1, <2>2, OnePlace, PlaceStates, KeepsParts
  <2>4. TokenFit(t, taskState[t], execID[t], Nil, Nil, readyQueue', thr')
    <3>1. ~Listed(readyQueue', t)
      BY ZenonT(30), <1>2, <2>3 DEF InQueue, Listed
    <3>2. ~Holds(thr'[Daemon], t) /\ ~Frees(thr'[Daemon], t) /\ ~Appends(thr'[Daemon], t)
      BY <1>3, <1>5 DEF Holds, Frees, Appends, ResultPCs
    <3>3. \A x \in Threads : x # Daemon => ~Keeps(thr'[x], t)
      BY <1>5, <2>3
    <3> QED
      BY ZenonT(30), <2>3, <3>1, <3>2, <3>3, ListFit
  <2>5. TokenOK(t)'
    BY ZenonT(30), <1>2, <1>6, <1>7, <2>4 DEF TokenOK
  <2>6. Moves(t) /\ Enters(t)
    BY ZenonT(30), <1>2, <1>4, <2>1, TouchedKept DEF Moves, Enters, Placed
  <2> QED
    BY <2>5, <2>6
<1>8. \A t \in Tasks : t \notin dead => Same(t) /\ NoMore(thr[Daemon], r, t)
  <2>1. \A t \in Tasks : t \notin dead => NoMore(thr[Daemon], r, t)
    BY ZenonT(30), <1>2, <1>3 DEF NoMore, Holds, Frees, Lists, Appends, ResultPCs
  <2>2. \A t \in Tasks : InQueue(t)' => InQueue(t)
    BY ZenonT(30), <1>2 DEF InQueue
  <2> QED
    BY ZenonT(30), <1>2, <1>6, <2>1, <2>2, SameData
<1>9. QueueDistinct' /\ MapsOK' /\ InDegreeExact'
  <2>1. MapsOK'
    BY ZenonT(30), <1>2, <1>6, MapsStay DEF TokenInv
  <2> QED
    BY ZenonT(30), <1>2, <2>1, InDegreeStays DEF TokenInv, QueueDistinct
<1>10. WalkFit(r, taskState)
  BY ZenonT(30), <1>3 DEF WalkFit
<1> QED
  BY ZenonT(30), <1>2, <1>4, <1>7, <1>8, <1>9, <1>10, ThreadStep

\* A task on the list of the main goroutine or the monitor is nowhere else.
LEMMA ListedTask ==
    ASSUME TypeInv, TokenInv, NEW t \in Tasks, Lists(thr[Daemon], t) \/ Appends(thr[Daemon], t)
    PROVE  /\ ~InQueue(t) /\ runningTasks[t] = Nil /\ assignedTasks[t] = Nil /\ Placed(t)
           /\ \A x \in Threads : x # Daemon => ~Keeps(thr[x], t)
           /\ Lists(thr[Daemon], t) => taskState[t] \in {"RUNNING", "SKIPPED"} /\ ~Appends(thr[Daemon], t)
           /\ Appends(thr[Daemon], t) => taskState[t] \in {"QUEUED", "SKIPPED"} /\ ~Lists(thr[Daemon], t)
<1>1. Daemon \in Threads /\ TokenOK(t)
  BY ThreadsType DEF TokenInv
<1>2. /\ ~InQueue(t) /\ runningTasks[t] = Nil /\ assignedTasks[t] = Nil
      /\ \A x \in Threads : Keeps(thr[x], t) => Daemon = x
  BY ZenonT(30), <1>1, OnePlace
<1>3. Placed(t)
  BY ZenonT(30), <1>1, TouchedKept, KeepsParts DEF Placed
<1>4. /\ Lists(thr[Daemon], t) => taskState[t] \in {"RUNNING", "SKIPPED"} /\ ~Appends(thr[Daemon], t)
      /\ Appends(thr[Daemon], t) => taskState[t] \in {"QUEUED", "SKIPPED"}
  BY ZenonT(30), <1>1, OnePlace, PlaceStates
<1> QED
  BY ZenonT(30), <1>2, <1>3, <1>4

LEMMA MonitorToken ==
    ASSUME TypeInv, TypeInv', TokenInv, DeadRequeue \/ DeadAppend \/ DeadRemove
    PROVE  TokenKept
<1>0. Daemon \in Threads /\ thr[Daemon] \in ThreadState /\ LocalsFit(Daemon, thr[Daemon]) /\ StoreTypeOK
  BY ThreadsType, LocalsType
<1>1. CASE DeadRequeue
  <2>1. PICK t \in thr[Daemon].todo :
          /\ TxRequeueTask(t)
          /\ Becomes(Daemon, [thr[Daemon] EXCEPT !.pc = "dwAppend", !.task = t, !.todo = @ \ {t}])
    BY ZenonT(30), <1>1 DEF DeadRequeue
  <2>2. PICK rest : rest = thr[Daemon].todo \ {t}
    BY ZenonT(30)
  <2> DEFINE r == [thr[Daemon] EXCEPT !.pc = "dwAppend", !.task = t, !.todo = rest]
  <2>3. thr[Daemon].pc = "dwRequeue" /\ t \in Tasks /\ Lists(thr[Daemon], t)
    BY ZenonT(30), <1>0, <1>1, <2>1 DEF DeadRequeue, At, ThreadState, Lists
  <2>4. Becomes(Daemon, r) /\ UNCHANGED <<inDegree, readyQueue, runningTasks, assignedTasks, held, up>>
    BY ZenonT(30), <1>1, <2>1, <2>2 DEF DeadRequeue, TxRequeueTask, memVars, envVars
  <2>5. r.pc = "dwAppend" /\ r.task = t /\ r.todo = rest
    BY ZenonT(30), <1>0 DEF ThreadState
  <2> HIDE DEF r
  <2>6. /\ taskState'[t] = "QUEUED" /\ execID'[t] = Nil
        /\ \A u \in Tasks : u # t => taskState'[u] = taskState[u] /\ execID'[u] = execID[u]
    BY <1>0, <2>1, <2>3 DEF TxRequeueTask, StoreTypeOK
  <2>7. /\ ~InQueue(t) /\ runningTasks[t] = Nil /\ assignedTasks[t] = Nil /\ Placed(t)
        /\ \A x \in Threads : x # Daemon => ~Keeps(thr[x], t)
        /\ taskState[t] \in {"RUNNING", "SKIPPED"}
    BY ZenonT(30), <2>3, ListedTask
  <2>8. thr'[Daemon] = r /\ \A x \in Threads : x # Daemon => thr'[x] = thr[x]
    BY ZenonT(30), <1>0, <2>4 DEF Becomes, TypeInv, TypeOK
  <2>9. TokenFit(t, "QUEUED", Nil, Nil, Nil, readyQueue', thr')
    <3>1. ~Listed(readyQueue', t)
      BY ZenonT(30), <2>4, <2>7 DEF InQueue, Listed
    <3>2. ~Holds(thr'[Daemon], t) /\ ~Frees(thr'[Daemon], t) /\ ~Lists(thr'[Daemon], t)
      BY ZenonT(30), <2>2, <2>5, <2>8 DEF Holds, Frees, Lists, ResultPCs
    <3>3. \A x \in Threads : x # Daemon => ~Keeps(thr'[x], t)
      BY ZenonT(30), <2>7, <2>8
    <3> QED
      BY ZenonT(30), <3>1, <3>2, <3>3, ListFit
  <2>10. TokenOK(t)'
    BY ZenonT(30), <2>4, <2>6, <2>7, <2>9 DEF TokenOK
  <2>11. Moves(t) /\ Enters(t)
    BY ZenonT(30), <2>6, <2>7 DEF Moves, Enters
  <2>12. \A u \in Tasks : u # t => Same(u) /\ NoMore(thr[Daemon], r, u)
    <3>1. \A u \in Tasks : u # t => NoMore(thr[Daemon], r, u)
      BY ZenonT(30), <2>2, <2>3, <2>5 DEF NoMore, Holds, Frees, Lists, Appends, ResultPCs
    <3>2. \A u \in Tasks : InQueue(u)' => InQueue(u)
      BY ZenonT(30), <2>4 DEF InQueue
    <3> QED
      BY ZenonT(30), <2>4, <2>6, <3>1, <3>2, SameData
  <2>13. QueueDistinct' /\ MapsOK'
    BY ZenonT(30), <2>4, MapsStay DEF TokenInv, QueueDistinct
  <2>14. InDegreeExact' /\ WalkFit(r, taskState)
    BY ZenonT(30), <2>3, <2>4, <2>5, <2>6, <2>7, InDegreeWrite DEF TokenInv, WalkFit
  <2> QED
    BY ZenonT(30), <1>0, <2>3, <2>4, <2>10, <2>11, <2>12, <2>13, <2>14, TaskStep
<1>2. CASE DeadAppend
  <2>1. PICK t : t = thr[Daemon].task
    BY ZenonT(30)
  <2> DEFINE r == [thr[Daemon] EXCEPT !.pc = "dwRequeue"]
  <2>2. thr[Daemon].pc = "dwAppend" /\ t \in Tasks /\ Appends(thr[Daemon], t)
    BY ZenonT(30), <1>0, <1>2, <2>1 DEF DeadAppend, At, LocalsFit, Appends
  <2>3. /\ Becomes(Daemon, r) /\ readyQueue' = Append(readyQueue, t)
        /\ UNCHANGED <<taskState, execID, inDegree, runningTasks, assignedTasks, held, up>>
    BY <1>2, <2>1 DEF DeadAppend, Goto, dbVars, envVars
  <2>4. r.pc = "dwRequeue" /\ r.todo = thr[Daemon].todo
    BY <1>0 DEF ThreadState
  <2> HIDE DEF r
  <2>5. /\ ~InQueue(t) /\ runningTasks[t] = Nil /\ assignedTasks[t] = Nil /\ Placed(t)
        /\ \A x \in Threads : x # Daemon => ~Keeps(thr[x], t)
        /\ taskState[t] \in {"QUEUED", "SKIPPED"} /\ ~Lists(thr[Daemon], t)
    BY ZenonT(30), <2>2, ListedTask
  <2>6. ~Keeps(r, t)
    BY ZenonT(30), <2>2, <2>4, <2>5 DEF Keeps, Lists, ResultPCs
  <2>7. \A u \in Tasks : u # t => /\ taskState'[u] = taskState[u] /\ execID'[u] = execID[u]
                                  /\ NoMore(thr[Daemon], r, u)
    BY ZenonT(30), <2>2, <2>3, <2>4 DEF NoMore, Holds, Frees, Lists, Appends, ResultPCs
  <2>8. Moves(t) /\ Enters(t) /\ taskState'[t] = taskState[t] /\ taskState'[t] \in {"QUEUED", "SKIPPED"}
    BY ZenonT(30), <2>3, <2>5 DEF Moves, Enters
  <2>9. WalkFit(r, taskState) /\ (up => up') /\ UNCHANGED <<inDegree, runningTasks, assignedTasks, held>>
    BY ZenonT(30), <2>3, <2>4 DEF WalkFit
  <2> QED
    BY ZenonT(30), <1>0, <2>2, <2>3, <2>5, <2>6, <2>7, <2>8, <2>9, EnqueueToken
<1>3. CASE DeadRemove
  <2> DEFINE r == [thr[Daemon] EXCEPT !.pc = "dwForget"]
  <2>1. r.pc = "dwForget"
    BY <1>0 DEF ThreadState
  <2>2. /\ Becomes(Daemon, r) \/ Becomes(Daemon, Idle)
        /\ UNCHANGED <<taskState, execID, inDegree, readyQueue, runningTasks, assignedTasks, held>> /\ (up => up')
        /\ thr[Daemon].pc \notin ResultPCs
    BY <1>3 DEF DeadRemove, Goto, Return, At, dbVars, envVars, ResultPCs
  <2> HIDE DEF r
  <2>3. r.pc \in Free \ {"skip", "skipWrite"}
    BY <2>1 DEF Free, PCs, ResultPCs
  <2> QED
    BY ZenonT(30), <1>0, <2>2, <2>3, IdleFree, FreeStep
<1> QED
  BY <1>1, <1>2, <1>3
=============================================================================
