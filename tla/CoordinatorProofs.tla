------------------------- MODULE CoordinatorProofs --------------------------
(***************************************************************************)
(* What the proofs about Coordinator share (what the operators on the ready*)
(* queue return, and what the types say about threads and the tasks they   *)
(* keep), and that every step keeps the types.                             *)
(***************************************************************************)
EXTENDS CoordinatorInvariant, FiniteSetTheorems, TLAPS

\* The provers tried at a leaf that names none, in this order.
USE SMTT(30), ZenonT(20), SMTT(40)

\* A step may change the record of t so: nothing happens to a result, and a
\* task that was not unlocked is skipped, created, or unlocked now.
Moves(t) ==
    \/ taskState'[t] = taskState[t]
    \/ /\ taskState[t] \notin {"COMPLETE", "FAILED"}
       /\ \/ Placed(t) /\ taskState'[t] # "ABSENT"
          \/ taskState'[t] = "SKIPPED"
          \/ taskState[t] = "ABSENT" /\ taskState'[t] = "PENDING"
          \/ taskState'[t] = "QUEUED" /\ \A d \in Deps[t] : taskState'[d] = "COMPLETE"


\* What is known of every step.
Stepped ==
    /\ TypeInv /\ SubmitInv /\ TokenInv
    /\ TypeInv' /\ SubmitInv' /\ TokenInv'
    /\ \A t \in Tasks : Moves(t)

\* Ranks of the positions a filter keeps: every rank up to their number is
\* taken by one of them.
LEMMA RankSurjective ==
    ASSUME NEW n \in Nat, NEW K \in SUBSET (1..n)
    PROVE  /\ IsFiniteSet(K) /\ Cardinality(K) \in Nat
           /\ \A i \in K : Cardinality({j \in K : j <= i}) \in 1..Cardinality(K)
           /\ \A i, m \in K : Cardinality({j \in K : j <= i}) = Cardinality({j \in K : j <= m}) => i = m
           /\ \A k \in 1..Cardinality(K) : \E i \in K : Cardinality({j \in K : j <= i}) = k
<1> DEFINE Below(i) == {j \in K : j <= i}
           rank == [i \in K |-> Cardinality(Below(i))]
<1>1. IsFiniteSet(K) /\ Cardinality(K) \in Nat
  <2>1. IsFiniteSet(1..n)
    BY FS_Interval
  <2> QED
    BY ZenonT(30), <2>1, FS_Subset, FS_CardinalityType
<1>2. \A i \in K : /\ IsFiniteSet(Below(i)) /\ Cardinality(Below(i)) \in Nat
                   /\ Cardinality(Below(i)) <= Cardinality(K)
  BY <1>1, FS_Subset, FS_CardinalityType
<1>3. \A i \in K : Cardinality(Below(i)) \in 1..Cardinality(K)
  <2> TAKE i \in K
  <2>1. i \in Below(i)
    OBVIOUS
  <2>2. Cardinality(Below(i)) # 0
    BY <1>2, <2>1, FS_EmptySet
  <2> QED
    BY <1>1, <1>2, <2>2
<1>4. \A i, m \in K : i < m => Cardinality(Below(i)) < Cardinality(Below(m))
  <2> SUFFICES ASSUME NEW i \in K, NEW m \in K, i < m
               PROVE  Cardinality(Below(i)) < Cardinality(Below(m))
    OBVIOUS
  <2>1. i \in Int /\ m \in Int /\ \A j \in K : j \in Int
    OBVIOUS
  <2>2. Below(i) \subseteq Below(m)
    <3>1. \A j \in K : j <= i => j <= m
      BY <2>1
    <3> QED
      BY ZenonT(30), <3>1
  <2>3. m \in Below(m) /\ m \notin Below(i)
    BY <2>1
  <2>4. /\ IsFiniteSet(Below(m)) /\ Cardinality(Below(m)) \in Nat
        /\ Cardinality(Below(i)) \in Nat
    BY <1>2
  <2> HIDE DEF Below
  <2>5. Cardinality(Below(i)) <= Cardinality(Below(m)) /\ Cardinality(Below(i)) # Cardinality(Below(m))
    BY <2>2, <2>3, <2>4, FS_Subset
  <2> QED
    BY <2>4, <2>5
<1>5. \A i, m \in K : Cardinality(Below(i)) = Cardinality(Below(m)) => i = m
  <2> SUFFICES ASSUME NEW i \in K, NEW m \in K, i # m
               PROVE  Cardinality(Below(i)) # Cardinality(Below(m))
    OBVIOUS
  <2>1. i < m \/ m < i
    OBVIOUS
  <2>2. Cardinality(Below(i)) \in Nat /\ Cardinality(Below(m)) \in Nat
    BY <1>2
  <2> HIDE DEF Below
  <2> QED
    BY <1>4, <2>1, <2>2
<1>6. ASSUME NEW k \in 1..Cardinality(K), \A i \in K : Cardinality(Below(i)) # k
      PROVE  FALSE
  <2> DEFINE Others == (1..Cardinality(K)) \ {k}
  <2>1. rank \in [K -> Others]
    BY <1>3, <1>6
  <2>2. IsFiniteSet(1..Cardinality(K)) /\ Cardinality(1..Cardinality(K)) = Cardinality(K)
    BY <1>1, FS_Interval
  <2>3. IsFiniteSet(Others) /\ Cardinality(Others) = Cardinality(K) - 1
    BY ZenonT(30), <2>2, FS_RemoveElement
  <2>4. \E i, m \in K : i # m /\ rank[i] = rank[m]
    <3>1. Cardinality(Others) < Cardinality(K)
      BY <1>1, <2>3
    <3> HIDE DEF Others, rank
    <3> QED
      BY ZenonT(30), <1>1, <2>1, <2>3, <3>1, FS_PigeonHole
  <2> QED
    BY <1>5, <2>4
<1> QED
  BY ZenonT(30), <1>1, <1>3, <1>5, <1>6

\* Without(q, S) is a sequence of the members of q that are not in S, each
\* position of it taken from a position of its own.
LEMMA WithoutProperties ==
    ASSUME NEW T, NEW q \in Seq(T), NEW S
    PROVE  /\ Without(q, S) \in Seq(T)
           /\ \A k \in DOMAIN Without(q, S) : \E i \in DOMAIN q : Without(q, S)[k] = q[i] /\ q[i] \notin S
           /\ \A i \in DOMAIN q : q[i] \notin S => \E k \in DOMAIN Without(q, S) : Without(q, S)[k] = q[i]
           /\ (\A i, j \in DOMAIN q : q[i] = q[j] => i = j) =>
                 \A k, m \in DOMAIN Without(q, S) : Without(q, S)[k] = Without(q, S)[m] => k = m
<1> DEFINE n == Len(q)
           K == {i \in 1..n : q[i] \notin S}
           R(i) == Cardinality({j \in K : j <= i})
           at(k) == CHOOSE i \in K : R(i) = k
<1>1. n \in Nat /\ K \in SUBSET (1..n) /\ DOMAIN q = 1..n /\ \A i \in 1..n : q[i] \in T
  OBVIOUS
<1>2. /\ Cardinality(K) \in Nat
      /\ \A i \in K : R(i) \in 1..Cardinality(K)
      /\ \A i, m \in K : R(i) = R(m) => i = m
      /\ \A k \in 1..Cardinality(K) : \E i \in K : R(i) = k
  <2> HIDE DEF K, n
  <2> QED
    BY ZenonT(30), <1>1, RankSurjective
<1>3. Without(q, S) = [k \in 1..Cardinality(K) |-> q[at(k)]]
  BY DEF Without
<1>4. \A k \in 1..Cardinality(K) : at(k) \in K /\ R(at(k)) = k
  BY ZenonT(30), <1>2
<1>5. \A i \in K : at(R(i)) = i
  BY <1>2, <1>4
<1>6. \A i \in K : i \in 1..n /\ q[i] \notin S /\ q[i] \in T
  BY <1>1
<1>7. \A i \in 1..n : q[i] \notin S => i \in K
  OBVIOUS
<1> HIDE DEF K, R, at, n
<1>8. Without(q, S) \in [1..Cardinality(K) -> T]
  BY <1>3, <1>4, <1>6
<1>9. Without(q, S) \in Seq(T) /\ DOMAIN Without(q, S) = 1..Cardinality(K)
  BY <1>2, <1>8
<1>10. \A k \in DOMAIN Without(q, S) : \E i \in DOMAIN q : Without(q, S)[k] = q[i] /\ q[i] \notin S
  BY ZenonT(30), <1>1, <1>3, <1>4, <1>6, <1>9
<1>11. \A i \in DOMAIN q : q[i] \notin S => \E k \in DOMAIN Without(q, S) : Without(q, S)[k] = q[i]
  BY <1>1, <1>2, <1>3, <1>5, <1>7, <1>9
<1>12. ASSUME \A i, j \in DOMAIN q : q[i] = q[j] => i = j,
              NEW k \in DOMAIN Without(q, S), NEW m \in DOMAIN Without(q, S),
              Without(q, S)[k] = Without(q, S)[m]
       PROVE  k = m
  <2>1. q[at(k)] = q[at(m)]
    BY <1>3, <1>9, <1>12
  <2>2. at(k) = at(m)
    BY ZenonT(30), <1>1, <1>4, <1>6, <1>9, <1>12, <2>1
  <2> QED
    BY <1>4, <1>9, <2>2
<1> QED
  BY <1>9, <1>10, <1>11, <1>12

\* An order of a finite set is a sequence that lists exactly its members.
LEMMA OrdersProperties ==
    ASSUME NEW S, IsFiniteSet(S), NEW s \in Orders(S)
    PROVE  /\ s \in Seq(S)
           /\ \A t \in S : \E i \in DOMAIN s : s[i] = t
           /\ \A i, j \in DOMAIN s : s[i] = s[j] => i = j
<1>1. Cardinality(S) \in Nat
  BY FS_CardinalityType
<1>2. s \in [1..Cardinality(S) -> S] /\ \A i, j \in 1..Cardinality(S) : s[i] = s[j] => i = j
  BY DEF Orders
<1>3. ASSUME NEW t \in S, \A i \in 1..Cardinality(S) : s[i] # t
      PROVE  FALSE
  <2> DEFINE D == 1..Cardinality(S)
             O == S \ {t}
  <2>1. s \in [D -> O]
    BY <1>2, <1>3
  <2>2. IsFiniteSet(D) /\ Cardinality(D) = Cardinality(S)
    BY <1>1, FS_Interval
  <2>3. IsFiniteSet(O) /\ Cardinality(O) = Cardinality(S) - 1
    BY FS_RemoveElement
  <2>4. Cardinality(O) < Cardinality(D)
    BY <1>1, <2>2, <2>3
  <2>5. \A i, j \in D : s[i] = s[j] => i = j
    BY <1>2
  <2> HIDE DEF D, O
  <2> QED
    BY <2>1, <2>2, <2>3, <2>4, <2>5, FS_PigeonHole
<1> QED
  BY <1>1, <1>2, <1>3
-----------------------------------------------------------------------------
\* The locals of an idle thread.
LEMMA IdleType == Idle \in ThreadState
BY StoreAssumption DEF Idle, ThreadState, PCs

LEMMA QueueType ==
    ASSUME TypeInv PROVE readyQueue \in Seq(Tasks) /\ \A i \in DOMAIN readyQueue : readyQueue[i] \in Tasks
<1>1. readyQueue \in Seq(Tasks)
  BY ZenonT(30) DEF TypeInv, TypeOK
<1> QED
  BY <1>1

LEMMA ThreadsType == /\ Workers \subseteq Threads /\ Clients \subseteq Threads /\ Daemon \in Threads
BY DEF Threads

\* The types of a busy thread's locals.
LEMMA LocalsType ==
    ASSUME TypeInv, NEW x \in Threads
    PROVE  thr[x] \in ThreadState /\ LocalsFit(x, thr[x]) /\ StoreTypeOK
BY DEF TypeInv, TypeOK, LocalsOK

\* A task is touched when it is in the queue, in the maps, or kept by a thread.
LEMMA TouchedKept ==
    ASSUME TypeInv, NEW t \in Tasks
    PROVE  Touched(t) <=> \/ InQueue(t)
                          \/ runningTasks[t] # Nil \/ assignedTasks[t] # Nil
                          \/ \E x \in Threads : Keeps(thr[x], t)
<1>1. \A x \in Threads : thr[x].pc \in {"dwRequeue", "dwAppend", "rcRequeue"} => x = Daemon
  BY DEF TypeInv, LocalsOK, LocalsFit
<1> QED
  BY <1>1, ThreadsType DEF Touched, Keeps, Handling, Releasing, Relisted

\* The ready queue lists a task once: what its operations preserve.
LEMMA AppendDistinct ==
    ASSUME TypeInv, QueueDistinct, NEW u \in Tasks, ~InQueue(u), readyQueue' = Append(readyQueue, u)
    PROVE  /\ QueueDistinct'
           /\ \A t \in Tasks : InQueue(t)' <=> InQueue(t) \/ t = u
<1>1. readyQueue \in Seq(Tasks)
  BY DEF TypeInv, TypeOK
<1>2. PICK n \in Nat : n = Len(readyQueue)
  BY <1>1
<1>3. /\ DOMAIN readyQueue = 1..n /\ DOMAIN readyQueue' = 1..(n + 1)
      /\ \A i \in 1..n : readyQueue'[i] = readyQueue[i]
      /\ readyQueue'[n + 1] = u
  BY <1>1, <1>2
<1>4. \A i \in 1..(n + 1) : i \in 1..n \/ i = n + 1
  BY <1>2
<1>5. \A i \in 1..n : i \in 1..(n + 1) /\ n + 1 \in 1..(n + 1)
  BY <1>2
<1>6. \A i \in 1..n : readyQueue[i] # u
  BY ZenonT(30), <1>3 DEF InQueue
<1>7. QueueDistinct'
  BY <1>3, <1>4, <1>6 DEF QueueDistinct
<1>8. n + 1 \in 1..(n + 1)
  BY <1>2
<1>9. \A t \in Tasks : InQueue(t)' <=> InQueue(t) \/ t = u
  BY ZenonT(30), <1>3, <1>4, <1>5, <1>8 DEF InQueue
<1> QED
  BY <1>7, <1>9

LEMMA TailDistinct ==
    ASSUME TypeInv, QueueDistinct, readyQueue # <<>>, readyQueue' = Tail(readyQueue), NEW h, h = Head(readyQueue)
    PROVE  /\ QueueDistinct' /\ h \in Tasks /\ InQueue(h) /\ ~InQueue(h)'
           /\ \A t \in Tasks : InQueue(t)' => InQueue(t)
<1>1. readyQueue \in Seq(Tasks)
  BY DEF TypeInv, TypeOK
<1>2. PICK n \in Nat : n = Len(readyQueue) /\ n > 0
  BY <1>1
<1>3. /\ DOMAIN readyQueue = 1..n /\ DOMAIN readyQueue' = 1..(n - 1)
      /\ \A i \in 1..(n - 1) : readyQueue'[i] = readyQueue[i + 1]
      /\ h = readyQueue[1] /\ readyQueue[1] \in Tasks
  BY <1>1, <1>2
<1>4. /\ \A i \in 1..(n - 1) : i + 1 \in 1..n /\ i + 1 # 1
      /\ \A i, j \in 1..(n - 1) : i + 1 = j + 1 => i = j
      /\ 1 \in 1..n
  BY <1>2
<1>5. QueueDistinct'
  BY <1>3, <1>4 DEF QueueDistinct
<1>6. \A t \in Tasks : InQueue(t)' => InQueue(t)
  BY <1>3, <1>4 DEF InQueue
<1>7. InQueue(h)
  BY ZenonT(30), <1>3, <1>4 DEF InQueue
<1>8. ~InQueue(h)'
  BY <1>3, <1>4 DEF InQueue, QueueDistinct
<1> QED
  BY ZenonT(30), <1>3, <1>5, <1>6, <1>7, <1>8

LEMMA WithoutDistinct ==
    ASSUME TypeInv, QueueDistinct, NEW S, readyQueue' = Without(readyQueue, S)
    PROVE  QueueDistinct' /\ \A t \in Tasks : InQueue(t)' => InQueue(t)
<1>1. readyQueue \in Seq(Tasks)
  BY DEF TypeInv, TypeOK
<1>2. /\ \A k \in DOMAIN readyQueue' : \E i \in DOMAIN readyQueue : readyQueue'[k] = readyQueue[i]
      /\ \A k, m \in DOMAIN readyQueue' : readyQueue'[k] = readyQueue'[m] => k = m
  BY <1>1, WithoutProperties DEF QueueDistinct
<1> QED
  BY <1>2 DEF QueueDistinct, InQueue

\* Appending the members of S, none of which is in the queue, in some order.
LEMMA OrderedDistinct ==
    ASSUME TypeInv, QueueDistinct, NEW S \in SUBSET Tasks, NEW s \in Orders(S), readyQueue' = readyQueue \o s,
           \A t \in S : ~InQueue(t)
    PROVE  QueueDistinct' /\ \A t \in Tasks : InQueue(t)' <=> InQueue(t) \/ t \in S
<1>1. readyQueue \in Seq(Tasks) /\ IsFiniteSet(S)
  BY StoreAssumption, FS_Subset DEF TypeInv, TypeOK
<1>2. /\ s \in Seq(S) /\ \A t \in S : \E i \in DOMAIN s : s[i] = t
      /\ \A i, j \in DOMAIN s : s[i] = s[j] => i = j
  BY <1>1, OrdersProperties
<1>3. PICK n \in Nat, m \in Nat : n = Len(readyQueue) /\ m = Len(s)
  BY <1>1, <1>2
<1>4. /\ DOMAIN readyQueue = 1..n /\ DOMAIN s = 1..m /\ DOMAIN readyQueue' = 1..(n + m)
      /\ \A i \in 1..n : readyQueue'[i] = readyQueue[i] /\ readyQueue[i] \notin S
      /\ \A i \in 1..m : readyQueue'[n + i] = s[i] /\ s[i] \in S
  <2>1. \A i \in 1..n : readyQueue[i] \notin S
    BY <1>1, <1>3 DEF InQueue
  <2> QED
    BY <1>1, <1>2, <1>3, <2>1
<1>5. /\ \A i \in 1..(n + m) : i \in 1..n \/ \E j \in 1..m : i = n + j
      /\ \A i \in 1..n : i \in 1..(n + m)
      /\ \A i \in 1..m : n + i \in 1..(n + m)
  <2>1. \A i \in 1..(n + m) : i \in 1..n \/ (i - n \in 1..m /\ i = n + (i - n))
    BY <1>3
  <2>2. (\A i \in 1..n : i \in 1..(n + m)) /\ \A i \in 1..m : n + i \in 1..(n + m)
    BY <1>3
  <2> QED
    BY ZenonT(30), <2>1, <2>2
<1>6. ASSUME NEW i \in 1..(n + m), NEW j \in 1..(n + m), readyQueue'[i] = readyQueue'[j] PROVE i = j
  <2>1. CASE i \in 1..n /\ j \in 1..n
    BY <1>4, <1>6, <2>1 DEF QueueDistinct
  <2>2. CASE i \notin 1..n /\ j \notin 1..n
    <3>1. PICK k \in 1..m, l \in 1..m : i = n + k /\ j = n + l
      BY <1>5, <2>2
    <3>2. readyQueue'[i] = s[k] /\ readyQueue'[j] = s[l]
      BY <1>4, <3>1
    <3>3. s[k] = s[l] /\ k \in DOMAIN s /\ l \in DOMAIN s
      BY ZenonT(30), <1>4, <1>6, <3>2
    <3>4. k = l
      BY ZenonT(30), <1>2, <3>3
    <3> QED
      BY <3>1, <3>4
  <2>3. CASE i \in 1..n /\ j \notin 1..n
    BY <1>4, <1>5, <1>6, <2>3
  <2>4. CASE i \notin 1..n /\ j \in 1..n
    BY <1>4, <1>5, <1>6, <2>4
  <2> QED
    BY ZenonT(30), <2>1, <2>2, <2>3, <2>4
<1>7. QueueDistinct'
  BY ZenonT(30), <1>4, <1>6 DEF QueueDistinct
<1>8. ASSUME NEW t \in Tasks, InQueue(t)' PROVE InQueue(t) \/ t \in S
  <2>1. PICK i \in 1..(n + m) : readyQueue'[i] = t
    BY <1>4, <1>8 DEF InQueue
  <2> QED
    BY ZenonT(30), <1>4, <1>5, <2>1 DEF InQueue
<1>9. ASSUME NEW t \in Tasks, InQueue(t) PROVE InQueue(t)'
  BY <1>4, <1>5, <1>9 DEF InQueue
<1>10. ASSUME NEW t \in S PROVE InQueue(t)'
  <2>1. PICK i \in 1..m : s[i] = t
    BY <1>2, <1>4
  <2>2. n + i \in 1..(n + m) /\ readyQueue'[n + i] = t
    BY <1>4, <1>5, <2>1
  <2> QED
    BY <1>4, <2>2 DEF InQueue
<1> QED
  BY ZenonT(30), <1>7, <1>8, <1>9, <1>10

\* The record of a task whose result is being processed.
LEMMA ResultRecord ==
    ASSUME TypeInv, TokenInv, NEW w \in Workers, thr[w].pc \in ResultPCs
    PROVE  /\ thr[w].task \in Tasks /\ Placed(thr[w].task)
           /\ thr[w].pc = "ctClean" => taskState[thr[w].task] = "COMPLETE"
           /\ thr[w].pc = "ftFailed" => taskState[thr[w].task] = "FAILED"
           /\ thr[w].pc = "ftRequeued" => taskState[thr[w].task] \in {"QUEUED", "SKIPPED"}
           /\ thr[w].pc \in BeforeTx => taskState[thr[w].task] \in {"RUNNING", "SKIPPED"}
<1>1. PICK t : t = thr[w].task
  OBVIOUS
<1>2. t \in Tasks /\ w \in Threads
  BY <1>1, LocalsType, ThreadsType DEF LocalsFit
<1>3. taskState[t] \in StatesAt(thr[w].pc)
  BY ZenonT(30), <1>1, <1>2 DEF TokenInv, TokenOK, TokenFit, Holds
<1>4. Placed(t)
  BY <1>1, <1>2 DEF Placed, Touched, Handling
<1> QED
  BY <1>1, <1>2, <1>3, <1>4 DEF StatesAt, BeforeTx

\* The records of a workflow appear together.
LEMMA Together == ASSUME Stepped PROVE RecordsAppearTogether /\ RecordsAppearTogether'
BY ZenonT(30) DEF Stepped, SubmitInv

-----------------------------------------------------------------------------
(* Blocked tasks and plain workflows. *)

LEMMA DepsType == \A t \in Tasks : Deps[t] \subseteq Tasks /\ \A d \in Deps[t] : WfOf[d] = WfOf[t]
BY StoreAssumption

\* A blocked task is in no place.
LEMMA BlockedUnplaced ==
    ASSUME TokenInv, NEW t \in Tasks, Blocked(t)
    PROVE  ~Placed(t) /\ Deps[t] # {} /\ taskState[t] \in {"PENDING", "SKIPPED"}
<1>1. taskState[t] \in {"PENDING", "SKIPPED"} /\ \E d \in Deps[t] : taskState[d] \in {"PENDING", "SKIPPED", "FAILED"}
  BY ZenonT(30) DEF Blocked
<1> QED
  BY <1>1 DEF TokenInv, PlacedIsReady

\* The set of blocked tasks a task is in stays blocked.
LEMMA BlockedStays ==
    ASSUME Stepped, NEW t \in Tasks, Blocked(t)
    PROVE  Blocked(t)' /\ (taskState[t] = "SKIPPED" => taskState'[t] = "SKIPPED")
<1>1. PICK B \in SUBSET Tasks :
          /\ t \in B
          /\ \A u \in B : /\ taskState[u] \in {"PENDING", "SKIPPED"}
                          /\ \E d \in Deps[u] : d \in B \/ taskState[d] = "FAILED"
  BY DEF Blocked
<1>2. ASSUME NEW u \in B PROVE ~Placed(u) /\ Moves(u)
  <2>1. Blocked(u)
    BY ZenonT(30), <1>1 DEF Blocked
  <2> QED
    BY <2>1, BlockedUnplaced DEF Stepped
<1>3. ASSUME NEW u \in B
      PROVE  \/ taskState'[u] = taskState[u] \/ taskState'[u] = "SKIPPED"
             \/ taskState'[u] = "QUEUED" /\ \A d \in Deps[u] : taskState'[d] = "COMPLETE"
  BY <1>1, <1>2 DEF Moves
<1>4. \A u \in B : taskState'[u] # "COMPLETE"
  BY <1>1, <1>3
<1>5. \A d \in Tasks : taskState[d] = "FAILED" => taskState'[d] = "FAILED"
  BY DEF Stepped, Moves
<1>6. ASSUME NEW u \in B
      PROVE  /\ taskState'[u] \in {taskState[u], "SKIPPED"}
             /\ \E d \in Deps[u] : d \in B \/ taskState'[d] = "FAILED"
  <2>1. PICK d \in Deps[u] : d \in B \/ taskState[d] = "FAILED"
    BY <1>1
  <2>2. d \in B \/ taskState'[d] = "FAILED"
    BY <1>5, <2>1, DepsType
  <2> QED
    BY <1>3, <1>4, <2>2
<1>7. Blocked(t)'
  BY <1>1, <1>6 DEF Blocked
<1> QED
  BY <1>1, <1>6, <1>7

\* Terminal tasks of a plain workflow stay as they are.
LEMMA TerminalStays ==
    ASSUME Stepped, VerdictInv, NEW t \in Tasks, Plain(WfOf[t]), taskState[t] \in Terminal
    PROVE  taskState'[t] = taskState[t]
<1>1. CASE taskState[t] = "SKIPPED"
  BY ZenonT(30), <1>1, BlockedStays DEF VerdictInv
<1>2. CASE taskState[t] \in {"COMPLETE", "FAILED"}
  BY <1>2 DEF Stepped, Moves
<1> QED
  BY <1>1, <1>2 DEF Terminal

\* And so does what they say of the workflow.
LEMMA PlainStays ==
    ASSUME Stepped, VerdictInv, NEW wf
    PROVE  /\ HasFailure(wf) => HasFailure(wf)'
           /\ Recorded(wf) # {} => Recorded(wf)' # {}
           /\ Done(wf) /\ Plain(wf) => Done(wf)' /\ FinalState(wf)' = FinalState(wf)
<1>1. \A t \in Tasks : /\ taskState[t] = "FAILED" => taskState'[t] = "FAILED"
                       /\ taskState[t] # "ABSENT" => taskState'[t] # "ABSENT"
  BY DEF Stepped, Moves
<1>2. ASSUME Done(wf), Plain(wf) PROVE Done(wf)' /\ FinalState(wf)' = FinalState(wf)
  <2>1. \A t \in TasksOf(wf) : taskState'[t] = taskState[t]
    BY <1>2, TerminalStays DEF Done, TasksOf
  <2> QED
    BY ZenonT(30), <1>2, <2>1 DEF Done, TasksOf, FinalState, Recorded, Terminal
<1> QED
  BY <1>1, <1>2 DEF HasFailure, Recorded, TasksOf

-----------------------------------------------------------------------------
(* Types. *)

\* The locals of a thread that changes label.
LEMMA GotoType ==
    ASSUME NEW r \in ThreadState, NEW p \in PCs
    PROVE  [r EXCEPT !.pc = p] \in ThreadState
BY DEF ThreadState

\* A step of a thread keeps the type of the thread table.
LEMMA BecomesType ==
    ASSUME thr \in [Threads -> ThreadState], NEW x \in Threads, NEW r \in ThreadState,
           Becomes(x, r)
    PROVE  thr' \in [Threads -> ThreadState]
BY DEF Becomes

\* Sets of tasks are finite, and listing one yields a sequence of tasks.
LEMMA OrderOfTasks ==
    ASSUME NEW S \in SUBSET Tasks, NEW s \in Orders(S)
    PROVE  s \in Seq(Tasks)
<1>1. IsFiniteSet(S)
  BY StoreAssumption, FS_Subset
<1>2. s \in Seq(S)
  BY <1>1, OrdersProperties
<1> QED
  BY <1>2

-----------------------------------------------------------------------------
\* The transactions keep the type of the store.
LEMMA TxType ==
    ASSUME StoreTypeOK, NEW t \in Tasks, NEW wf \in Workflows, NEW n \in Nat,
           NEW e \in Execs
    PROVE  /\ TxStoreWorkflow(wf) => StoreTypeOK'
           /\ \A s \in WfStates : TxSetWorkflowState(wf, s) => StoreTypeOK'
           /\ TxInitializeTasks(wf) => StoreTypeOK'
           /\ \A s \in TaskStates : TxUpdateTaskState(t, s) => StoreTypeOK'
           /\ TxAssignTask(t, e) => StoreTypeOK'
           /\ TxCompleteTask(t, e) => StoreTypeOK'
           /\ TxFailTask(t, n) => StoreTypeOK'
           /\ TxRequeueTask(t) => StoreTypeOK'
           /\ TxCancelWorkflowTasks(wf) => StoreTypeOK'
           /\ UNCHANGED dbVars => StoreTypeOK'
<1> USE DEF StoreTypeOK, taskVars
<1>1. TxStoreWorkflow(wf) => StoreTypeOK'
  BY DEF TxStoreWorkflow
<1>2. \A s \in WfStates : TxSetWorkflowState(wf, s) => StoreTypeOK'
  BY DEF TxSetWorkflowState
<1>3. TxInitializeTasks(wf) => StoreTypeOK'
  <2>1. \A u \in Tasks : Cardinality(Deps[u]) \in Nat
    BY StoreAssumption, FS_Subset, FS_CardinalityType
  <2> QED
    BY <2>1 DEF TxInitializeTasks, TaskStates
<1>4. \A s \in TaskStates : TxUpdateTaskState(t, s) => StoreTypeOK'
  BY DEF TxUpdateTaskState
<1>5. TxAssignTask(t, e) => StoreTypeOK'
  BY DEF TxAssignTask, TaskStates
<1>6. TxCompleteTask(t, e) => StoreTypeOK'
  BY DEF TxCompleteTask, Decremented, TaskStates
<1>7. TxFailTask(t, n) => StoreTypeOK'
  BY DEF TxFailTask, TaskStates
<1>8. TxRequeueTask(t) => StoreTypeOK'
  BY DEF TxRequeueTask, TaskStates
<1>9. TxCancelWorkflowTasks(wf) => StoreTypeOK'
  BY DEF TxCancelWorkflowTasks, TaskStates
<1>10. UNCHANGED dbVars => StoreTypeOK'
  BY DEF dbVars
<1> QED
  BY ZenonT(30), <1>1, <1>2, <1>3, <1>4, <1>5, <1>6, <1>7, <1>8, <1>9, <1>10


\* A step of a thread of a running coordinator keeps the thread part of TypeInv.
LEMMA StepFits ==
    ASSUME TypeInv, up, up' = up, NEW x \in Threads, NEW r \in ThreadState,
           LocalsFit(x, r), r.pc # "rcRequeue", Becomes(x, r)
    PROVE  thr' \in [Threads -> ThreadState] /\ LocalsOK' /\ PhaseOK'
<1>1. thr' \in [Threads -> ThreadState]
  BY BecomesType DEF TypeInv, TypeOK
<1>2. \A y \in Threads : thr'[y] = IF y = x THEN r ELSE thr[y]
  BY DEF Becomes, TypeInv, TypeOK
<1>3. LocalsOK'
  BY <1>2 DEF LocalsOK, TypeInv
<1>4. PhaseOK'
  BY <1>2, ThreadsType DEF PhaseOK, TypeInv
<1> QED
  BY <1>1, <1>3, <1>4

\* Returning to idle fits every thread.
LEMMA IdleFits == \A x \in Threads : LocalsFit(x, Idle) /\ Idle.pc # "rcRequeue"
BY ZenonT(30) DEF LocalsFit, Idle, ResultPCs, SubmitPCs

LEMMA TypeInit == Init => TypeInv
<1> SUFFICES ASSUME Init PROVE TypeInv
  BY ZenonT(30)
<1>1. StoreTypeOK
  BY StoreAssumption DEF Init, StoreInit, StoreTypeOK, TaskStates
<1>2. thr \in [Threads -> ThreadState] /\ \A x \in Threads : thr[x] = Idle
  BY ZenonT(30), IdleType DEF Init
<1>3. readyQueue \in Seq(Tasks)
  BY DEF Init
<1>4. TypeOK
  BY ZenonT(30), <1>1, <1>2, <1>3 DEF Init, TypeOK
<1>5. LocalsOK
  BY ZenonT(30), <1>2, IdleFits DEF LocalsOK, Init
<1>6. PhaseOK
  BY ZenonT(30), <1>2, IdleFits, ThreadsType DEF PhaseOK, Init
<1> QED
  BY ZenonT(30), <1>4, <1>5, <1>6 DEF TypeInv

LEMMA ReceiveType ==
    ASSUME TypeInv, NEW w \in Workers, Receive(w)
    PROVE  TypeInv'
<1> USE ThreadsType
<1> w \in Threads /\ w # Daemon
  BY CoordinatorAssumption
<1>1. CASE GetReadyTask(w)
  <2>1. /\ readyQueue \in Seq(Tasks) /\ readyQueue # <<>>
        /\ Head(readyQueue) \in Tasks /\ Tail(readyQueue) \in Seq(Tasks)
    <3>1. readyQueue # <<>>
      BY ZenonT(30), <1>1 DEF GetReadyTask
    <3> QED
      BY <3>1, QueueType
  <2>2. StoreTypeOK' /\ runningTasks' \in [Tasks -> Workers \cup {Nil}]
        /\ assignedTasks' \in [Tasks -> Execs \cup {Nil}]
        /\ held' \in SUBSET (Workers \X Tasks \X Execs)
    <3>1. CASE \E e \in Execs \ ExecsInUse :
                /\ TxAssignTask(Head(readyQueue), e)
                /\ runningTasks' = [runningTasks EXCEPT ![Head(readyQueue)] = w]
                /\ assignedTasks' = [assignedTasks EXCEPT ![Head(readyQueue)] = e]
                /\ held' = held \cup {<<w, Head(readyQueue), e>>}
      <4> PICK e \in Execs : /\ TxAssignTask(Head(readyQueue), e)
                             /\ runningTasks' = [runningTasks EXCEPT ![Head(readyQueue)] = w]
                             /\ assignedTasks' = [assignedTasks EXCEPT ![Head(readyQueue)] = e]
                             /\ held' = held \cup {<<w, Head(readyQueue), e>>}
        BY ZenonT(30), <3>1
      <4>1. StoreTypeOK'
        BY <2>1 DEF TxAssignTask, StoreTypeOK, TaskStates, TypeInv, TypeOK
      <4> QED
        BY <2>1, <4>1 DEF TypeInv, TypeOK
    <3>2. CASE UNCHANGED <<dbVars, runningTasks, assignedTasks, held>>
      BY <3>2 DEF dbVars, StoreTypeOK, TypeInv, TypeOK
    <3> QED
      BY <1>1, <3>1, <3>2 DEF GetReadyTask
  <2> QED
    BY ZenonT(30), <1>1, <2>1, <2>2 DEF GetReadyTask, TypeInv, TypeOK, LocalsOK, PhaseOK
<1>2. CASE Heartbeat(w)
  BY ZenonT(30), <1>2 DEF Heartbeat, TypeInv, TypeOK, StoreTypeOK, dbVars, envVars, LocalsOK, PhaseOK
<1>3. ASSUME NEW t \in Tasks, NEW outcome, NEW p \in {"ctTx", "ftRead"}, ResultArrives(w, t, outcome, p)
      PROVE  TypeInv'
  <2> PICK e \in Execs : /\ held' = held \ {<<w, t, e>>}
                         /\ \/ Becomes(w, [Idle EXCEPT !.pc = p, !.task = t, !.eid = e])
                            \/ UNCHANGED thr
    BY ZenonT(30), <1>3 DEF ResultArrives
  <2>1. thr' \in [Threads -> ThreadState] /\ LocalsOK' /\ PhaseOK'
    <3> DEFINE r == [Idle EXCEPT !.pc = p, !.task = t, !.eid = e]
    <3>1. r \in ThreadState /\ LocalsFit(w, r) /\ r.pc # "rcRequeue"
      BY ZenonT(30), IdleType DEF ThreadState, Idle, LocalsFit, ResultPCs, SubmitPCs, PCs
    <3>2. up /\ up' = up
      BY <1>3 DEF ResultArrives, At, memVars
    <3> HIDE DEF r
    <3>3. CASE Becomes(w, r)
      BY <3>1, <3>2, <3>3, StepFits
    <3>4. CASE UNCHANGED thr
      BY <3>2, <3>4 DEF LocalsOK, PhaseOK, TypeInv, TypeOK
    <3> QED
      BY <3>3, <3>4 DEF r
  <2> QED
    BY ZenonT(30), <1>3, <2>1 DEF ResultArrives, TypeInv, TypeOK, StoreTypeOK, dbVars, memVars
<1> QED
  BY <1>1, <1>2, <1>3 DEF Receive, CompleteTask, FailTask

\* A step that leaves memory alone apart from the thread's locals.
LEMMA StepType ==
    ASSUME TypeInv, up, NEW x \in Threads, NEW r \in ThreadState, LocalsFit(x, r),
           r.pc # "rcRequeue", Becomes(x, r), StoreTypeOK', UNCHANGED <<memVars, envVars>>
    PROVE  TypeInv'
<1>1. thr' \in [Threads -> ThreadState] /\ LocalsOK' /\ PhaseOK'
  BY StepFits DEF memVars
<1> QED
  BY <1>1 DEF TypeInv, TypeOK, memVars, envVars

\* The type of the store across a step that does not write.
LEMMA UnchangedStoreType ==
    ASSUME StoreTypeOK, UNCHANGED dbVars
    PROVE  StoreTypeOK'
BY DEF StoreTypeOK, dbVars

LEMMA CompleteStepType ==
    ASSUME TypeInv, NEW w \in Workers,
           CompleteTaskTx(w) \/ CompleteTaskClean(w) \/ CheckDone(w) \/ CheckStatuses(w)
    PROVE  TypeInv'
<1>0. w \in Threads /\ w # Daemon
  BY CoordinatorAssumption, ThreadsType
<1>1. thr[w] \in ThreadState /\ LocalsFit(w, thr[w]) /\ StoreTypeOK
  BY <1>0, LocalsType
<1>2. LocalsFit(w, Idle) /\ Idle.pc # "rcRequeue" /\ Idle \in ThreadState
  BY <1>0, IdleFits, IdleType
<1>3. CASE CompleteTaskTx(w)
  <2> DEFINE t == thr[w].task
             r == [thr[w] EXCEPT !.pc = "ctClean", !.out = Unlocked(t)]
  <2>1. up /\ t \in Tasks /\ thr[w].eid \in Execs
    BY <1>1, <1>3 DEF CompleteTaskTx, At, LocalsFit, ResultPCs
  <2>2. r \in ThreadState /\ LocalsFit(w, r) /\ r.pc # "rcRequeue"
    <3>1. Unlocked(t) \in SUBSET Tasks
      BY ZenonT(30) DEF Unlocked, Unlocks, Downstream
    <3>2. r \in ThreadState
      BY ZenonT(30), <1>1, <3>1 DEF ThreadState, PCs
    <3>3. r.pc = "ctClean" /\ r.task = t /\ r.eid = thr[w].eid
      BY ZenonT(30), <1>1 DEF ThreadState
    <3> HIDE DEF r
    <3> QED
      BY <2>1, <3>2, <3>3 DEF LocalsFit, ResultPCs, SubmitPCs
  <2>3. CASE TxCompleteTask(t, thr[w].eid) /\ Becomes(w, r)
    <3>1. StoreTypeOK'
      BY <1>1, <2>1, <2>3 DEF TxCompleteTask, StoreTypeOK, Decremented, TaskStates
    <3> HIDE DEF r
    <3> QED
      BY <1>0, <1>3, <2>1, <2>2, <2>3, <3>1, StepType DEF CompleteTaskTx
  <2>4. CASE Return(w) /\ UNCHANGED dbVars
    BY <1>0, <1>1, <1>2, <1>3, <2>1, <2>4, StepType, UnchangedStoreType DEF CompleteTaskTx, Return
  <2> QED
    BY <1>3, <2>3, <2>4 DEF CompleteTaskTx
<1>4. CASE CompleteTaskClean(w)
  <2> DEFINE r == [Idle EXCEPT !.pc = "chkDone", !.wf = WfOf[thr[w].task]]
  <2>1. up /\ up' = up /\ thr[w].task \in Tasks /\ thr[w].out \in SUBSET Tasks
    BY <1>1, <1>4 DEF CompleteTaskClean, At, LocalsFit, ResultPCs, ThreadState
  <2>2. r \in ThreadState /\ LocalsFit(w, r) /\ r.pc # "rcRequeue"
    BY ZenonT(30), <1>0, <2>1, StoreAssumption DEF ThreadState, LocalsFit, ResultPCs, SubmitPCs, PCs, Idle
  <2>3. Becomes(w, r) \/ Becomes(w, Idle)
    BY <1>4 DEF CompleteTaskClean, Return
  <2>4. thr' \in [Threads -> ThreadState] /\ LocalsOK' /\ PhaseOK'
    <3> HIDE DEF r
    <3> QED
      BY ZenonT(30), <1>0, <1>2, <2>1, <2>2, <2>3, StepFits
  <2>5. readyQueue' \in Seq(Tasks)
    <3>1. PICK s \in Orders(thr[w].out) : readyQueue' = readyQueue \o s
      BY <1>4 DEF CompleteTaskClean
    <3>2. s \in Seq(Tasks)
      BY <2>1, OrderOfTasks
    <3> QED
      BY <3>1, <3>2 DEF TypeInv, TypeOK
  <2> QED
    BY ZenonT(30), <1>4, <2>4, <2>5 DEF CompleteTaskClean, Forget, TypeInv, TypeOK, StoreTypeOK, dbVars, envVars
<1>5. CASE CheckDone(w)
  <2> DEFINE r == [thr[w] EXCEPT !.pc = "chkStatus"]
  <2>1. r \in ThreadState /\ LocalsFit(w, r) /\ r.pc # "rcRequeue"
    BY <1>0, <1>1, <1>5 DEF CheckDone, At, ThreadState, LocalsFit, ResultPCs, SubmitPCs, PCs
  <2>2. Becomes(w, r) \/ Becomes(w, Idle)
    BY <1>5 DEF CheckDone, Return, Goto
  <2>3. StoreTypeOK' /\ up /\ UNCHANGED <<memVars, envVars>>
    BY <1>1, <1>5, UnchangedStoreType DEF CheckDone, At
  <2> HIDE DEF r
  <2> QED
    BY <1>0, <1>2, <2>1, <2>2, <2>3, StepType
<1>6. CASE CheckStatuses(w)
  <2> DEFINE r == [thr[w] EXCEPT !.pc = "setState", !.fin = FinalState(thr[w].wf)]
  <2>0. FinalState(thr[w].wf) \in WfStates
    BY DEF FinalState, WfStates
  <2>1. r \in ThreadState /\ LocalsFit(w, r) /\ r.pc # "rcRequeue"
    BY ZenonT(30), <1>0, <1>1, <1>6, <2>0 DEF CheckStatuses, At, ThreadState, LocalsFit, ResultPCs, SubmitPCs, PCs
  <2>2. Becomes(w, r)
    BY <1>6 DEF CheckStatuses
  <2>3. StoreTypeOK' /\ up /\ UNCHANGED <<memVars, envVars>>
    BY <1>1, <1>6, UnchangedStoreType DEF CheckStatuses, At
  <2> HIDE DEF r
  <2> QED
    BY <1>0, <2>1, <2>2, <2>3, StepType
<1> QED
  BY <1>3, <1>4, <1>5, <1>6

LEMMA RequeueType ==
    ASSUME StoreTypeOK, NEW t \in Tasks, TxRequeueTask(t)
    PROVE  StoreTypeOK'
BY DEF StoreTypeOK, TxRequeueTask, TaskStates

\* Threads that wait for c.mu and change the queue or the maps of a task.
LEMMA LockedStepType ==
    ASSUME TypeInv, up, NEW x \in Threads, NEW r \in ThreadState, LocalsFit(x, r),
           r.pc # "rcRequeue", Becomes(x, r), StoreTypeOK',
           mu' \in Clients \cup {Nil}, readyQueue' \in Seq(Tasks),
           runningTasks' \in [Tasks -> Workers \cup {Nil}],
           assignedTasks' \in [Tasks -> Execs \cup {Nil}],
           cached' \in SUBSET Workflows, tracked' \in SUBSET Workers,
           up' = up, UNCHANGED envVars
    PROVE  TypeInv'
<1>1. thr' \in [Threads -> ThreadState] /\ LocalsOK' /\ PhaseOK'
  BY StepFits
<1> QED
  BY <1>1 DEF TypeInv, TypeOK, envVars

LEMMA ForgetType ==
    ASSUME TypeInv, NEW t \in Tasks, Forget(t)
    PROVE  /\ runningTasks' \in [Tasks -> Workers \cup {Nil}]
           /\ assignedTasks' \in [Tasks -> Execs \cup {Nil}]
BY DEF TypeInv, TypeOK, Forget

LEMMA FailStepType ==
    ASSUME TypeInv, NEW w \in Workers,
           \/ FailTaskRead(w) \/ FailTaskRequeue(w) \/ FailTaskRequeued(w)
           \/ FailTaskFail(w) \/ FailTaskFailed(w)
    PROVE  TypeInv'
<1>0. w \in Threads /\ w # Daemon
  BY CoordinatorAssumption, ThreadsType
<1>1. thr[w] \in ThreadState /\ LocalsFit(w, thr[w]) /\ StoreTypeOK
  BY <1>0, LocalsType
<1>2. LocalsFit(w, Idle) /\ Idle.pc # "rcRequeue" /\ Idle \in ThreadState
  BY <1>0, IdleFits, IdleType
<1> DEFINE t == thr[w].task
<1>3. up /\ t \in Tasks /\ thr[w].eid \in Execs
  BY <1>1 DEF FailTaskRead, FailTaskRequeue, FailTaskRequeued, FailTaskFail, FailTaskFailed,
              At, LocalsFit, ResultPCs
<1>4. CASE FailTaskRead(w)
  <2> DEFINE n == attempts[t] + 1
             p == IF n < RetryLimit(t) THEN "ftRequeue" ELSE "ftFail"
             r == [thr[w] EXCEPT !.att = n, !.pc = p]
  <2>1. r \in ThreadState /\ LocalsFit(w, r) /\ r.pc # "rcRequeue"
    <3>1. n \in Nat
      BY <1>1, <1>3 DEF StoreTypeOK
    <3>2. p \in {"ftRequeue", "ftFail"}
      BY ZenonT(30)
    <3> HIDE DEF n, p
    <3> QED
      BY ZenonT(30), <1>0, <1>1, <1>3, <3>1, <3>2 DEF ThreadState, LocalsFit, ResultPCs, SubmitPCs, PCs
  <2>2. Becomes(w, r) /\ UNCHANGED <<dbVars, memVars, envVars>>
    BY <1>4 DEF FailTaskRead
  <2> HIDE DEF r
  <2> QED
    BY <1>0, <1>1, <1>3, <2>1, <2>2, StepType, UnchangedStoreType
<1>5. CASE FailTaskRequeue(w)
  <2> DEFINE r == [thr[w] EXCEPT !.pc = "ftRequeued"]
  <2>1. r \in ThreadState /\ LocalsFit(w, r) /\ r.pc # "rcRequeue"
    BY <1>0, <1>1, <1>3 DEF ThreadState, LocalsFit, ResultPCs, SubmitPCs, PCs
  <2>2. Becomes(w, r) /\ UNCHANGED <<memVars, envVars>> /\ StoreTypeOK'
    BY <1>1, <1>3, <1>5, RequeueType DEF FailTaskRequeue, Goto
  <2> HIDE DEF r
  <2> QED
    BY <1>0, <1>3, <2>1, <2>2, StepType
<1>6. CASE FailTaskRequeued(w)
  <2>1. Becomes(w, Idle) /\ UNCHANGED <<dbVars, up, mu, cached, tracked, envVars>> /\ Forget(t)
    BY ZenonT(30), <1>6 DEF FailTaskRequeued, Return
  <2>2. readyQueue' \in Seq(Tasks)
    <3>1. readyQueue' = Append(readyQueue, t)
      BY ZenonT(30), <1>6 DEF FailTaskRequeued
    <3> QED
      BY <1>3, <3>1, QueueType
  <2>3. StoreTypeOK'
    BY <1>1, <2>1, UnchangedStoreType
  <2>4. /\ runningTasks' \in [Tasks -> Workers \cup {Nil}]
        /\ assignedTasks' \in [Tasks -> Execs \cup {Nil}]
    BY ZenonT(30), <1>3, <2>1, ForgetType
  <2>5. mu' \in Clients \cup {Nil} /\ cached' \in SUBSET Workflows /\ tracked' \in SUBSET Workers
    BY <2>1 DEF TypeInv, TypeOK
  <2> QED
    BY ZenonT(30), <1>0, <1>2, <1>3, <2>1, <2>2, <2>3, <2>4, <2>5, LockedStepType
<1>7. CASE FailTaskFail(w)
  <2> DEFINE r == [thr[w] EXCEPT !.pc = "ftFailed"]
  <2>1. r \in ThreadState /\ LocalsFit(w, r) /\ r.pc # "rcRequeue"
    BY <1>0, <1>1, <1>3 DEF ThreadState, LocalsFit, ResultPCs, SubmitPCs, PCs
  <2>2. Becomes(w, r) /\ UNCHANGED <<memVars, envVars>>
    BY <1>7 DEF FailTaskFail, Goto
  <2>3. StoreTypeOK'
    BY ZenonT(30), <1>1, <1>3, <1>7 DEF FailTaskFail, TxFailTask, StoreTypeOK, TaskStates, ThreadState
  <2> HIDE DEF r
  <2> QED
    BY <1>0, <1>3, <2>1, <2>2, <2>3, StepType
<1>8. CASE FailTaskFailed(w)
  <2> DEFINE c == [Idle EXCEPT !.pc = "cancelTx", !.wf = WfOf[t], !.fin = "FAILED"]
             s == [Idle EXCEPT !.pc = "skip", !.wf = WfOf[t],
                       !.todo = Downstream(t), !.seen = Downstream(t)]
  <2>1. c \in ThreadState /\ LocalsFit(w, c) /\ c.pc # "rcRequeue"
    BY ZenonT(30), <1>0, <1>3, StoreAssumption, IdleType
    DEF ThreadState, LocalsFit, ResultPCs, SubmitPCs, PCs, Idle, WfStates
  <2>2. s \in ThreadState /\ LocalsFit(w, s) /\ s.pc # "rcRequeue"
    <3>1. Downstream(t) \in SUBSET Tasks
      BY DEF Downstream
    <3> QED
      BY ZenonT(30), <1>0, <1>3, <3>1, StoreAssumption, IdleType
      DEF ThreadState, LocalsFit, ResultPCs, SubmitPCs, PCs, Idle
  <2>3. Becomes(w, Idle) \/ Becomes(w, c) \/ Becomes(w, s)
    BY <1>8 DEF FailTaskFailed, Return
  <2>4. UNCHANGED <<dbVars, up, mu, readyQueue, cached, tracked, envVars>> /\ Forget(t)
    BY <1>8 DEF FailTaskFailed
  <2>5. StoreTypeOK'
    BY <1>1, <2>4, UnchangedStoreType
  <2>6. /\ runningTasks' \in [Tasks -> Workers \cup {Nil}]
        /\ assignedTasks' \in [Tasks -> Execs \cup {Nil}]
    BY ZenonT(30), <1>3, <2>4, ForgetType
  <2>7. /\ mu' \in Clients \cup {Nil} /\ cached' \in SUBSET Workflows
        /\ tracked' \in SUBSET Workers /\ readyQueue' \in Seq(Tasks)
    BY <2>4 DEF TypeInv, TypeOK
  <2> HIDE DEF c, s
  <2> QED
    BY ZenonT(30), <1>0, <1>2, <1>3, <2>1, <2>2, <2>3, <2>4, <2>5, <2>6, <2>7, LockedStepType
<1> QED
  BY <1>4, <1>5, <1>6, <1>7, <1>8

LEMMA SkipStepType ==
    ASSUME TypeInv, NEW w \in Workers, SkipVisit(w) \/ SkipWrite(w) \/ SkipDone(w)
    PROVE  TypeInv'
<1>0. w \in Threads /\ w # Daemon
  BY CoordinatorAssumption, ThreadsType
<1>1. thr[w] \in ThreadState /\ LocalsFit(w, thr[w]) /\ StoreTypeOK
  BY <1>0, LocalsType
<1>2. up /\ thr[w].wf \in Workflows
  BY ZenonT(30), <1>1 DEF SkipVisit, SkipWrite, SkipDone, At, LocalsFit
<1>3. CASE SkipVisit(w)
  <2>1. PICK u \in thr[w].todo :
          LET new == Downstream(u) \ thr[w].seen IN
          Becomes(w, [thr[w] EXCEPT
                          !.todo = (@ \ {u}) \cup new, !.seen = @ \cup new, !.task = u,
                          !.pc = IF taskState[u] \in Terminal THEN "skip" ELSE "skipWrite"])
    BY ZenonT(30), <1>3 DEF SkipVisit
  <2> DEFINE new == Downstream(u) \ thr[w].seen
             p == IF taskState[u] \in Terminal THEN "skip" ELSE "skipWrite"
             r == [thr[w] EXCEPT !.todo = (@ \ {u}) \cup new, !.seen = @ \cup new,
                                 !.task = u, !.pc = p]
  <2>2. u \in Tasks /\ new \in SUBSET Tasks
    BY <1>1, <2>1 DEF Downstream, ThreadState
  <2>3. p \in {"skip", "skipWrite"}
    OBVIOUS
  <2>4. Becomes(w, r)
    BY <2>1
  <2>5. r \in ThreadState /\ LocalsFit(w, r) /\ r.pc # "rcRequeue"
    <3> HIDE DEF new, p
    <3> QED
      BY ZenonT(30), <1>0, <1>1, <1>2, <2>2, <2>3 DEF ThreadState, LocalsFit, ResultPCs, SubmitPCs, PCs
  <2>6. UNCHANGED <<dbVars, memVars, envVars>>
    BY ZenonT(30), <1>3 DEF SkipVisit
  <2> HIDE DEF r
  <2> QED
    BY ZenonT(30), <1>0, <1>1, <1>2, <2>4, <2>5, <2>6, StepType, UnchangedStoreType
<1>4. CASE SkipWrite(w)
  <2> DEFINE o == thr[w].out \cup {thr[w].task}
             r == [thr[w] EXCEPT !.pc = "skip", !.out = o]
  <2>1. thr[w].task \in Tasks /\ o \in SUBSET Tasks
    BY <1>1, <1>4 DEF SkipWrite, At, LocalsFit, ThreadState
  <2>2. r \in ThreadState /\ LocalsFit(w, r) /\ r.pc # "rcRequeue"
    <3> HIDE DEF o
    <3>1. r \in ThreadState
      BY ZenonT(30), <1>1, <2>1 DEF ThreadState, PCs
    <3>2. r.pc = "skip" /\ r.wf = thr[w].wf
      BY <1>1, <2>1 DEF ThreadState
    <3> HIDE DEF r
    <3> QED
      BY <1>0, <1>2, <3>1, <3>2 DEF LocalsFit, ResultPCs, SubmitPCs
  <2>3. Becomes(w, r) /\ UNCHANGED <<memVars, envVars>>
    BY <1>4 DEF SkipWrite
  <2>4. StoreTypeOK'
    BY <1>1, <1>4, <2>1 DEF SkipWrite, TxUpdateTaskState, StoreTypeOK, TaskStates
  <2> HIDE DEF r
  <2> QED
    BY <1>0, <1>2, <2>2, <2>3, <2>4, StepType
<1>5. CASE SkipDone(w)
  <2> DEFINE p == IF thr[w].out = {} THEN "chkDone" ELSE "filter"
             r == [thr[w] EXCEPT !.pc = p]
  <2>1. p \in {"chkDone", "filter"}
    OBVIOUS
  <2>2. Becomes(w, r) /\ UNCHANGED <<dbVars, memVars, envVars>>
    BY <1>5 DEF SkipDone, Goto
  <2>3. r \in ThreadState /\ LocalsFit(w, r) /\ r.pc # "rcRequeue"
    <3> HIDE DEF p
    <3> QED
      BY <1>0, <1>1, <1>2, <2>1 DEF ThreadState, LocalsFit, ResultPCs, SubmitPCs, PCs
  <2> HIDE DEF r
  <2> QED
    BY <1>0, <1>1, <1>2, <2>2, <2>3, StepType, UnchangedStoreType
<1> QED
  BY <1>3, <1>4, <1>5

LEMMA CancelStepType ==
    ASSUME TypeInv, NEW x \in Workers \cup Clients, CancelStep(x)
    PROVE  TypeInv'
<1>0. x \in Threads /\ x # Daemon
  BY CoordinatorAssumption, ThreadsType
<1>1. thr[x] \in ThreadState /\ LocalsFit(x, thr[x]) /\ StoreTypeOK
  BY <1>0, LocalsType
<1>2. up /\ thr[x].wf \in Workflows
  BY <1>1 DEF CancelStep, CancelTasks, FilterQueue, SetWorkflowState, At, LocalsFit
<1>3. CASE CancelTasks(x)
  <2> DEFINE o == Cancellable(thr[x].wf)
             r == [thr[x] EXCEPT !.pc = "filter", !.out = o]
  <2>1. o \in SUBSET Tasks
    BY DEF Cancellable, Recorded, TasksOf
  <2>2. r \in ThreadState /\ LocalsFit(x, r) /\ r.pc # "rcRequeue"
    <3> HIDE DEF o
    <3>1. r \in ThreadState
      BY ZenonT(30), <1>1, <2>1 DEF ThreadState, PCs
    <3>2. r.pc = "filter" /\ r.wf = thr[x].wf
      BY <1>1, <2>1 DEF ThreadState
    <3> HIDE DEF r
    <3> QED
      BY <1>0, <1>2, <3>1, <3>2 DEF LocalsFit, ResultPCs, SubmitPCs
  <2>3. Becomes(x, r) /\ UNCHANGED <<memVars, envVars>>
    BY <1>3 DEF CancelTasks
  <2>4. StoreTypeOK'
    BY <1>1, <1>3 DEF CancelTasks, TxCancelWorkflowTasks, StoreTypeOK, TaskStates
  <2> HIDE DEF r
  <2> QED
    BY <1>0, <1>2, <2>2, <2>3, <2>4, StepType
<1>4. CASE FilterQueue(x)
  <2> DEFINE p == IF thr[x].fin = Nil THEN "chkDone" ELSE "setState"
             r == [thr[x] EXCEPT !.pc = p]
  <2>1. p = "chkDone" \/ (p = "setState" /\ thr[x].fin \in WfStates)
    BY ZenonT(30), <1>1 DEF ThreadState
  <2>2. Becomes(x, r)
    BY <1>4 DEF FilterQueue, Goto
  <2>3. r \in ThreadState /\ LocalsFit(x, r) /\ r.pc # "rcRequeue"
    <3> HIDE DEF p
    <3> QED
      BY <1>0, <1>1, <1>2, <2>1 DEF ThreadState, LocalsFit, ResultPCs, SubmitPCs, PCs
  <2>4. readyQueue' \in Seq(Tasks)
    <3>1. readyQueue' = Without(readyQueue, thr[x].out)
      BY ZenonT(30), <1>4 DEF FilterQueue
    <3> QED
      BY ZenonT(30), <3>1, QueueType, WithoutProperties
  <2>5. UNCHANGED <<dbVars, up, mu, runningTasks, assignedTasks, cached, tracked, envVars>>
    BY <1>4 DEF FilterQueue
  <2>6. StoreTypeOK'
    BY <1>1, <2>5, UnchangedStoreType
  <2>7. thr' \in [Threads -> ThreadState] /\ LocalsOK' /\ PhaseOK'
    <3> HIDE DEF r
    <3> QED
      BY <1>0, <1>2, <2>2, <2>3, <2>5, StepFits
  <2> QED
    BY <2>4, <2>5, <2>6, <2>7 DEF TypeInv, TypeOK, envVars
<1>5. CASE SetWorkflowState(x)
  <2>1. StoreTypeOK'
    BY ZenonT(30), <1>1, <1>2, <1>5 DEF SetWorkflowState, At, TxSetWorkflowState, StoreTypeOK, LocalsFit, taskVars
  <2> QED
    BY <1>0, <1>2, <1>5, <2>1, StepType, IdleFits, IdleType DEF SetWorkflowState, Return
<1> QED
  BY <1>3, <1>4, <1>5 DEF CancelStep

LEMMA SubmitCallType ==
    ASSUME TypeInv, NEW c \in Clients, SubmitWorkflow(c) \/ CancelWorkflow(c)
    PROVE  TypeInv'
<1>0. c \in Threads /\ c # Daemon
  BY CoordinatorAssumption, ThreadsType
<1>1. StoreTypeOK
  BY DEF TypeInv, TypeOK
<1>2. CASE SubmitWorkflow(c)
  <2>1. PICK wf \in Workflows :
          /\ TxStoreWorkflow(wf)
          /\ Becomes(c, [Idle EXCEPT !.pc = "sbInitWf", !.wf = wf])
    BY ZenonT(30), <1>2 DEF SubmitWorkflow
  <2> DEFINE r == [Idle EXCEPT !.pc = "sbInitWf", !.wf = wf]
  <2>2. r \in ThreadState /\ LocalsFit(c, r) /\ r.pc # "rcRequeue"
    BY ZenonT(30), <1>0, IdleType DEF ThreadState, LocalsFit, ResultPCs, SubmitPCs, PCs, Idle
  <2>3. StoreTypeOK'
    BY <1>1, <2>1 DEF TxStoreWorkflow, StoreTypeOK, taskVars
  <2>4. up /\ UNCHANGED <<memVars, envVars>> /\ Becomes(c, r)
    BY ZenonT(30), <1>2, <2>1 DEF SubmitWorkflow, At
  <2> HIDE DEF r
  <2> QED
    BY <1>0, <2>2, <2>3, <2>4, StepType
<1>3. CASE CancelWorkflow(c)
  <2>1. PICK wf \in Cancels :
          Becomes(c, [Idle EXCEPT !.pc = "cancelTx", !.wf = wf, !.fin = "CANCELLED"])
    BY ZenonT(30), <1>3 DEF CancelWorkflow
  <2> DEFINE r == [Idle EXCEPT !.pc = "cancelTx", !.wf = wf, !.fin = "CANCELLED"]
  <2>2. wf \in Workflows
    BY CoordinatorAssumption
  <2>3. r \in ThreadState /\ LocalsFit(c, r) /\ r.pc # "rcRequeue"
    BY ZenonT(30), <1>0, <2>2, IdleType DEF ThreadState, LocalsFit, ResultPCs, SubmitPCs, PCs, Idle, WfStates
  <2>4. up /\ UNCHANGED <<dbVars, memVars, envVars>> /\ Becomes(c, r)
    BY ZenonT(30), <1>3, <2>1 DEF CancelWorkflow, At
  <2> HIDE DEF r
  <2> QED
    BY <1>0, <1>1, <2>3, <2>4, StepType, UnchangedStoreType
<1> QED
  BY <1>2, <1>3

LEMMA SubmitStepType ==
    ASSUME TypeInv, NEW c \in Clients, SubmitStep(c)
    PROVE  TypeInv'
<1>0. c \in Threads /\ c # Daemon
  BY CoordinatorAssumption, ThreadsType
<1>1. thr[c] \in ThreadState /\ LocalsFit(c, thr[c]) /\ StoreTypeOK
  BY <1>0, LocalsType
<1>2. up /\ thr[c].wf \in Workflows
  BY <1>1 DEF SubmitStep, SubmitInitWorkflow, SubmitInitTasks, SubmitLock, SubmitQueue,
              SubmitReturn, At, LocalsFit, SubmitPCs
<1>3. CASE SubmitInitWorkflow(c)
  <2> DEFINE r == [thr[c] EXCEPT !.pc = "sbInitTasks"]
  <2>1. r \in ThreadState /\ LocalsFit(c, r) /\ r.pc # "rcRequeue"
    BY <1>0, <1>1, <1>2 DEF ThreadState, LocalsFit, ResultPCs, SubmitPCs, PCs
  <2>2. Becomes(c, r) /\ UNCHANGED <<memVars, envVars>>
    BY <1>3 DEF SubmitInitWorkflow, Goto
  <2>3. StoreTypeOK'
    BY ZenonT(30), <1>1, <1>2, <1>3 DEF SubmitInitWorkflow, TxSetWorkflowState, StoreTypeOK, WfStates, taskVars
  <2> HIDE DEF r
  <2> QED
    BY <1>0, <1>2, <2>1, <2>2, <2>3, StepType
<1>4. CASE SubmitInitTasks(c)
  <2> DEFINE r == [thr[c] EXCEPT !.pc = "sbLock"]
  <2>1. r \in ThreadState /\ LocalsFit(c, r) /\ r.pc # "rcRequeue"
    BY <1>0, <1>1, <1>2 DEF ThreadState, LocalsFit, ResultPCs, SubmitPCs, PCs
  <2>2. Becomes(c, r) /\ UNCHANGED <<memVars, envVars>>
    BY <1>4 DEF SubmitInitTasks, Goto
  <2>3. \A t \in Tasks : Cardinality(Deps[t]) \in Nat
    BY StoreAssumption, FS_Subset, FS_CardinalityType
  <2>4. StoreTypeOK'
    BY ZenonT(30), <1>1, <1>2, <1>4, <2>3 DEF SubmitInitTasks, TxInitializeTasks, StoreTypeOK, TaskStates
  <2> HIDE DEF r
  <2> QED
    BY <1>0, <1>2, <2>1, <2>2, <2>4, StepType
<1>5. CASE SubmitLock(c)
  <2> DEFINE roots == {t \in TasksOf(thr[c].wf) : Deps[t] = {}}
             r == [thr[c] EXCEPT !.pc = "sbQueue", !.todo = roots]
  <2>1. roots \in SUBSET Tasks
    BY DEF TasksOf
  <2>2. r \in ThreadState /\ LocalsFit(c, r) /\ r.pc # "rcRequeue"
    <3> HIDE DEF roots
    <3>1. r \in ThreadState
      BY ZenonT(30), <1>1, <2>1 DEF ThreadState, PCs
    <3>2. r.pc = "sbQueue" /\ r.wf = thr[c].wf
      BY <1>1, <2>1 DEF ThreadState
    <3> HIDE DEF r
    <3> QED
      BY ZenonT(30), <1>0, <1>2, <3>1, <3>2 DEF LocalsFit, ResultPCs, SubmitPCs
  <2>3. /\ Becomes(c, r) /\ mu' = c /\ cached' = cached \cup {thr[c].wf}
        /\ UNCHANGED <<dbVars, up, readyQueue, runningTasks, assignedTasks, tracked, envVars>>
    BY <1>5 DEF SubmitLock
  <2>4. StoreTypeOK'
    BY <1>1, <2>3, UnchangedStoreType
  <2>5. /\ mu' \in Clients \cup {Nil} /\ cached' \in SUBSET Workflows
        /\ tracked' \in SUBSET Workers /\ readyQueue' \in Seq(Tasks)
        /\ runningTasks' \in [Tasks -> Workers \cup {Nil}]
        /\ assignedTasks' \in [Tasks -> Execs \cup {Nil}]
    BY <1>2, <2>3 DEF TypeInv, TypeOK
  <2> HIDE DEF r
  <2> QED
    BY <1>0, <1>2, <2>2, <2>3, <2>4, <2>5, LockedStepType
<1>6. CASE SubmitQueue(c)
  <2>1. PICK t \in thr[c].todo :
          /\ TxUpdateTaskState(t, "QUEUED")
          /\ readyQueue' = Append(readyQueue, t)
          /\ Becomes(c, [thr[c] EXCEPT !.todo = @ \ {t}])
    BY ZenonT(30), <1>6 DEF SubmitQueue
  <2> DEFINE rest == thr[c].todo \ {t}
             r == [thr[c] EXCEPT !.todo = rest]
  <2>2. t \in Tasks /\ rest \in SUBSET Tasks
    BY <1>1, <2>1 DEF ThreadState
  <2>3. r \in ThreadState /\ LocalsFit(c, r) /\ r.pc # "rcRequeue"
    <3> HIDE DEF rest
    <3>1. r \in ThreadState
      BY <1>1, <1>6, <2>2 DEF ThreadState, PCs
    <3>2. r.pc = "sbQueue" /\ r.wf = thr[c].wf
      BY <1>1, <1>6, <2>2 DEF SubmitQueue, At, ThreadState
    <3> HIDE DEF r
    <3> QED
      BY ZenonT(30), <1>0, <1>2, <3>1, <3>2 DEF LocalsFit, ResultPCs, SubmitPCs
  <2>4. /\ Becomes(c, r)
        /\ UNCHANGED <<up, mu, runningTasks, assignedTasks, cached, tracked, envVars>>
    BY <1>6, <2>1 DEF SubmitQueue
  <2>5. StoreTypeOK'
    BY <1>1, <2>1, <2>2 DEF TxUpdateTaskState, StoreTypeOK, TaskStates
  <2>6. /\ mu' \in Clients \cup {Nil} /\ cached' \in SUBSET Workflows
        /\ tracked' \in SUBSET Workers /\ readyQueue' \in Seq(Tasks)
        /\ runningTasks' \in [Tasks -> Workers \cup {Nil}]
        /\ assignedTasks' \in [Tasks -> Execs \cup {Nil}]
    BY <2>1, <2>2, <2>4 DEF TypeInv, TypeOK
  <2> HIDE DEF r
  <2> QED
    BY ZenonT(30), <1>0, <1>2, <2>3, <2>4, <2>5, <2>6, LockedStepType
<1>7. CASE SubmitReturn(c)
  <2>1. /\ Becomes(c, Idle) /\ mu' = Nil
        /\ UNCHANGED <<dbVars, up, readyQueue, runningTasks, assignedTasks, cached, tracked, envVars>>
    BY ZenonT(30), <1>7 DEF SubmitReturn, Return
  <2>2. /\ mu' \in Clients \cup {Nil} /\ cached' \in SUBSET Workflows
        /\ tracked' \in SUBSET Workers /\ readyQueue' \in Seq(Tasks)
        /\ runningTasks' \in [Tasks -> Workers \cup {Nil}]
        /\ assignedTasks' \in [Tasks -> Execs \cup {Nil}]
    BY <2>1 DEF TypeInv, TypeOK
  <2> QED
    BY ZenonT(30), <1>0, <1>1, <1>2, <2>1, <2>2, LockedStepType, UnchangedStoreType, IdleFits, IdleType
<1> QED
  BY <1>3, <1>4, <1>5, <1>6, <1>7 DEF SubmitStep

LEMMA DeadWorkerType ==
    ASSUME TypeInv, NEW w \in Workers, HandleDeadWorker(w)
    PROVE  TypeInv'
<1> DEFINE dead == {t \in Tasks : runningTasks[t] = w}
           r == [Idle EXCEPT !.pc = "dwRequeue", !.who = w, !.todo = dead]
<1>1. Daemon \in Threads
  BY ThreadsType
<1>2. dead \in SUBSET Tasks
  OBVIOUS
<1>3. r \in ThreadState /\ LocalsFit(Daemon, r) /\ r.pc # "rcRequeue"
  <2> HIDE DEF dead
  <2> QED
    BY ZenonT(30), <1>1, <1>2, IdleType DEF ThreadState, LocalsFit, ResultPCs, SubmitPCs, PCs, Idle
<1>4. /\ up /\ Becomes(Daemon, r)
      /\ UNCHANGED <<dbVars, up, mu, readyQueue, cached, tracked, envVars>>
  BY DEF HandleDeadWorker, At
<1>5. /\ runningTasks' \in [Tasks -> Workers \cup {Nil}]
      /\ assignedTasks' \in [Tasks -> Execs \cup {Nil}]
  BY DEF HandleDeadWorker, TypeInv, TypeOK
<1>6. /\ mu' \in Clients \cup {Nil} /\ cached' \in SUBSET Workflows
      /\ tracked' \in SUBSET Workers /\ readyQueue' \in Seq(Tasks)
  BY <1>4 DEF TypeInv, TypeOK
<1>7. StoreTypeOK'
  BY <1>4, UnchangedStoreType DEF TypeInv, TypeOK
<1> HIDE DEF r
<1> QED
  BY <1>1, <1>3, <1>4, <1>5, <1>6, <1>7, LockedStepType

\* The heartbeat monitor, after its first critical section.
LEMMA MonitorStepType ==
    ASSUME TypeInv, DeadRequeue \/ DeadAppend \/ DeadRemove
    PROVE  TypeInv'
<1>0. Daemon \in Threads
  BY ThreadsType
<1>1. thr[Daemon] \in ThreadState /\ LocalsFit(Daemon, thr[Daemon]) /\ StoreTypeOK
  BY <1>0, LocalsType
<1>2. CASE DeadRequeue
  <2>1. PICK t \in thr[Daemon].todo :
          /\ TxRequeueTask(t)
          /\ Becomes(Daemon, [thr[Daemon] EXCEPT !.pc = "dwAppend", !.task = t, !.todo = @ \ {t}])
    BY ZenonT(30), <1>2 DEF DeadRequeue
  <2> DEFINE rest == thr[Daemon].todo \ {t}
             r == [thr[Daemon] EXCEPT !.pc = "dwAppend", !.task = t, !.todo = rest]
  <2>2. t \in Tasks /\ rest \in SUBSET Tasks
    BY <1>1, <2>1 DEF ThreadState
  <2>3. r \in ThreadState /\ r.pc = "dwAppend" /\ r.task = t
    <3> HIDE DEF rest
    <3> QED
      BY ZenonT(30), <1>1, <2>2 DEF ThreadState, PCs
  <2>4. up /\ Becomes(Daemon, r) /\ UNCHANGED <<memVars, envVars>>
    BY ZenonT(30), <1>2, <2>1 DEF DeadRequeue, At
  <2>5. StoreTypeOK'
    BY <1>1, <2>1, <2>2, RequeueType
  <2> HIDE DEF r
  <2>6. LocalsFit(Daemon, r)
    BY <2>2, <2>3 DEF LocalsFit, ResultPCs, SubmitPCs
  <2> QED
    BY ZenonT(30), <1>0, <2>3, <2>4, <2>5, <2>6, StepType
<1>3. CASE DeadAppend
  <2> DEFINE r == [thr[Daemon] EXCEPT !.pc = "dwRequeue"]
  <2>1. r \in ThreadState /\ r.pc = "dwRequeue"
    BY <1>1 DEF ThreadState, PCs
  <2>2. /\ up /\ Becomes(Daemon, r) /\ readyQueue' = Append(readyQueue, thr[Daemon].task)
        /\ UNCHANGED <<dbVars, up, mu, runningTasks, assignedTasks, cached, tracked, envVars>>
    BY <1>3 DEF DeadAppend, At, Goto
  <2>3. thr[Daemon].task \in Tasks
    BY ZenonT(30), <1>1, <1>3 DEF DeadAppend, At, LocalsFit
  <2>4. /\ mu' \in Clients \cup {Nil} /\ cached' \in SUBSET Workflows
        /\ tracked' \in SUBSET Workers /\ readyQueue' \in Seq(Tasks)
        /\ runningTasks' \in [Tasks -> Workers \cup {Nil}]
        /\ assignedTasks' \in [Tasks -> Execs \cup {Nil}]
    BY <2>2, <2>3 DEF TypeInv, TypeOK
  <2> HIDE DEF r
  <2>5. LocalsFit(Daemon, r)
    BY <2>1 DEF LocalsFit, ResultPCs, SubmitPCs
  <2> QED
    BY ZenonT(30), <1>0, <1>1, <2>1, <2>2, <2>4, <2>5, LockedStepType, UnchangedStoreType
<1>4. CASE DeadRemove
  <2> DEFINE r == [thr[Daemon] EXCEPT !.pc = "dwForget"]
  <2>1. r \in ThreadState /\ r.pc = "dwForget"
    BY <1>1 DEF ThreadState, PCs
  <2>2. /\ Becomes(Daemon, r) \/ Becomes(Daemon, Idle)
        /\ up
        /\ tracked' = tracked \ {thr[Daemon].who}
        /\ UNCHANGED <<dbVars, up, mu, readyQueue, runningTasks, assignedTasks, cached, envVars>>
    BY <1>4 DEF DeadRemove, At, Goto, Return
  <2>3. /\ mu' \in Clients \cup {Nil} /\ cached' \in SUBSET Workflows
        /\ tracked' \in SUBSET Workers /\ readyQueue' \in Seq(Tasks)
        /\ runningTasks' \in [Tasks -> Workers \cup {Nil}]
        /\ assignedTasks' \in [Tasks -> Execs \cup {Nil}]
    BY <2>2 DEF TypeInv, TypeOK
  <2> HIDE DEF r
  <2>4. LocalsFit(Daemon, r)
    BY <2>1 DEF LocalsFit, ResultPCs, SubmitPCs
  <2> QED
    BY ZenonT(30), <1>0, <1>1, <2>1, <2>2, <2>3, <2>4, LockedStepType, UnchangedStoreType, IdleFits, IdleType
<1> QED
  BY <1>2, <1>3, <1>4

\* Start-up: the coordinator is not up and only the main goroutine moves.
LEMMA RecoveryStepType ==
    ASSUME TypeInv, LoadStateFromDB \/ PrepareRecovery \/ Start
    PROVE  TypeInv'
<1>0. Daemon \in Threads
  BY ThreadsType
<1>1. thr[Daemon] \in ThreadState /\ LocalsFit(Daemon, thr[Daemon]) /\ StoreTypeOK
  BY <1>0, LocalsType
<1>2. ~up /\ \A x \in Threads : x # Daemon => thr[x].pc = "idle"
  BY DEF LoadStateFromDB, PrepareRecovery, Start, TypeInv, LocalsOK
<1>3. ASSUME NEW r \in ThreadState, r.pc = "rcRequeue", Becomes(Daemon, r), up' = up
      PROVE  thr' \in [Threads -> ThreadState] /\ LocalsOK' /\ PhaseOK'
  <2>1. thr' \in [Threads -> ThreadState]
    BY <1>0, <1>3, BecomesType DEF TypeInv, TypeOK
  <2>2. \A y \in Threads : thr'[y] = IF y = Daemon THEN r ELSE thr[y]
    BY <1>3 DEF Becomes, TypeInv, TypeOK
  <2>3. LocalsFit(Daemon, r)
    BY <1>3 DEF LocalsFit, ResultPCs, SubmitPCs
  <2>4. LocalsOK' /\ PhaseOK'
    BY <1>0, <1>2, <1>3, <2>2, <2>3 DEF LocalsOK, PhaseOK, TypeInv
  <2> QED
    BY <2>1, <2>4
<1>4. CASE LoadStateFromDB
  <2> DEFINE r == [Idle EXCEPT !.pc = "rcRequeue", !.todo = Interrupted]
  <2>1. Interrupted \in SUBSET Tasks /\ QueuedOnDisk \in SUBSET Tasks
    BY DEF Interrupted, QueuedOnDisk, InState
  <2>2. r \in ThreadState /\ r.pc = "rcRequeue"
    BY ZenonT(30), <2>1, IdleType DEF ThreadState, PCs, Idle
  <2>3. readyQueue' \in Seq(Tasks)
    BY <1>4, <2>1, OrderOfTasks DEF LoadStateFromDB
  <2>4. /\ Becomes(Daemon, r) /\ cached' \in SUBSET Workflows
        /\ UNCHANGED <<dbVars, up, mu, runningTasks, assignedTasks, tracked, envVars>>
    BY <1>1, <1>4 DEF LoadStateFromDB, StoreTypeOK
  <2>5. thr' \in [Threads -> ThreadState] /\ LocalsOK' /\ PhaseOK'
    <3> HIDE DEF r
    <3> QED
      BY <1>3, <2>2, <2>4
  <2> QED
    BY <1>1, <2>3, <2>4, <2>5, UnchangedStoreType DEF TypeInv, TypeOK, envVars
<1>5. CASE PrepareRecovery
  <2>1. PICK t \in thr[Daemon].todo :
          /\ TxRequeueTask(t)
          /\ readyQueue' = Append(readyQueue, t)
          /\ Becomes(Daemon, [thr[Daemon] EXCEPT !.todo = @ \ {t}])
    BY ZenonT(30), <1>5 DEF PrepareRecovery
  <2> DEFINE rest == thr[Daemon].todo \ {t}
             r == [thr[Daemon] EXCEPT !.todo = rest]
  <2>2. t \in Tasks /\ rest \in SUBSET Tasks
    BY <1>1, <2>1 DEF ThreadState
  <2>3. r \in ThreadState /\ r.pc = "rcRequeue"
    <3> HIDE DEF rest
    <3> QED
      BY ZenonT(30), <1>1, <1>5, <2>2 DEF PrepareRecovery, ThreadState
  <2>4. /\ Becomes(Daemon, r)
        /\ UNCHANGED <<up, mu, runningTasks, assignedTasks, cached, tracked, envVars>>
    BY <1>5, <2>1 DEF PrepareRecovery
  <2>5. thr' \in [Threads -> ThreadState] /\ LocalsOK' /\ PhaseOK'
    <3> HIDE DEF r
    <3> QED
      BY <1>3, <2>3, <2>4
  <2>6. StoreTypeOK' /\ readyQueue' \in Seq(Tasks)
    BY <1>1, <2>1, <2>2, RequeueType DEF TypeInv, TypeOK
  <2> QED
    BY <2>4, <2>5, <2>6 DEF TypeInv, TypeOK, envVars
<1>6. CASE Start
  <2>1. /\ Becomes(Daemon, Idle) /\ up' = TRUE
        /\ UNCHANGED <<dbVars, mu, readyQueue, runningTasks, assignedTasks, cached, tracked, envVars>>
    BY ZenonT(30), <1>6 DEF Start, Return
  <2>2. thr' \in [Threads -> ThreadState]
    BY <1>0, <2>1, BecomesType, IdleType DEF TypeInv, TypeOK
  <2>3. \A y \in Threads : thr'[y] = IF y = Daemon THEN Idle ELSE thr[y]
    BY <2>1 DEF Becomes, TypeInv, TypeOK
  <2>4. LocalsOK' /\ PhaseOK'
    BY ZenonT(30), <1>0, <2>1, <2>3, IdleFits DEF LocalsOK, PhaseOK, TypeInv
  <2> QED
    BY <1>1, <2>1, <2>2, <2>4, UnchangedStoreType DEF TypeInv, TypeOK, envVars
<1> QED
  BY <1>4, <1>5, <1>6

LEMMA CrashType ==
    ASSUME TypeInv, Crash
    PROVE  TypeInv'
<1>1. StoreTypeOK'
  BY UnchangedStoreType DEF TypeInv, TypeOK, Crash
<1>2. \A x \in Threads : thr'[x] = Idle
  BY ZenonT(30) DEF Crash
<1>3. thr' \in [Threads -> ThreadState]
  BY ZenonT(30), IdleType DEF Crash
<1>4. Idle.pc = "idle"
  BY ZenonT(30) DEF Idle
<1>5. LocalsOK' /\ PhaseOK'
  BY ZenonT(30), <1>2, <1>4, IdleFits, ThreadsType DEF LocalsOK, PhaseOK
<1>6. /\ up' \in BOOLEAN /\ mu' \in Clients \cup {Nil} /\ readyQueue' \in Seq(Tasks)
      /\ cached' \in SUBSET Workflows /\ tracked' \in SUBSET Workers
      /\ runningTasks' \in [Tasks -> Workers \cup {Nil}]
      /\ assignedTasks' \in [Tasks -> Execs \cup {Nil}]
  <2>1. up' \in BOOLEAN
    BY ZenonT(30) DEF Crash
  <2>2. mu' \in Clients \cup {Nil} /\ readyQueue' \in Seq(Tasks)
    BY DEF Crash
  <2>3. cached' \in SUBSET Workflows /\ tracked' \in SUBSET Workers
    BY ZenonT(30) DEF Crash
  <2>4. /\ runningTasks' \in [Tasks -> Workers \cup {Nil}]
        /\ assignedTasks' \in [Tasks -> Execs \cup {Nil}]
    BY ZenonT(30) DEF Crash
  <2> QED
    BY <2>1, <2>2, <2>3, <2>4
<1>7. alive' \in SUBSET Workers /\ held' \in SUBSET (Workers \X Tasks \X Execs)
  BY ZenonT(30) DEF Crash, TypeInv, TypeOK
<1> QED
  BY ZenonT(30), <1>1, <1>3, <1>5, <1>6, <1>7 DEF TypeInv, TypeOK

LEMMA StoreErrorType ==
    ASSUME TypeInv, NEW x \in Threads, StoreError(x)
    PROVE  TypeInv'
<1>1. thr[x] \in ThreadState /\ LocalsFit(x, thr[x]) /\ StoreTypeOK
  BY LocalsType
<1>2. UNCHANGED <<dbVars, up, readyQueue, runningTasks, assignedTasks, cached, tracked, envVars>>
  BY DEF StoreError
<1>3. mu' \in Clients \cup {Nil}
  BY DEF StoreError, TypeInv, TypeOK
<1>4. thr' \in [Threads -> ThreadState] /\ LocalsOK' /\ PhaseOK'
  <2>1. CASE up /\ Becomes(x, Idle)
    BY <1>2, <2>1, StepFits, IdleFits, IdleType
  <2>2. CASE At(x, "skipWrite") /\ Goto(x, "skip")
    <3> DEFINE r == [thr[x] EXCEPT !.pc = "skip"]
    <3>1. r \in ThreadState /\ r.pc = "skip" /\ r.wf = thr[x].wf /\ up
      BY <1>1, <2>2 DEF At, ThreadState, PCs
    <3>2. x # Daemon /\ thr[x].wf \in Workflows
      BY ZenonT(30), <1>1, <2>2 DEF At, LocalsFit
    <3>3. Becomes(x, r)
      BY <2>2 DEF Goto
    <3> HIDE DEF r
    <3>4. LocalsFit(x, r)
      BY ZenonT(30), <3>1, <3>2 DEF LocalsFit, ResultPCs, SubmitPCs
    <3> QED
      BY ZenonT(30), <1>2, <3>1, <3>3, <3>4, StepFits
  <2>3. CASE /\ thr[x].pc \in {"dwRequeue", "rcRequeue"}
             /\ \E t \in thr[x].todo : Becomes(x, [thr[x] EXCEPT !.todo = @ \ {t}])
    <3>1. PICK t \in thr[x].todo : Becomes(x, [thr[x] EXCEPT !.todo = @ \ {t}])
      BY <2>3
    <3> DEFINE rest == thr[x].todo \ {t}
               r == [thr[x] EXCEPT !.todo = rest]
    <3>2. rest \in SUBSET Tasks
      BY ZenonT(30), <1>1 DEF ThreadState
    <3>3. r \in ThreadState /\ r.pc = thr[x].pc
      <4> HIDE DEF rest
      <4> QED
        BY <1>1, <3>2 DEF ThreadState
    <3>4. Becomes(x, r)
      BY <3>1
    <3> HIDE DEF r
    <3>5. x = Daemon /\ LocalsFit(x, r)
      BY <1>1, <2>3, <3>3 DEF LocalsFit, ResultPCs, SubmitPCs
    <3>6. thr' \in [Threads -> ThreadState]
      BY ZenonT(30), <3>3, <3>4, BecomesType DEF TypeInv, TypeOK
    <3>7. \A y \in Threads : thr'[y] = IF y = x THEN r ELSE thr[y]
      BY <3>4 DEF Becomes, TypeInv, TypeOK
    <3> QED
      BY ZenonT(30), <1>2, <3>3, <3>5, <3>6, <3>7 DEF LocalsOK, PhaseOK, TypeInv
  <2> QED
    BY <2>1, <2>2, <2>3 DEF StoreError, At, Return
<1> QED
  BY ZenonT(30), <1>1, <1>2, <1>3, <1>4, UnchangedStoreType DEF TypeInv, TypeOK, envVars

LEMMA WorkerFaultType ==
    ASSUME TypeInv, NEW w \in Workers, WorkerCrash(w) \/ StreamBreak(w)
    PROVE  TypeInv'
<1>1. UNCHANGED <<dbVars, memVars, thr>> /\ alive' \in SUBSET Workers
      /\ held' \in SUBSET (Workers \X Tasks \X Execs)
  BY DEF WorkerCrash, StreamBreak, Drop, TypeInv, TypeOK
<1> QED
  BY ZenonT(30), <1>1, UnchangedStoreType DEF TypeInv, TypeOK, LocalsOK, PhaseOK, memVars

LEMMA StutterType ==
    ASSUME TypeInv, UNCHANGED vars
    PROVE  TypeInv'
BY ZenonT(30), UnchangedStoreType DEF TypeInv, TypeOK, LocalsOK, PhaseOK, vars, memVars, envVars

LEMMA TypeNext ==
    ASSUME TypeInv, [Next]_vars
    PROVE  TypeInv'
<1>1. ASSUME NEW w \in Workers, ResultStep(w)
      PROVE  TypeInv'
  BY <1>1, CompleteStepType, FailStepType, SkipStepType DEF ResultStep
<1>2. CASE DaemonStep
  BY <1>2, MonitorStepType, RecoveryStepType DEF DaemonStep
<1>3. CASE EnvStep
  BY <1>3, CrashType, StoreErrorType, WorkerFaultType DEF EnvStep
<1> QED
  BY <1>1, <1>2, <1>3, ReceiveType, DeadWorkerType, SubmitCallType, SubmitStepType, CancelStepType,
     StutterType DEF Next

\* Type correctness of the coordinator in every run of the system, with
\* crashes, store errors and every overlap of handlers: no handler acts on a
\* local it has not set, and the queue and the maps hold ids of their kind.
THEOREM TypeCorrect == Spec => []TypeOK
<1>1. Init => TypeInv
  BY TypeInit
<1>2. TypeInv /\ [Next]_vars => TypeInv'
  BY TypeNext
<1>3. TypeInv => TypeOK
  BY DEF TypeInv
<1> QED
  BY <1>1, <1>2, <1>3, PTL DEF Spec
=============================================================================
