------------------------------ MODULE DagProofs ------------------------------
(***************************************************************************)
(* Theorems about DagResolver, for every set of specs: the verdict of      *)
(* ValidateAndSort is right, in whatever order Go walks the maps.          *)
(*                                                                         *)
(*   BuildInv    the maps hold exactly the tasks read so far               *)
(*   SearchInv   the depth-first search: what the colours and the calls in *)
(*               progress say about each other, and that the black tasks   *)
(*               can be put in an order                                    *)
(***************************************************************************)
EXTENDS DagResolver, FiniteSetTheorems, TLAPS

\* The provers tried at a leaf that names none, in this order.
USE SMTT(30), ZenonT(20), SMTT(40)

TaskSpecs == [id : Ids, deps : Seq(Ids)]

Built == Cardinality(tasks)

\* The first tasks of the spec are the keys of the map, with their lists.
Loaded ==
    /\ spec \in Seq(TaskSpecs)
    /\ IsFiniteSet(tasks) /\ Built <= Len(spec)
    /\ tasks = {spec[i].id : i \in 1..Built}
    /\ \A i \in 1..Built : dependencies[spec[i].id] = spec[i].deps
    /\ \A i, j \in 1..Built : spec[i].id = spec[j].id => i = j

BuildInv ==
    /\ Loaded
    /\ pc \in {"build", "link", "search"} \cup Verdicts
    /\ pc = "duplicate" => \E i, j \in 1..Len(spec) : i # j /\ spec[i].id = spec[j].id
    /\ pc \notin {"build", "duplicate"} => Built = Len(spec)
    /\ pc = "missing" => \E t \in tasks : ~(Members(dependencies[t]) \subseteq tasks)
    /\ pc \in {"link", "search", "cyclic", "valid"} =>
          \A t \in tasks : Members(dependencies[t]) \subseteq tasks

Frames == [task : tasks, next : Nat \ {0}]

\* The dependency at a position of a task's list.
Dep(t, k) == dependencies[t][k]

Blacks == {t \in tasks : color[t] = Black}

\* Every set of tasks from B has a member that depends on none of the set.
Sorted(B) == \A S \in SUBSET B : S # {} => \E t \in S : Members(dependencies[t]) \cap S = {}

\* The first n frames of st and the colours col fit the graph D: the tasks of
\* the frames are the gray ones and differ, each calls the next for its last
\* dependency, and the dependencies before that one are black.
CallsFit(D, st, n, col) ==
    /\ \A i \in 1..n : /\ st[i].task \in DOMAIN D /\ st[i].next \in Nat \ {0}
                       /\ col[st[i].task] = Gray
                       /\ st[i].next <= Len(D[st[i].task]) + 1
    /\ \A t \in DOMAIN D : col[t] = Gray => \E i \in 1..n : st[i].task = t
    /\ \A i, j \in 1..n : st[i].task = st[j].task => i = j
    /\ \A i \in 1..n : i < n => st[i].next > 1 /\ st[i + 1].task = D[st[i].task][st[i].next - 1]
    /\ \A i \in 1..n : \A k \in 1..(st[i].next - 1) :
          col[D[st[i].task][k]] = Black \/ (i < n /\ k = st[i].next - 1)

\* The dependencies of D's tasks are lists of D's tasks.
Graph(D) ==
    \A t \in DOMAIN D : Len(D[t]) \in Nat /\ \A k \in 1..Len(D[t]) : D[t][k] \in DOMAIN D

\* Of the tasks of D only d changes colour, to c.
Recolored(D, col, col2, d, c) == col2[d] = c /\ \A t \in DOMAIN D : t # d => col2[t] = col[t]

CallsOK == stack \in Seq(Frames) /\ CallsFit(dependencies, stack, Len(stack), color)

ColorsOK ==
    /\ color \in [tasks -> {White, Gray, Black}]
    /\ todo \subseteq tasks
    /\ \A t \in tasks : color[t] = White => t \in todo
    /\ \A t \in Blacks : Members(dependencies[t]) \subseteq Blacks
    /\ Sorted(Blacks)

SearchInv ==
    /\ pc \in {"build", "link"} => stack = <<>>
    /\ pc = "search" => ColorsOK /\ CallsOK
    /\ pc = "cyclic" => ~Acyclic(dependencies)
    /\ pc = "valid" => Acyclic(dependencies)
-----------------------------------------------------------------------------
(* The loops before the search. *)

LEMMA BuildInit == DagInit => BuildInv
<1> SUFFICES ASSUME DagInit PROVE BuildInv
  OBVIOUS
<1>1. tasks = {}
  BY DEF DagInit, tasks
<1>2. IsFiniteSet(tasks) /\ Built = 0
  BY <1>1, FS_EmptySet DEF Built
<1>3. spec \in Seq(TaskSpecs) /\ Len(spec) \in Nat
  <2>1. spec \in Seq(TaskSpecs)
    BY ZenonT(30), ResolverAssumption DEF DagInit, TaskSpecs
  <2> QED
    BY <2>1
<1>4. Loaded
  BY <1>1, <1>2, <1>3 DEF Loaded
<1> QED
  BY <1>4 DEF DagInit, BuildInv

LEMMA SameLoaded == UNCHANGED <<spec, dependencies>> => Loaded' = Loaded
BY DEF Loaded, tasks, Built

\* Reading a task with a new id adds one key to the map.
LEMMA BuildTaskBuild ==
    ASSUME BuildInv, BuildTask
    PROVE  BuildInv'
<1> DEFINE task == spec[Built + 1]
<1>1. /\ pc = "build" /\ spec' = spec /\ Len(spec) \in Nat /\ Built \in Nat /\ Built < Len(spec)
      /\ Built + 1 \in 1..Len(spec) /\ 1..Built \subseteq 1..Len(spec)
  BY FS_CardinalityType DEF BuildInv, Loaded, BuildTask, Built
<1>2. CASE task.id \in tasks
  <2>1. pc' = "duplicate" /\ dependencies' = dependencies /\ tasks' = tasks /\ Built' = Built
    BY <1>2 DEF BuildTask, graphVars, Built, tasks
  <2>2. \E i, j \in 1..Len(spec) : i # j /\ spec[i].id = spec[j].id
    <3>1. PICK i \in 1..Built : spec[i].id = task.id
      BY <1>2 DEF BuildInv, Loaded
    <3> QED
      BY <1>1, <3>1
  <2> QED
    BY <1>1, <2>1, <2>2, SameLoaded DEF BuildInv, Verdicts
<1>3. CASE task.id \notin tasks
  <2>1. pc' = "build" /\ dependencies' = Put(dependencies, task.id, task.deps)
    BY <1>1, <1>3 DEF BuildTask, Built
  <2>2. /\ tasks' = tasks \cup {task.id}
        /\ dependencies'[task.id] = task.deps
        /\ \A t \in tasks : dependencies'[t] = dependencies[t]
    BY <1>3, <2>1 DEF Put, tasks
  <2>3. IsFiniteSet(tasks') /\ Built' = Built + 1
    BY <1>3, <2>2, FS_AddElement DEF BuildInv, Loaded, Built
  <2>4. 1..Built' = 1..Built \cup {Built + 1} /\ Built + 1 \notin 1..Built
    BY <1>1, <2>3
  <2>5. \A i \in 1..Built : spec[i].id \in tasks /\ spec[i].id # task.id
    BY <1>3 DEF BuildInv, Loaded
  <2>6. tasks' = {spec[i].id : i \in 1..Built'}
    BY <2>2, <2>4 DEF BuildInv, Loaded
  <2>7. \A i \in 1..Built' : dependencies'[spec[i].id] = spec[i].deps
    BY <2>2, <2>4, <2>5 DEF BuildInv, Loaded
  <2>8. \A i, j \in 1..Built' : spec[i].id = spec[j].id => i = j
    BY <2>4, <2>5 DEF BuildInv, Loaded
  <2> QED
    <3>1. Loaded'
      BY <1>1, <2>3, <2>6, <2>7, <2>8 DEF BuildInv, Loaded
    <3> QED
      BY <2>1, <3>1 DEF BuildInv
<1> QED
  BY <1>2, <1>3

\* A step after the first loop leaves the maps of tasks and dependencies.
LEMMA KeepsBuild ==
    ASSUME BuildInv, UNCHANGED <<spec, dependencies>>, pc \notin {"build", "duplicate", "missing"},
           pc' \in {"link", "search", "cyclic", "valid"}
    PROVE  BuildInv'
<1>1. tasks' = tasks /\ Built' = Built
  BY DEF tasks, Built
<1>2. pc \in {"link", "search", "cyclic", "valid"}
  BY DEF BuildInv, Verdicts
<1> QED
  BY <1>1, <1>2, SameLoaded DEF BuildInv, Verdicts

LEMMA CheckBuild ==
    ASSUME BuildInv, CheckDependencies
    PROVE  BuildInv'
<1>1. /\ pc = "build" /\ Built = Len(spec) /\ UNCHANGED <<spec, dependencies>>
      /\ tasks' = tasks /\ Built' = Built
  BY DEF CheckDependencies, graphVars, tasks, Built
<1>2. \/ pc' = "link" /\ \A t \in tasks : Members(dependencies[t]) \subseteq tasks
      \/ pc' = "missing" /\ \E t \in tasks : ~(Members(dependencies[t]) \subseteq tasks)
  BY DEF CheckDependencies
<1> QED
  BY <1>1, <1>2, SameLoaded DEF BuildInv, Verdicts

LEMMA BuildNext ==
    ASSUME BuildInv, [ResolveStep]_dagVars
    PROVE  BuildInv'
<1>1. CASE BuildTask
  BY <1>1, BuildTaskBuild
<1>2. CASE CheckDependencies
  BY <1>2, CheckBuild
<1>3. CASE LinkTask
  BY <1>3, KeepsBuild DEF LinkTask
<1>4. CASE StartSearch
  BY <1>4, KeepsBuild DEF StartSearch, graphVars
<1>5. CASE NextRoot
  BY <1>5, KeepsBuild DEF NextRoot, graphVars
<1>6. CASE Visit
  <2>1. pc = "search" /\ pc' \in {"search", "cyclic"} /\ UNCHANGED <<spec, dependencies>>
    BY <1>6 DEF Visit, graphVars
  <2> QED
    BY <2>1, KeepsBuild
<1>7. CASE ReturnVisit
  BY <1>7, KeepsBuild DEF ReturnVisit, graphVars
<1>8. CASE Accept
  BY <1>8, KeepsBuild DEF Accept, graphVars
<1>9. CASE UNCHANGED dagVars
  BY <1>9, SameLoaded DEF dagVars, BuildInv, tasks, Built
<1> QED
  BY <1>1, <1>2, <1>3, <1>4, <1>5, <1>6, <1>7, <1>8, <1>9 DEF ResolveStep
-----------------------------------------------------------------------------
(* The search. *)

LEMMA Colors == White # Gray /\ Gray # Black /\ White # Black
BY DEF White, Gray, Black

\* While the search runs, dependencies are tasks, by position and as a set.
LEMMA DepFacts ==
    ASSUME BuildInv, pc = "search", NEW t \in tasks
    PROVE  /\ Len(dependencies[t]) \in Nat
           /\ \A k \in 1..Len(dependencies[t]) :
                 Dep(t, k) \in tasks /\ Dep(t, k) \in Members(dependencies[t])
           /\ \A d \in Members(dependencies[t]) :
                 \E k \in 1..Len(dependencies[t]) : Dep(t, k) = d
<1>1. PICK i \in 1..Built : t = spec[i].id /\ dependencies[t] = spec[i].deps
  BY DEF BuildInv, Loaded
<1>2. Built \in Nat /\ Built <= Len(spec) /\ spec \in Seq(TaskSpecs)
  BY FS_CardinalityType DEF BuildInv, Loaded, Built
<1>3. spec[i] \in TaskSpecs
  BY <1>2
<1>4. dependencies[t] \in Seq(Ids)
  BY <1>1, <1>3 DEF TaskSpecs
<1>5. Len(dependencies[t]) \in Nat /\ DOMAIN dependencies[t] = 1..Len(dependencies[t])
  BY <1>4
<1>6. Members(dependencies[t]) \subseteq tasks
  BY DEF BuildInv
<1> QED
  BY <1>5, <1>6 DEF Members, Dep

\* The stack with the innermost call one dependency further.
LEMMA AdvancedFacts ==
    ASSUME stack \in Seq(Frames), stack # <<>>
    PROVE  /\ Len(stack) \in Nat \ {0} /\ Len(stack) \in DOMAIN stack /\ top = stack[Len(stack)]
           /\ top \in Frames /\ top.task \in tasks /\ top.next \in Nat \ {0}
           /\ Advanced \in Seq(Frames) /\ Len(Advanced) = Len(stack) /\ DOMAIN Advanced = DOMAIN stack
           /\ \A i \in DOMAIN stack : Advanced[i].task = stack[i].task
           /\ \A i \in DOMAIN stack : i # Len(stack) => Advanced[i] = stack[i]
           /\ Advanced[Len(stack)].next = top.next + 1
<1>1. Len(stack) \in Nat \ {0} /\ DOMAIN stack = 1..Len(stack) /\ Len(stack) \in DOMAIN stack
  OBVIOUS
<1>2. top \in Frames /\ top.task \in tasks /\ top.next \in Nat \ {0} /\ top = stack[Len(stack)]
  <2>1. top \in Frames /\ top = stack[Len(stack)]
    BY <1>1 DEF top
  <2>2. \A f \in Frames : f.task \in tasks /\ f.next \in Nat \ {0}
    BY DEF Frames
  <2> QED
    BY <2>1, <2>2
<1>3. [top EXCEPT !.next = @ + 1] \in Frames
  BY <1>2 DEF Frames
<1>4. /\ [top EXCEPT !.next = @ + 1].task = top.task
      /\ [top EXCEPT !.next = @ + 1].next = top.next + 1
  BY <1>2 DEF Frames
<1>5. Advanced = [stack EXCEPT ![Len(stack)] = [top EXCEPT !.next = @ + 1]]
  BY <1>2 DEF Advanced
<1>6. /\ Advanced \in Seq(Frames) /\ DOMAIN Advanced = DOMAIN stack /\ Len(Advanced) = Len(stack)
      /\ \A i \in DOMAIN stack : i # Len(stack) => Advanced[i] = stack[i]
      /\ Advanced[Len(stack)] = [top EXCEPT !.next = @ + 1]
  BY <1>1, <1>3, <1>5
<1> QED
  BY ZenonT(30), <1>1, <1>2, <1>4, <1>6

LEMMA SearchInit == DagInit => SearchInv
BY DEF DagInit, SearchInv

\* Nothing is gray or black at first.
LEMMA StartSearchSearch ==
    ASSUME BuildInv, SearchInv, StartSearch
    PROVE  SearchInv'
<1>1. /\ pc' = "search" /\ tasks' = tasks /\ dependencies' = dependencies /\ stack' = <<>>
      /\ color' = [t \in tasks |-> White] /\ todo' = tasks
  BY DEF StartSearch, graphVars, tasks, SearchInv
<1>2. Blacks' = {} /\ \A t \in tasks : color'[t] = White
  BY <1>1, Colors DEF Blacks
<1>3. ColorsOK'
  BY <1>1, <1>2 DEF ColorsOK, Sorted
<1>4. CallsOK'
  <2>1. CallsFit(dependencies, <<>>, 0, color')
    BY <1>2, Colors DEF CallsFit, tasks
  <2> QED
    BY <1>1, <2>1 DEF CallsOK
<1> QED
  BY <1>1, <1>3, <1>4 DEF SearchInv

\* A task turns gray: the black tasks are the same.
LEMMA GrayColors ==
    ASSUME ColorsOK, NEW t \in tasks, color[t] = White, color' = [color EXCEPT ![t] = Gray],
           UNCHANGED dependencies, todo' \subseteq tasks, todo \subseteq todo' \cup {t}
    PROVE  ColorsOK'
<1>1. tasks' = tasks /\ color' \in [tasks -> {White, Gray, Black}]
  BY DEF tasks, ColorsOK
<1>2. \A u \in tasks : color'[u] = IF u = t THEN Gray ELSE color[u]
  BY DEF ColorsOK
<1>3. Blacks' = Blacks
  BY <1>1, <1>2, Colors DEF Blacks
<1>4. Sorted(Blacks)'
  BY <1>3 DEF ColorsOK, Sorted
<1> QED
  BY <1>1, <1>2, <1>3, <1>4, Colors DEF ColorsOK

LEMMA NextRootSearch ==
    ASSUME BuildInv, SearchInv, NextRoot
    PROVE  SearchInv'
<1>1. /\ pc = "search" /\ pc' = "search" /\ stack = <<>> /\ UNCHANGED <<spec, dependencies>>
      /\ tasks' = tasks /\ ColorsOK /\ CallsOK
  BY DEF NextRoot, graphVars, tasks, SearchInv
<1>2. PICK t \in todo :
        /\ todo' = todo \ {t}
        /\ IF color[t] = White
           THEN /\ color' = [color EXCEPT ![t] = Gray]
                /\ stack' = <<[task |-> t, next |-> 1]>>
           ELSE UNCHANGED <<color, stack>>
  BY DEF NextRoot
<1>3. t \in tasks
  BY <1>1 DEF ColorsOK
<1>4. CASE color[t] = White
  <2>1. ColorsOK'
    BY <1>1, <1>2, <1>3, <1>4, GrayColors DEF ColorsOK
  <2>2. \A u \in tasks : color'[u] = IF u = t THEN Gray ELSE color[u]
    BY <1>1, <1>2, <1>4 DEF ColorsOK
  <2>3. [task |-> t, next |-> 1] \in Frames'
    BY <1>1, <1>3 DEF Frames
  <2>4. stack' \in Seq(Frames') /\ DOMAIN stack' = {1} /\ Len(stack') = 1
        /\ stack'[1] = [task |-> t, next |-> 1]
    <3>1. stack' = <<[task |-> t, next |-> 1]>>
      BY <1>2, <1>4
    <3>2. \A S, x : x \in S => <<x>> \in Seq(S)
      OBVIOUS
    <3>3. \A x : Len(<<x>>) = 1 /\ <<x>>[1] = x /\ DOMAIN <<x>> = {1}
      OBVIOUS
    <3> QED
      BY ZenonT(30), <3>1, <3>2, <3>3, <2>3
  <2>5. Len(dependencies[t]) \in Nat
    BY <1>1, <1>3, DepFacts
  <2>6. \A u \in tasks : color[u] # Gray
    BY <1>1 DEF CallsOK, CallsFit, tasks
  <2>7. CallsFit(dependencies, stack', 1, color')
    <3>1. stack'[1].task = t /\ stack'[1].next = 1
      BY <2>4
    <3>2. \A u \in tasks : color'[u] = Gray <=> u = t
      BY <2>2, <2>6
    <3> QED
      BY <1>3, <2>5, <3>1, <3>2 DEF CallsFit, tasks
  <2>8. CallsOK'
    BY <1>1, <2>4, <2>7 DEF CallsOK
  <2> QED
    BY <1>1, <2>1, <2>8 DEF SearchInv
<1>5. CASE color[t] # White
  <2>1. UNCHANGED <<color, stack>> /\ Blacks' = Blacks /\ Frames' = Frames
    BY <1>1, <1>2, <1>5 DEF Blacks, Frames
  <2>2. ColorsOK'
    BY <1>1, <1>2, <1>5, <2>1 DEF ColorsOK, Sorted
  <2>3. CallsOK'
    BY <1>1, <2>1 DEF CallsOK
  <2> QED
    BY <1>1, <2>2, <2>3 DEF SearchInv
<1> QED
  BY <1>4, <1>5

\* A gray dependency closes a cycle: the calls from the one of that task to
\* the innermost form a set in which every task depends on another.
LEMMA GrayClosesCycle ==
    ASSUME BuildInv, pc = "search", ColorsOK, CallsOK, stack # <<>>,
           top.next <= Len(dependencies[top.task]),
           color[Dep(top.task, top.next)] = Gray
    PROVE  ~Acyclic(dependencies)
<1> DEFINE n == Len(stack)
<1>1. n \in Nat \ {0} /\ DOMAIN stack = 1..n /\ top = stack[n] /\ top.task \in tasks /\ top.next \in Nat \ {0}
  BY AdvancedFacts DEF CallsOK
<1>2. Dep(top.task, top.next) \in tasks /\ Dep(top.task, top.next) \in Members(dependencies[top.task])
  BY <1>1, DepFacts
<1>3. PICK k \in 1..n : stack[k].task = Dep(top.task, top.next)
  BY <1>1, <1>2 DEF CallsOK, CallsFit, tasks
<1> DEFINE S == {stack[i].task : i \in k..n}
<1>4. \A i \in 1..n : stack[i] \in Frames /\ stack[i].task \in tasks /\ stack[i].next \in Nat \ {0}
  <2>1. \A f \in Frames : f.task \in tasks /\ f.next \in Nat \ {0}
    BY DEF Frames
  <2> QED
    BY <1>1, <2>1 DEF CallsOK
<1>5. S \in SUBSET DOMAIN dependencies /\ S # {}
  BY <1>1, <1>3, <1>4 DEF tasks
<1>6. ASSUME NEW t \in S PROVE Members(dependencies[t]) \cap S # {}
  <2>1. PICK i \in k..n : t = stack[i].task
    OBVIOUS
  <2>2. CASE i = n
    <3>1. stack[k].task \in S /\ stack[k].task \in Members(dependencies[t])
      BY <1>1, <1>2, <1>3, <2>1, <2>2
    <3> QED
      BY <3>1
  <2>3. CASE i # n
    <3>1. i \in 1..(n - 1) /\ i + 1 \in k..n /\ i \in 1..n
      <4>1. \A m \in Nat : \A a \in 1..m : \A b \in a..m :
                b # m => b \in 1..(m - 1) /\ b + 1 \in a..m /\ b \in 1..m
        OBVIOUS
      <4> QED
        BY ZenonT(30), <1>1, <2>3, <4>1
    <3>2. stack[i].next > 1 /\ stack[i + 1].task = Dep(t, stack[i].next - 1)
      <4>1. i < n
        BY <1>1, <3>1
      <4> QED
        BY ZenonT(30), <2>1, <3>1, <4>1 DEF CallsOK, CallsFit, Dep
    <3>3. stack[i].next <= Len(dependencies[t]) + 1 /\ t \in tasks
      BY <1>1, <1>4, <2>1, <3>1 DEF CallsOK, CallsFit
    <3>4. Len(dependencies[t]) \in Nat
      BY <3>3, DepFacts
    <3>5. stack[i].next - 1 \in 1..Len(dependencies[t])
      BY <1>4, <3>1, <3>2, <3>3, <3>4
    <3>6. stack[i + 1].task \in S /\ stack[i + 1].task \in Members(dependencies[t])
      BY <3>1, <3>2, <3>3, <3>5, DepFacts
    <3> QED
      BY <3>6
  <2> QED
    BY <2>2, <2>3
<1> HIDE DEF S
<1> QED
  BY <1>5, <1>6 DEF Acyclic

\* A black dependency is passed over.
LEMMA PassBlack ==
    ASSUME NEW D, NEW n \in Nat, n # 0, NEW st, NEW st2, NEW col, CallsFit(D, st, n, col),
           Len(D[st[n].task]) \in Nat,
           st[n].next <= Len(D[st[n].task]),
           col[D[st[n].task][st[n].next]] = Black,
           \A i \in 1..n : i # n => st2[i] = st[i],
           st2[n].task = st[n].task, st2[n].next = st[n].next + 1
    PROVE  CallsFit(D, st2, n, col)
<1>1. n \in 1..n /\ \A i \in 1..n : st2[i].task = st[i].task
  OBVIOUS
<1>2. st[n].task \in DOMAIN D /\ st[n].next \in Nat \ {0}
  BY <1>1 DEF CallsFit
<1>3. ASSUME NEW i \in 1..n
      PROVE  /\ st2[i].task \in DOMAIN D /\ st2[i].next \in Nat \ {0}
             /\ col[st2[i].task] = Gray
             /\ st2[i].next <= Len(D[st2[i].task]) + 1
  <2>1. CASE i = n
    <3>1. col[st[n].task] = Gray
      BY <1>1 DEF CallsFit
    <3>2. st[n].next + 1 \in Nat \ {0} /\ st[n].next + 1 <= Len(D[st[n].task]) + 1
      BY <1>2
    <3> QED
      BY ZenonT(30), <1>2, <2>1, <3>1, <3>2
  <2>2. CASE i # n
    <3>1. st2[i] = st[i]
      BY <2>2
    <3> QED
      BY ZenonT(30), <3>1 DEF CallsFit
  <2> QED
    BY <2>1, <2>2
<1>4. ASSUME NEW t \in DOMAIN D, col[t] = Gray
      PROVE  \E i \in 1..n : st2[i].task = t
  <2>1. PICK i \in 1..n : st[i].task = t
    BY ZenonT(30), <1>4 DEF CallsFit
  <2> QED
    BY <1>1, <2>1
<1>5. \A i, j \in 1..n : st2[i].task = st2[j].task => i = j
  BY ZenonT(30), <1>1 DEF CallsFit
<1>6. ASSUME NEW i \in 1..n, i < n
      PROVE  st2[i].next > 1 /\ st2[i + 1].task = D[st2[i].task][st2[i].next - 1]
  <2>1. i # n /\ i + 1 \in 1..n
    BY <1>6
  <2> QED
    BY ZenonT(30), <1>1, <1>6, <2>1 DEF CallsFit
<1>7. ASSUME NEW i \in 1..n, NEW k \in 1..(st2[i].next - 1)
      PROVE  col[D[st2[i].task][k]] = Black \/ (i < n /\ k = st2[i].next - 1)
  <2>1. CASE i = n
    <3>1. k \in 1..(st[n].next - 1) \/ k = st[n].next
      BY <1>2, <2>1
    <3>2. \A j \in 1..(st[n].next - 1) : col[D[st[n].task][j]] = Black
      BY <1>1 DEF CallsFit
    <3> QED
      BY ZenonT(30), <2>1, <3>1, <3>2
  <2>2. CASE i # n
    <3>1. st2[i] = st[i] /\ k \in 1..(st[i].next - 1)
      BY <2>2
    <3>2. col[D[st[i].task][k]] = Black \/ (i < n /\ k = st[i].next - 1)
      BY <3>1 DEF CallsFit
    <3> QED
      BY ZenonT(30), <3>1, <3>2
  <2> QED
    BY <2>1, <2>2
<1> QED
  BY ZenonT(30), <1>3, <1>4, <1>5, <1>6, <1>7 DEF CallsFit

\* A white dependency is called: its task turns gray and gets a frame.
LEMMA PushWhite ==
    ASSUME NEW D, NEW n \in Nat, n # 0, NEW st, NEW st2, NEW col, NEW col2, NEW d \in DOMAIN D,
           CallsFit(D, st, n, col),
           Graph(D),
           st[n].next <= Len(D[st[n].task]),
           d = D[st[n].task][st[n].next],
           col[d] = White, Recolored(D, col, col2, d, Gray),
           \A i \in 1..n : i # n => st2[i] = st[i],
           st2[n].task = st[n].task, st2[n].next = st[n].next + 1,
           st2[n + 1].task = d, st2[n + 1].next = 1
    PROVE  CallsFit(D, st2, n + 1, col2)
<1>a. /\ \A i \in 1..n : Len(D[st[i].task]) \in Nat
      /\ Len(D[d]) \in Nat
  BY ZenonT(30) DEF CallsFit, Graph
<1>b. \A t \in DOMAIN D : \A k \in 1..Len(D[t]) : D[t][k] \in DOMAIN D
  BY ZenonT(30) DEF Graph
<1>c. col2[d] = Gray /\ \A t \in DOMAIN D : t # d => col2[t] = col[t]
  BY ZenonT(30) DEF Recolored
<1>1. /\ n \in 1..n /\ \A i \in 1..n : st2[i].task = st[i].task
      /\ \A i \in 1..(n + 1) : i \in 1..n \/ i = n + 1
  OBVIOUS
<1>2. st[n].task \in DOMAIN D /\ st[n].next \in Nat \ {0}
  BY <1>1 DEF CallsFit
<1>3. ASSUME NEW i \in 1..n
      PROVE  st[i].task # d /\ st[i].task \in DOMAIN D /\ col2[st[i].task] = Gray
  <2>1. st[i].task \in DOMAIN D /\ col[st[i].task] = Gray
    BY ZenonT(30) DEF CallsFit
  <2> QED
    BY ZenonT(30), <1>c, <2>1, Colors
<1>4. ASSUME NEW i \in 1..(n + 1)
      PROVE  /\ st2[i].task \in DOMAIN D /\ st2[i].next \in Nat \ {0}
             /\ col2[st2[i].task] = Gray
             /\ st2[i].next <= Len(D[st2[i].task]) + 1
  <2>1. CASE i = n + 1
    <3>1. 1 \in Nat \ {0} /\ 1 <= Len(D[d]) + 1
      <4>1. \A l \in Nat : 1 \in Nat \ {0} /\ 1 <= l + 1
        OBVIOUS
      <4> QED
        BY ZenonT(30), <1>a, <4>1
    <3> QED
      BY ZenonT(30), <1>c, <2>1, <3>1
  <2>2. CASE i = n
    <3>1. st[n].next + 1 \in Nat \ {0} /\ st[n].next + 1 <= Len(D[st[n].task]) + 1
      <4>1. \A p, l \in Nat : p <= l => p + 1 \in Nat \ {0} /\ p + 1 <= l + 1
        OBVIOUS
      <4>2. Len(D[st[n].task]) \in Nat /\ st[n].next \in Nat
        BY ZenonT(30), <1>a, <1>1, <1>2
      <4> QED
        BY ZenonT(30), <4>1, <4>2
    <3> QED
      BY ZenonT(30), <1>1, <1>3, <2>2, <3>1
  <2>3. CASE i \in 1..n /\ i # n
    <3>1. st2[i] = st[i]
      BY <2>3
    <3>2. st[i].next \in Nat \ {0} /\ st[i].next <= Len(D[st[i].task]) + 1
      BY ZenonT(30), <2>3 DEF CallsFit
    <3> QED
      BY ZenonT(30), <1>3, <2>3, <3>1, <3>2
  <2> QED
    BY ZenonT(30), <1>1, <2>1, <2>2, <2>3
<1>5. ASSUME NEW t \in DOMAIN D, col2[t] = Gray
      PROVE  \E i \in 1..(n + 1) : st2[i].task = t
  <2>1. CASE t = d
    BY <2>1
  <2>2. CASE t # d
    <3>1. PICK i \in 1..n : st[i].task = t
      BY ZenonT(30), <1>5, <1>c, <2>2 DEF CallsFit
    <3>2. i \in 1..(n + 1)
      OBVIOUS
    <3> QED
      BY ZenonT(30), <1>1, <3>1, <3>2
  <2> QED
    BY <2>1, <2>2
<1>6. ASSUME NEW i \in 1..(n + 1), NEW j \in 1..(n + 1), st2[i].task = st2[j].task
      PROVE  i = j
  <2>1. \A a, b \in 1..n : st[a].task = st[b].task => a = b
    BY ZenonT(30) DEF CallsFit
  <2>2. CASE i \in 1..n /\ j \in 1..n
    BY ZenonT(30), <1>1, <1>6, <2>1, <2>2
  <2>3. CASE i = n + 1 /\ j \in 1..n
    BY ZenonT(30), <1>1, <1>3, <1>6, <2>3
  <2>4. CASE i \in 1..n /\ j = n + 1
    BY ZenonT(30), <1>1, <1>3, <1>6, <2>4
  <2> QED
    BY ZenonT(30), <1>1, <2>2, <2>3, <2>4
<1>7. ASSUME NEW i \in 1..(n + 1), i < n + 1
      PROVE  st2[i].next > 1 /\ st2[i + 1].task = D[st2[i].task][st2[i].next - 1]
  <2>1. CASE i = n
    <3>1. st[n].next + 1 > 1 /\ (st[n].next + 1) - 1 = st[n].next
      BY <1>2
    <3> QED
      BY ZenonT(30), <2>1, <3>1
  <2>2. CASE i # n
    <3>1. i \in 1..n /\ i + 1 \in 1..n /\ i < n
      BY <1>7, <2>2
    <3>2. st[i].next > 1 /\ st[i + 1].task = D[st[i].task][st[i].next - 1]
      BY ZenonT(30), <3>1 DEF CallsFit
    <3> QED
      BY ZenonT(30), <1>1, <2>2, <3>1, <3>2
  <2> QED
    BY <2>1, <2>2
<1>8. ASSUME NEW i \in 1..(n + 1), NEW k \in 1..(st2[i].next - 1)
      PROVE  col2[D[st2[i].task][k]] = Black \/ (i < n + 1 /\ k = st2[i].next - 1)
  <2>1. CASE i = n + 1
    BY <2>1
  <2>2. CASE i = n
    <3>1. k \in 1..(st[n].next - 1) \/ (i < n + 1 /\ k = st2[i].next - 1)
      <4>1. \A p \in Nat \ {0} : \A q \in 1..((p + 1) - 1) : q \in 1..(p - 1) \/ q = (p + 1) - 1
        OBVIOUS
      <4>2. n < n + 1
        OBVIOUS
      <4> QED
        BY ZenonT(30), <1>2, <2>2, <4>1, <4>2
    <3>2. ASSUME k \in 1..(st[n].next - 1) PROVE col2[D[st[n].task][k]] = Black
      <4>1. col[D[st[n].task][k]] = Black
        BY <1>1, <3>2 DEF CallsFit
      <4>2. k \in 1..Len(D[st[n].task])
        <5>1. Len(D[st[n].task]) \in Nat
          BY ZenonT(30), <1>a, <1>1
        <5> QED
          BY <1>2, <3>2, <5>1
      <4> QED
        BY ZenonT(30), <1>2, <1>b, <1>c, <4>1, <4>2, Colors
    <3> QED
      BY ZenonT(30), <1>1, <2>2, <3>1, <3>2
  <2>3. CASE i \in 1..n /\ i # n
    <3>1. st2[i] = st[i] /\ k \in 1..(st[i].next - 1) /\ i < n + 1
      <4>1. i < n + 1
        BY <2>3
      <4> QED
        BY ZenonT(30), <2>3, <4>1
    <3>2. col[D[st[i].task][k]] = Black \/ k = st[i].next - 1
      BY <2>3, <3>1 DEF CallsFit
    <3>3. k \in 1..Len(D[st[i].task]) /\ st[i].task \in DOMAIN D
      <4>1. st[i].task \in DOMAIN D /\ st[i].next \in Nat \ {0} /\ st[i].next <= Len(D[st[i].task]) + 1
        BY ZenonT(30), <2>3 DEF CallsFit
      <4>2. Len(D[st[i].task]) \in Nat
        BY ZenonT(30), <1>a, <2>3
      <4> QED
        BY <3>1, <4>1, <4>2
    <3>4. col[D[st[i].task][k]] = Black => col2[D[st[i].task][k]] = Black
      BY ZenonT(30), <1>b, <1>c, <3>3, Colors
    <3> QED
      BY ZenonT(30), <3>1, <3>2, <3>4
  <2> QED
    BY ZenonT(30), <1>1, <2>1, <2>2, <2>3
<1> QED
  BY ZenonT(30), <1>4, <1>5, <1>6, <1>7, <1>8 DEF CallsFit

\* The innermost call returns and its task turns black.
LEMMA PopFit ==
    ASSUME NEW D, NEW n \in Nat, NEW m \in Nat, m = n - 1, NEW st, NEW st2, NEW col, NEW col2,
           CallsFit(D, st, n, col),
           Graph(D), Recolored(D, col, col2, st[n].task, Black),
           \A i \in 1..m : st2[i] = st[i]
    PROVE  CallsFit(D, st2, m, col2)
<1>a. \A i \in 1..n : Len(D[st[i].task]) \in Nat
  BY ZenonT(30) DEF CallsFit, Graph
<1>b. \A t \in DOMAIN D : \A k \in 1..Len(D[t]) : D[t][k] \in DOMAIN D
  BY ZenonT(30) DEF Graph
<1>c. col2[st[n].task] = Black /\ \A t \in DOMAIN D : t # st[n].task => col2[t] = col[t]
  BY ZenonT(30) DEF Recolored
<1>1. n \in 1..n /\ \A i \in 1..m : i \in 1..n /\ i + 1 \in 1..n /\ i # n /\ i < n
  OBVIOUS
<1>2. ASSUME NEW i \in 1..m
      PROVE  /\ st[i].task # st[n].task /\ st[i].task \in DOMAIN D /\ col2[st[i].task] = Gray
             /\ st[i].next \in Nat \ {0} /\ st[i].next <= Len(D[st[i].task]) + 1
  <2>1. /\ st[i].task \in DOMAIN D /\ col[st[i].task] = Gray
        /\ st[i].next \in Nat \ {0} /\ st[i].next <= Len(D[st[i].task]) + 1
    BY ZenonT(30), <1>1 DEF CallsFit
  <2>2. st[i].task # st[n].task
    BY ZenonT(30), <1>1 DEF CallsFit
  <2> QED
    BY ZenonT(30), <1>c, <2>1, <2>2
<1>3. \A i \in 1..m : /\ st2[i].task \in DOMAIN D /\ st2[i].next \in Nat \ {0}
                            /\ col2[st2[i].task] = Gray
                            /\ st2[i].next <= Len(D[st2[i].task]) + 1
  BY ZenonT(30), <1>2
<1>4. ASSUME NEW t \in DOMAIN D, col2[t] = Gray
      PROVE  \E i \in 1..m : st2[i].task = t
  <2>1. t # st[n].task
    BY ZenonT(30), <1>4, <1>c, Colors
  <2>2. PICK i \in 1..n : st[i].task = t
    BY ZenonT(30), <1>4, <1>c, <2>1 DEF CallsFit
  <2>3. i \in 1..m
    BY <2>1, <2>2
  <2> QED
    BY ZenonT(30), <2>2, <2>3
<1>5. \A i, j \in 1..m : st2[i].task = st2[j].task => i = j
  <2>1. \A i, j \in 1..n : st[i].task = st[j].task => i = j
    BY ZenonT(30) DEF CallsFit
  <2> QED
    BY <1>1, <2>1
<1>6. ASSUME NEW i \in 1..m, i < m
      PROVE  st2[i].next > 1 /\ st2[i + 1].task = D[st2[i].task][st2[i].next - 1]
  <2>1. i + 1 \in 1..m
    BY <1>6
  <2>2. st[i].next > 1 /\ st[i + 1].task = D[st[i].task][st[i].next - 1]
    BY ZenonT(30), <1>1 DEF CallsFit
  <2> QED
    BY ZenonT(30), <2>1, <2>2
<1>7. ASSUME NEW i \in 1..m, NEW k \in 1..(st2[i].next - 1)
      PROVE  col2[D[st2[i].task][k]] = Black \/ (i < m /\ k = st2[i].next - 1)
  <2>1. st2[i] = st[i] /\ k \in 1..(st[i].next - 1)
    OBVIOUS
  <2>2. k \in 1..Len(D[st[i].task])
    <3>1. Len(D[st[i].task]) \in Nat
      BY ZenonT(30), <1>a, <1>1
    <3> QED
      BY <1>2, <2>1, <3>1
  <2>3. D[st[i].task][k] \in DOMAIN D
    BY ZenonT(30), <1>b, <1>2, <2>2
  <2>4. CASE col[D[st[i].task][k]] = Black
    BY ZenonT(30), <1>c, <2>1, <2>3, <2>4
  <2>5. CASE k = st[i].next - 1
    <3>1. CASE i < m
      BY ZenonT(30), <2>1, <2>5, <3>1
    <3>2. CASE ~(i < m)
      <4>1. i + 1 = n
        BY <3>2
      <4>2. st[i + 1].task = D[st[i].task][st[i].next - 1]
        BY ZenonT(30), <1>1 DEF CallsFit
      <4> QED
        BY ZenonT(30), <1>c, <2>1, <2>5, <4>1, <4>2
    <3> QED
      BY <3>1, <3>2
  <2>6. col[D[st[i].task][k]] = Black \/ k = st[i].next - 1
    BY <1>1, <2>1 DEF CallsFit
  <2> QED
    BY <2>4, <2>5, <2>6
<1> QED
  BY ZenonT(30), <1>3, <1>4, <1>5, <1>6, <1>7 DEF CallsFit

\* A task whose dependencies are black turns black: a set with black tasks of
\* before has a first one among them, and the new one alone depends on none
\* of its kind.
LEMMA BlackColors ==
    ASSUME ColorsOK, NEW t \in tasks, color[t] = Gray, color' = [color EXCEPT ![t] = Black],
           UNCHANGED <<dependencies, todo>>, Members(dependencies[t]) \subseteq Blacks
    PROVE  ColorsOK'
<1>1. tasks' = tasks /\ color' \in [tasks -> {White, Gray, Black}]
  BY DEF tasks, ColorsOK
<1>2. \A u \in tasks : color'[u] = IF u = t THEN Black ELSE color[u]
  BY DEF ColorsOK
<1>3. Blacks' = Blacks \cup {t} /\ t \notin Blacks
  BY <1>1, <1>2, Colors DEF Blacks
<1>4. Sorted(Blacks)'
  <2>1. ASSUME NEW S \in SUBSET (Blacks \cup {t}), S # {}
        PROVE  \E u \in S : Members(dependencies[u]) \cap S = {}
    <3>1. CASE S \cap Blacks # {}
      <4>1. PICK u \in S \cap Blacks : Members(dependencies[u]) \cap (S \cap Blacks) = {}
        BY ZenonT(30), <3>1 DEF ColorsOK, Sorted
      <4>2. Members(dependencies[u]) \subseteq Blacks
        BY DEF ColorsOK
      <4>3. Members(dependencies[u]) \cap S = {}
        BY <4>1, <4>2
      <4> QED
        BY <4>3
    <3>2. CASE S \cap Blacks = {}
      <4>1. t \in S /\ Members(dependencies[t]) \cap S = {}
        BY <2>1, <3>2
      <4> QED
        BY <4>1
    <3> QED
      BY <3>1, <3>2
  <2> QED
    BY <1>3, <2>1 DEF Sorted
<1>5. \A u \in Blacks' : Members(dependencies[u]) \subseteq Blacks'
  BY <1>3 DEF ColorsOK
<1>6. \A u \in tasks' : color'[u] = White => u \in todo'
  BY <1>1, <1>2, Colors DEF ColorsOK
<1> QED
  BY <1>1, <1>4, <1>5, <1>6 DEF ColorsOK

\* The facts that the lemmas on frames ask of the graph and of the stack.
LEMMA GraphFacts ==
    ASSUME BuildInv, pc = "search", CallsOK
    PROVE  /\ \A t \in tasks : Len(dependencies[t]) \in Nat
           /\ \A t \in tasks : \A k \in 1..Len(dependencies[t]) : dependencies[t][k] \in tasks
           /\ Graph(dependencies)
<1>1. \A t \in tasks : Len(dependencies[t]) \in Nat
  BY DepFacts
<1>2. \A t \in tasks : \A k \in 1..Len(dependencies[t]) : dependencies[t][k] \in tasks
  BY DepFacts DEF Dep
<1>3. Graph(dependencies)
  BY ZenonT(30), <1>1, <1>2 DEF Graph, tasks
<1> QED
  BY <1>1, <1>2, <1>3

LEMMA VisitSearch ==
    ASSUME BuildInv, SearchInv, Visit
    PROVE  SearchInv'
<1> DEFINE d == dependencies[top.task][top.next]
<1>1. /\ pc = "search" /\ stack # <<>> /\ top.next <= Len(dependencies[top.task])
      /\ UNCHANGED <<spec, dependencies, todo>>
  BY DEF Visit, graphVars
<1>2. ColorsOK /\ stack \in Seq(Frames) /\ CallsOK /\ CallsFit(dependencies, stack, Len(stack), color)
  BY <1>1 DEF SearchInv, CallsOK
<1>3. PICK n \in Nat : n # 0 /\ n = Len(stack) /\ DOMAIN stack = 1..n /\ top = stack[n]
  BY <1>1, <1>2 DEF top
<1>4. tasks' = tasks /\ Frames' = Frames /\ tasks = DOMAIN dependencies
  BY <1>1 DEF tasks, Frames
<1>5. top.task \in tasks /\ top.next \in Nat \ {0} /\ d \in tasks
  <2>1. top.task \in tasks /\ top.next \in Nat \ {0}
    BY <1>1, <1>2, AdvancedFacts
  <2>2. top.next \in 1..Len(dependencies[top.task])
    BY <1>1, <1>2, <2>1, GraphFacts
  <2> QED
    BY <1>1, <1>2, <2>1, <2>2, GraphFacts
<1>6. /\ Advanced \in Seq(Frames) /\ Len(Advanced) = n
      /\ \A i \in 1..n : i # n => Advanced[i] = stack[i]
      /\ Advanced[n].task = stack[n].task /\ Advanced[n].next = stack[n].next + 1
  <2>1. n \in 1..n
    BY <1>3
  <2> QED
    BY ZenonT(30), <1>1, <1>2, <1>3, <2>1, AdvancedFacts
<1>7. CASE color[d] = Gray /\ pc' = "cyclic"
  BY <1>1, <1>2, <1>7, GrayClosesCycle DEF SearchInv, Dep
<1>8. CASE color[d] = Black /\ stack' = Advanced /\ UNCHANGED <<pc, color>>
  <2>1. CallsFit(dependencies, Advanced, n, color)
    BY ZenonT(30), <1>1, <1>2, <1>3, <1>5, <1>6, <1>8, GraphFacts, PassBlack
  <2>2. CallsOK'
    BY ZenonT(30), <1>1, <1>4, <1>6, <1>8, <2>1 DEF CallsOK
  <2>3. ColorsOK'
    BY <1>1, <1>2, <1>4, <1>8 DEF ColorsOK, Sorted, Blacks
  <2> QED
    BY <1>1, <1>8, <2>2, <2>3 DEF SearchInv
<1>9. CASE /\ color[d] = White /\ UNCHANGED pc
           /\ stack' = Append(Advanced, [task |-> d, next |-> 1])
           /\ color' = [color EXCEPT ![d] = Gray]
  <2>1. ColorsOK'
    BY ZenonT(30), <1>1, <1>2, <1>5, <1>9, GrayColors DEF ColorsOK
  <2>2. /\ color'[d] = Gray /\ \A t \in tasks : t # d => color'[t] = color[t]
    BY <1>2, <1>5, <1>9 DEF ColorsOK
  <2>3. PICK f \in Frames : f = [task |-> d, next |-> 1] /\ f.task = d /\ f.next = 1
    <3>1. [task |-> d, next |-> 1] \in Frames
      BY <1>5 DEF Frames
    <3> QED
      BY ZenonT(30), <3>1
  <2>4. /\ stack' \in Seq(Frames) /\ Len(stack') = n + 1 /\ stack'[n + 1] = f
        /\ \A i \in 1..n : stack'[i] = Advanced[i]
    <3>1. stack' = Append(Advanced, f)
      BY <1>9, <2>3
    <3> QED
      BY <1>6, <3>1
  <2>5. stack'[n + 1].task = d /\ stack'[n + 1].next = 1
    BY <2>3, <2>4
  <2>6. /\ \A i \in 1..n : i # n => stack'[i] = stack[i]
        /\ stack'[n].task = stack[n].task /\ stack'[n].next = stack[n].next + 1
    <3>1. n \in 1..n
      BY <1>3
    <3> QED
      BY ZenonT(30), <1>6, <2>4, <3>1
  <2>7. Graph(dependencies) /\ Recolored(dependencies, color, color', d, Gray)
    BY ZenonT(30), <1>1, <1>2, <2>2, GraphFacts DEF Recolored, tasks
  <2>8. CallsFit(dependencies, stack', n + 1, color')
    <3>1. d \in DOMAIN dependencies /\ d = dependencies[stack[n].task][stack[n].next]
      BY ZenonT(30), <1>3, <1>5 DEF tasks
    <3>2. stack[n].next <= Len(dependencies[stack[n].task])
      BY ZenonT(30), <1>1, <1>3
    <3>3. CallsFit(dependencies, stack, n, color) /\ color[d] = White
      BY ZenonT(30), <1>2, <1>3, <1>9
    <3> HIDE DEF d
    <3> QED
      BY ZenonT(30), <1>3, <2>5, <2>6, <2>7, <3>1, <3>2, <3>3, PushWhite
  <2>9. CallsOK'
    BY ZenonT(30), <1>1, <1>4, <2>4, <2>8 DEF CallsOK
  <2> QED
    BY <1>1, <1>9, <2>1, <2>9 DEF SearchInv
<1> QED
  BY ZenonT(30), <1>7, <1>8, <1>9 DEF Visit

LEMMA ReturnSearch ==
    ASSUME BuildInv, SearchInv, ReturnVisit
    PROVE  SearchInv'
<1>1. /\ pc = "search" /\ stack # <<>> /\ top.next > Len(dependencies[top.task])
      /\ UNCHANGED <<spec, pc, dependencies, todo>>
      /\ color' = [color EXCEPT ![top.task] = Black]
      /\ stack' = SubSeq(stack, 1, Len(stack) - 1)
  BY DEF ReturnVisit, graphVars
<1>2. ColorsOK /\ stack \in Seq(Frames) /\ CallsOK /\ CallsFit(dependencies, stack, Len(stack), color)
  BY <1>1 DEF SearchInv, CallsOK
<1>3. PICK n \in Nat : n # 0 /\ n = Len(stack) /\ DOMAIN stack = 1..n /\ top = stack[n]
  BY <1>1, <1>2 DEF top
<1>4. tasks' = tasks /\ Frames' = Frames /\ tasks = DOMAIN dependencies
  BY <1>1 DEF tasks, Frames
<1>5. n \in 1..n /\ \A k \in 1..n : ~(n < n)
  BY <1>3
<1>6. /\ top.task \in tasks /\ top.next \in Nat \ {0} /\ color[top.task] = Gray
      /\ Len(dependencies[top.task]) \in Nat
      /\ \A k \in 1..(top.next - 1) : color[dependencies[top.task][k]] = Black
  <2>1. top.task \in tasks /\ top.next \in Nat \ {0} /\ color[top.task] = Gray
    BY ZenonT(30), <1>2, <1>3, <1>4, <1>5 DEF CallsFit
  <2>2. \A k \in 1..(top.next - 1) : color[dependencies[top.task][k]] = Black
    BY ZenonT(30), <1>2, <1>3, <1>5 DEF CallsFit
  <2>3. Len(dependencies[top.task]) \in Nat
    BY <1>1, <1>2, <2>1, GraphFacts
  <2> QED
    BY <2>1, <2>2, <2>3
<1>7. Members(dependencies[top.task]) \subseteq Blacks
  <2>1. \A k \in 1..Len(dependencies[top.task]) : k \in 1..(top.next - 1)
    BY <1>1, <1>6
  <2>2. \A x \in Members(dependencies[top.task]) :
          \E k \in 1..Len(dependencies[top.task]) : dependencies[top.task][k] = x
    BY ZenonT(30), <1>1, <1>6, DepFacts DEF Dep
  <2> QED
    <3>1. \A x \in Members(dependencies[top.task]) : x \in tasks /\ color[x] = Black
      BY ZenonT(30), <1>1, <1>2, <1>6, <2>1, <2>2, GraphFacts
    <3> QED
      BY <3>1 DEF Blacks
<1>8. ColorsOK'
  BY ZenonT(30), <1>1, <1>2, <1>6, <1>7, BlackColors
<1>9. /\ color'[top.task] = Black
      /\ \A t \in tasks : t # top.task => color'[t] = color[t]
  BY <1>1, <1>2, <1>6 DEF ColorsOK
<1>10. /\ stack' \in Seq(Frames) /\ Len(stack') = n - 1
       /\ \A i \in 1..(n - 1) : stack'[i] = stack[i]
  BY <1>1, <1>2, <1>3
<1>11. CallsFit(dependencies, stack', n - 1, color')
  <2>1. Graph(dependencies) /\ Recolored(dependencies, color, color', stack[n].task, Black)
    BY ZenonT(30), <1>1, <1>2, <1>3, <1>9, GraphFacts DEF Recolored, tasks
  <2>2. CallsFit(dependencies, stack, n, color)
    BY ZenonT(30), <1>2, <1>3
  <2>3. PICK m \in Nat : m = n - 1
    BY <1>3
  <2>4. \A i \in 1..m : stack'[i] = stack[i]
    BY <1>10, <2>3
  <2>5. CallsFit(dependencies, stack', m, color')
    BY ZenonT(30), <2>1, <2>2, <2>3, <2>4, PopFit
  <2> QED
    BY <2>3, <2>5
<1>12. CallsOK'
  BY ZenonT(30), <1>1, <1>4, <1>10, <1>11 DEF CallsOK
<1> QED
  BY <1>1, <1>8, <1>12 DEF SearchInv

\* With nothing left to yield no task is white, with no call none is gray.
LEMMA AcceptSearch ==
    ASSUME BuildInv, SearchInv, Accept
    PROVE  SearchInv'
<1>1. /\ pc = "search" /\ pc' = "valid" /\ stack = <<>> /\ todo = {}
      /\ dependencies' = dependencies /\ ColorsOK /\ CallsOK
  BY DEF Accept, graphVars, SearchInv
<1>2. \A t \in tasks : color[t] # White /\ color[t] # Gray
  <2>1. \A t \in tasks : color[t] # White
    BY <1>1 DEF ColorsOK
  <2>2. Len(stack) = 0
    BY <1>1
  <2>3. CallsFit(dependencies, stack, 0, color)
    BY <1>1, <2>2 DEF CallsOK
  <2>4. \A t \in tasks : color[t] # Gray
    BY <2>3 DEF CallsFit, tasks
  <2> QED
    BY <2>1, <2>4
<1>3. Blacks = tasks
  BY <1>1, <1>2 DEF Blacks, ColorsOK
<1>4. Acyclic(dependencies)
  BY <1>1, <1>3 DEF ColorsOK, Sorted, Acyclic, tasks
<1> QED
  BY <1>1, <1>4 DEF SearchInv

LEMMA SearchNext ==
    ASSUME BuildInv, SearchInv, [ResolveStep]_dagVars
    PROVE  SearchInv'
<1>1. CASE BuildTask
  BY <1>1 DEF BuildTask, SearchInv
<1>2. CASE CheckDependencies
  BY <1>2 DEF CheckDependencies, SearchInv
<1>3. CASE LinkTask
  BY <1>3 DEF LinkTask, SearchInv
<1>4. CASE StartSearch
  BY <1>4, StartSearchSearch
<1>5. CASE NextRoot
  BY <1>5, NextRootSearch
<1>6. CASE Visit
  BY <1>6, VisitSearch
<1>7. CASE ReturnVisit
  BY <1>7, ReturnSearch
<1>8. CASE Accept
  BY <1>8, AcceptSearch
<1>9. CASE UNCHANGED dagVars
  <2>1. UNCHANGED <<pc, dependencies, color, todo, stack>> /\ tasks' = tasks /\ Frames' = Frames /\ Blacks' = Blacks
    BY <1>9 DEF dagVars, tasks, Frames, Blacks
  <2>2. ColorsOK' = ColorsOK
    BY <2>1 DEF ColorsOK, Sorted
  <2>3. CallsOK' = CallsOK
    BY <2>1 DEF CallsOK
  <2> QED
    BY <2>1, <2>2, <2>3 DEF SearchInv
<1> QED
  BY <1>1, <1>2, <1>3, <1>4, <1>5, <1>6, <1>7, <1>8, <1>9 DEF ResolveStep
-----------------------------------------------------------------------------
(* What the invariants say. *)

\* The colours and the calls are as the chain of calls has it.
LEMMA ChainFromInv ==
    ASSUME BuildInv, SearchInv
    PROVE  GrayIsCallChain
<1> SUFFICES ASSUME pc = "search"
             PROVE  /\ {t \in tasks : color[t] = Gray} = {stack[i].task : i \in DOMAIN stack}
                    /\ \A i, j \in DOMAIN stack : stack[i].task = stack[j].task => i = j
                    /\ \A i \in 1..(Len(stack) - 1) :
                          stack[i + 1].task = dependencies[stack[i].task][stack[i].next - 1]
                    /\ \A t \in tasks : color[t] = Black =>
                          \A d \in Members(dependencies[t]) : color[d] = Black
  BY DEF GrayIsCallChain
<1>1. ColorsOK /\ CallsOK
  BY DEF SearchInv
<1>2. PICK n \in Nat : n = Len(stack) /\ DOMAIN stack = 1..n
  BY <1>1 DEF CallsOK
<1>3. CallsFit(dependencies, stack, n, color)
  BY <1>1, <1>2 DEF CallsOK
<1>4. {t \in tasks : color[t] = Gray} = {stack[i].task : i \in 1..n}
  <2>1. \A t \in tasks : color[t] = Gray => \E i \in 1..n : stack[i].task = t
    BY ZenonT(30), <1>3 DEF CallsFit, tasks
  <2>2. \A i \in 1..n : stack[i].task \in tasks /\ color[stack[i].task] = Gray
    BY ZenonT(30), <1>3 DEF CallsFit, tasks
  <2> QED
    BY <2>1, <2>2
<1>5. \A i, j \in 1..n : stack[i].task = stack[j].task => i = j
  BY ZenonT(30), <1>3 DEF CallsFit
<1>6. ASSUME NEW i \in 1..(n - 1)
      PROVE  stack[i + 1].task = dependencies[stack[i].task][stack[i].next - 1]
  <2>1. i \in 1..n /\ i < n
    OBVIOUS
  <2> QED
    BY ZenonT(30), <1>3, <2>1 DEF CallsFit
<1>7. \A t \in tasks : color[t] = Black => \A d \in Members(dependencies[t]) : color[d] = Black
  BY <1>1 DEF ColorsOK, Blacks
<1> QED
  BY <1>2, <1>4, <1>5, <1>6, <1>7

\* The verdicts, in the words of the spec that was submitted.
LEMMA VerdictFromInv ==
    ASSUME BuildInv, SearchInv
    PROVE  VerdictCorrect
<1>1. spec \in Seq(TaskSpecs) /\ DOMAIN spec = 1..Len(spec)
  BY DEF BuildInv, Loaded
<1>2. CASE pc = "duplicate"
  BY <1>1, <1>2 DEF BuildInv, VerdictCorrect
<1>3. CASE pc \in {"missing", "cyclic", "valid"}
  <2>1. Built = Len(spec)
    BY <1>3 DEF BuildInv
  <2>2. /\ tasks = {spec[i].id : i \in DOMAIN spec}
        /\ \A i \in DOMAIN spec : dependencies[spec[i].id] = spec[i].deps
        /\ \A i, j \in DOMAIN spec : spec[i].id = spec[j].id => i = j
    BY <1>1, <2>1 DEF BuildInv, Loaded
  <2>3. (\A t \in tasks : Members(dependencies[t]) \subseteq tasks) <=>
           \A i \in DOMAIN spec : Members(spec[i].deps) \subseteq {spec[j].id : j \in DOMAIN spec}
    <3>1. \A t \in tasks : \E i \in DOMAIN spec : t = spec[i].id /\ dependencies[t] = spec[i].deps
      BY <2>2
    <3>2. \A i \in DOMAIN spec : spec[i].id \in tasks /\ dependencies[spec[i].id] = spec[i].deps
      BY <2>2
    <3>3. (\A t \in tasks : Members(dependencies[t]) \subseteq tasks) <=>
             \A i \in DOMAIN spec : Members(spec[i].deps) \subseteq tasks
      BY ZenonT(30), <3>1, <3>2
    <3> QED
      BY ZenonT(30), <2>2, <3>3
  <2>4. CASE pc = "missing"
    BY ZenonT(30), <2>2, <2>3, <2>4 DEF BuildInv, VerdictCorrect
  <2>5. CASE pc \in {"cyclic", "valid"}
    BY ZenonT(30), <2>2, <2>3, <2>5 DEF BuildInv, SearchInv, VerdictCorrect
  <2> QED
    BY <1>3, <2>4, <2>5
<1>4. CASE pc \notin Verdicts
  BY <1>4 DEF VerdictCorrect, Verdicts
<1> QED
  BY <1>2, <1>3, <1>4 DEF Verdicts

LEMMA ResolverInv == DagSpec => [](BuildInv /\ SearchInv)
<1>1. DagInit => BuildInv /\ SearchInv
  BY BuildInit, SearchInit
<1>2. BuildInv /\ SearchInv /\ [ResolveStep]_dagVars => (BuildInv /\ SearchInv)'
  BY BuildNext, SearchNext
<1> QED
  BY <1>1, <1>2, PTL DEF DagSpec

\* The verdict of ValidateAndSort is right on every spec, of any length and
\* over any set of ids, and for every order in which Go yields the keys of
\* its maps: a duplicate id, an unknown dependency and a cycle are reported
\* only on specs that have them, and an accepted spec has none of them.
THEOREM VerdictIsRight == DagSpec => []VerdictCorrect
<1>1. BuildInv /\ SearchInv => VerdictCorrect
  BY VerdictFromInv
<1> QED
  BY <1>1, ResolverInv, PTL

\* hasCycle's gray tasks are the calls of visit in progress, at every depth
\* of the recursion, and its black tasks are closed under dependencies.
THEOREM GrayTasksAreCalls == DagSpec => []GrayIsCallChain
<1>1. BuildInv /\ SearchInv => GrayIsCallChain
  BY ChainFromInv
<1> QED
  BY <1>1, ResolverInv, PTL
=============================================================================
