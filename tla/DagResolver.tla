----------------------------- MODULE DagResolver -----------------------------
(***************************************************************************)
(* ValidateAndSort of internal/coordinator/dag.go on one submitted spec: a *)
(* sequence of tasks, each with an id and a list of dependencies.  Ids may *)
(* repeat, lists may repeat an entry, name the task itself or an unknown   *)
(* id.  Go iterates its maps in any order; so does todo here.              *)
(***************************************************************************)
EXTENDS Naturals, Sequences, FiniteSets

CONSTANTS Ids, Specs

ASSUME ResolverAssumption == Specs \subseteq Seq([id : Ids, deps : Seq(Ids)])

VARIABLES
    spec,           \* workflow.Tasks
    pc,             \* the loop ValidateAndSort is in, or its verdict
    dependencies,   \* dag.dependencies; its domain is dag.tasks
    downstream,     \* dag.downstream
    inDegree,       \* dag.inDegree
    color,          \* hasCycle's color
    todo,           \* keys the current map iteration has still to yield
    stack           \* calls of visit, innermost last: task and next position

graphVars == <<dependencies, downstream, inDegree>>
dagVars == <<spec, pc, dependencies, downstream, inDegree, color, todo, stack>>

White == 0
Gray == 1
Black == 2

Verdicts == {"duplicate", "missing", "cyclic", "valid"}
tasks == DOMAIN dependencies
Members(s) == {s[i] : i \in DOMAIN s}
Occurrences(s, x) == Cardinality({i \in DOMAIN s : s[i] = x})

DagInit ==
    /\ spec \in Specs
    /\ pc = "build"
    /\ dependencies = <<>> /\ downstream = <<>> /\ inDegree = <<>>
    /\ color = <<>>
    /\ todo = {}
    /\ stack = <<>>

\* f with key t set to v.
Put(f, t, v) == [x \in DOMAIN f \cup {t} |-> IF x = t THEN v ELSE f[x]]
-----------------------------------------------------------------------------
\* One turn of the first loop, over the tasks of the spec in their order.
BuildTask ==
    /\ pc = "build" /\ Cardinality(tasks) < Len(spec)
    /\ LET task == spec[Cardinality(tasks) + 1] IN
       IF task.id \in tasks
       THEN /\ pc' = "duplicate"
            /\ UNCHANGED graphVars
       ELSE /\ dependencies' = Put(dependencies, task.id, task.deps)
            /\ downstream' = Put(downstream, task.id, <<>>)
            /\ inDegree' = Put(inDegree, task.id, 0)
            /\ UNCHANGED pc
    /\ UNCHANGED <<spec, color, todo, stack>>

\* The second loop, a check without effects: all dependencies exist.
CheckDependencies ==
    /\ pc = "build" /\ Cardinality(tasks) = Len(spec)
    /\ IF \A t \in tasks : Members(dependencies[t]) \subseteq tasks
       THEN pc' = "link" /\ todo' = tasks
       ELSE pc' = "missing" /\ UNCHANGED todo
    /\ UNCHANGED <<spec, graphVars, color, stack>>

\* The third loop: every entry of a dependency list, repeated ones included,
\* adds one entry to a downstream list and one to the in-degree.
MutLinkTask ==
    /\ pc = "link"
    /\ \E t \in todo :
        /\ downstream' = [d \in tasks |->
               IF d \in Members(dependencies[t]) THEN Append(downstream[d], t) ELSE downstream[d]]
        /\ inDegree' = [inDegree EXCEPT ![t] = @ + Len(dependencies[t])]
        /\ todo' = todo \ {t}
    /\ UNCHANGED <<spec, pc, dependencies, color, stack>>
LinkTask ==
    /\ pc = "link"
    /\ \E t \in todo :
        /\ downstream' = [d \in tasks |->
               downstream[d] \o [i \in 1..Occurrences(dependencies[t], d) |-> t]]
        /\ inDegree' = [inDegree EXCEPT ![t] = @ + Len(dependencies[t])]
        /\ todo' = todo \ {t}
    /\ UNCHANGED <<spec, pc, dependencies, color, stack>>

\* hasCycle begins: everything is white.
StartSearch ==
    /\ pc = "link" /\ todo = {}
    /\ pc' = "search"
    /\ color' = [t \in tasks |-> White]
    /\ todo' = tasks
    /\ UNCHANGED <<spec, graphVars, stack>>

\* The outer loop of hasCycle yields a task; a white one is visited.
NextRoot ==
    /\ pc = "search" /\ stack = <<>>
    /\ \E t \in todo :
        /\ todo' = todo \ {t}
        /\ IF color[t] = White
           THEN /\ color' = [color EXCEPT ![t] = Gray]
                /\ stack' = <<[task |-> t, next |-> 1]>>
           ELSE UNCHANGED <<color, stack>>
    /\ UNCHANGED <<spec, pc, graphVars>>

top == stack[Len(stack)]
Advanced == [stack EXCEPT ![Len(stack)].next = @ + 1]

\* The innermost visit looks at its next dependency.
MutVisit ==
    /\ pc = "search" /\ stack # <<>>
    /\ top.next <= Len(dependencies[top.task])
    /\ LET dep == dependencies[top.task][top.next] IN
       \/ /\ color[dep] # White
          /\ stack' = Advanced
          /\ UNCHANGED <<pc, color>>
       \/ /\ color[dep] = White
          /\ stack' = Append(Advanced, [task |-> dep, next |-> 1])
          /\ color' = [color EXCEPT ![dep] = Gray]
          /\ UNCHANGED pc
    /\ UNCHANGED <<spec, graphVars, todo>>
Visit ==
    /\ pc = "search" /\ stack # <<>>
    /\ top.next <= Len(dependencies[top.task])
    /\ LET dep == dependencies[top.task][top.next] IN
       \/ /\ color[dep] = Gray
          /\ pc' = "cyclic"
          /\ UNCHANGED <<color, stack>>
       \/ /\ color[dep] = Black
          /\ stack' = Advanced
          /\ UNCHANGED <<pc, color>>
       \/ /\ color[dep] = White
          /\ stack' = Append(Advanced, [task |-> dep, next |-> 1])
          /\ color' = [color EXCEPT ![dep] = Gray]
          /\ UNCHANGED pc
    /\ UNCHANGED <<spec, graphVars, todo>>

\* The innermost visit has seen all its dependencies and returns.
MutReturn ==
    /\ pc = "search" /\ stack # <<>>
    /\ top.next > Len(dependencies[top.task])
    /\ stack' = SubSeq(stack, 1, Len(stack) - 1)
    /\ UNCHANGED <<spec, pc, graphVars, color, todo>>
ReturnVisit ==
    /\ pc = "search" /\ stack # <<>>
    /\ top.next > Len(dependencies[top.task])
    /\ color' = [color EXCEPT ![top.task] = Black]
    /\ stack' = SubSeq(stack, 1, Len(stack) - 1)
    /\ UNCHANGED <<spec, pc, graphVars, todo>>

Accept ==
    /\ pc = "search" /\ stack = <<>> /\ todo = {}
    /\ pc' = "valid"
    /\ UNCHANGED <<spec, graphVars, color, todo, stack>>

ResolveStep ==
    \/ BuildTask \/ CheckDependencies \/ LinkTask
    \/ StartSearch \/ NextRoot \/ Visit \/ ReturnVisit \/ Accept

DagSpec == DagInit /\ [][ResolveStep]_dagVars
-----------------------------------------------------------------------------
(* Properties. *)

\* The reference: every non-empty set of tasks has a member that depends on
\* none of the set, so that the tasks can be put in an order.
Acyclic(D) ==
    \A S \in SUBSET DOMAIN D : S # {} => \E t \in S : Members(D[t]) \cap S = {}

\* The verdict on a spec is the right one, whatever order the maps were
\* walked in: each error is reported for a spec that has it, and a spec that
\* is accepted has distinct ids, known dependencies and no cycle.
VerdictCorrect ==
    LET distinct == \A i, j \in DOMAIN spec : spec[i].id = spec[j].id => i = j
        known == \A i \in DOMAIN spec : Members(spec[i].deps) \subseteq {spec[j].id : j \in DOMAIN spec}
    IN  /\ pc = "duplicate" => ~distinct
        /\ pc = "missing" => distinct /\ ~known
        /\ pc = "cyclic" => distinct /\ known /\ ~Acyclic(dependencies)
        /\ pc = "valid" => distinct /\ known /\ Acyclic(dependencies)

\* Why a gray dependency means a cycle and nothing else does: the gray tasks
\* are the calls of visit in progress, each called for a dependency of the
\* one before, and a task turns black only when all its dependencies are.
GrayIsCallChain ==
    pc = "search" =>
        /\ {t \in tasks : color[t] = Gray} = {stack[i].task : i \in DOMAIN stack}
        /\ \A i, j \in DOMAIN stack : stack[i].task = stack[j].task => i = j
        /\ \A i \in 1..(Len(stack) - 1) :
              stack[i + 1].task = dependencies[stack[i].task][stack[i].next - 1]
        /\ \A t \in tasks : color[t] = Black =>
              \A d \in Members(dependencies[t]) : color[d] = Black
=============================================================================
