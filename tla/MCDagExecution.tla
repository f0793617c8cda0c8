---------------------------- MODULE MCDagExecution ----------------------------
EXTENDS DagExecution, Graphs

A == <<1>>
B == <<1, 2>>
C == <<2>>
D == <<2, 1>>
MCIds == {A, B, C, D}

\* Specs of up to three tasks, one with a repeated id; dependency lists of up
\* to two entries, with repetitions, self references and unknown ids.
IdLists == {<<>>, <<A>>, <<A, B>>, <<A, B, C>>, <<A, B, A>>}
DepLists == UNION {[1..n -> {A, B, C}] : n \in 0..2}
SmallSpecs ==
    UNION {{[i \in DOMAIN ids |-> [id |-> ids[i], deps |-> f[i]]] : f \in [DOMAIN ids -> DepLists]}
           : ids \in IdLists}

\* Four tasks: paths that part and join again, some of them cyclic.
Diamonds ==
    {<<[id |-> D, deps |-> f[1]], [id |-> A, deps |-> <<>>],
       [id |-> B, deps |-> f[2]], [id |-> C, deps |-> f[3]]>> :
     f \in [1..3 -> {<<A>>, <<B, C>>, <<C, A>>, <<A, B, A>>, <<C, B, D>>}]}

MCSpecs == SmallSpecs \cup Diamonds

MCTexts == {<<>>, <<0, 3>>}
MCExec == <<7, 7>>
MCWorkflowID == <<9>>

\* The reference definition of a cycle agrees with the one on graphs.
ASSUME AcyclicIsGraphs ==
    \A G \in [{1, 2, 3} -> {<<>>, <<1>>, <<2>>, <<3>>, <<1, 2>>, <<2, 3>>, <<1, 3>>}] :
        Acyclic(G) <=> ~HasCycle([node |-> {1, 2, 3},
                                  edge |-> {e \in {1, 2, 3} \X {1, 2, 3} : e[2] \in Members(G[e[1]])}])
=============================================================================
