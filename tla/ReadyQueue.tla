------------------------------ MODULE ReadyQueue ------------------------------
(***************************************************************************)
(* Operators on the coordinator's ready queue, a sequence of task ids.     *)
(* Without is SelectSeq written without recursion, so that facts about it  *)
(* can be proved; WithoutFilters in MCCoordinator compares the two.        *)
(***************************************************************************)
EXTENDS Naturals, Sequences, FiniteSets

\* The sequences that list a set once each, in the order a Go map yields.
Orders(S) ==
    {s \in [1..Cardinality(S) -> S] :
        \A i, j \in 1..Cardinality(S) : s[i] = s[j] => i = j}

\* The queue without the members of S, by rank of the kept positions: the
\* filter loops of applyFailurePolicy and CancelWorkflow.
Without(q, S) ==
    LET keep == {i \in 1..Len(q) : q[i] \notin S}
    IN  [k \in 1..Cardinality(keep) |->
            q[CHOOSE i \in keep : Cardinality({j \in keep : j <= i}) = k]]
=============================================================================
