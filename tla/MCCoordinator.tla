---------------------------- MODULE MCCoordinator ----------------------------
(***************************************************************************)
(* Instances of Coordinator for TLC: one workflow of up to three tasks.     *)
(***************************************************************************)
EXTENDS CoordinatorInvariant, TLC

CONSTANTS a, b, c, wf1, wf2

OneWorkflow == [t \in Tasks |-> wf1]

\* c joins a and b; a then b; no dependencies.
JoinDeps == [t \in Tasks |-> IF t = c THEN {a, b} ELSE {}]
ChainDeps == [t \in Tasks |-> IF t = b THEN {a} ELSE {}]
NoDeps == [t \in Tasks |-> {}]

SkipPolicy == [wf \in Workflows |-> "SKIP_DOWNSTREAM"]
MixedPolicy == [wf \in Workflows |-> IF wf = wf1 THEN "SKIP_DOWNSTREAM" ELSE "FAIL_FAST"]

\* max_retries: the first failure is final, one retry is allowed, or only a
\* is never retried.
NoRetry == [t \in Tasks |-> 1]
OneRetry == [t \in Tasks |-> 2]
RetryExceptA == [t \in Tasks |-> IF t = a THEN 1 ELSE 2]

AlwaysOk == [t \in Tasks |-> {"ok"}]
AlwaysErr == [t \in Tasks |-> {"err"}]
AnyOutcome == [t \in Tasks |-> {"ok", "err"}]
LastOk == [t \in Tasks |-> IF t = c THEN {"ok"} ELSE {"ok", "err"}]

\* The rank-based filter of ReadyQueue is the filter of the Go loops.
ASSUME WithoutFilters ==
    \A q \in UNION {[1..n -> {a, b, c}] : n \in 0..4}, S \in SUBSET {a, b, c} :
        Without(q, S) = SelectSeq(q, LAMBDA t : t \notin S)

\* Execution ids are compared with each other only; so are client calls, and
\* workers in the runs where all of them may misbehave in the same way.
CallSymmetry == Permutations(Execs) \cup Permutations(Clients)
FullSymmetry == Permutations(Execs) \cup Permutations(Workers)
=============================================================================
