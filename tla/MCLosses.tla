------------------------------- MODULE MCLosses -------------------------------
(***************************************************************************)
(* Instances of Coordinator with the history of lost assignments: two      *)
(* workflows of two independent tasks each, one per failure policy.        *)
(***************************************************************************)
EXTENDS MCCoordinator, Losses

CONSTANT d

TwoByTwo == [t \in Tasks |-> IF t \in {a, b} THEN wf1 ELSE wf2]

\* Bound: either workflow is submitted, not both.
OneSubmission == Cardinality(stored') <= 1

ProgressSpec ==
    Init /\ LossInit /\ [][LossNext /\ OneSubmission]_<<vars, lost>> /\ Fairness
=============================================================================
