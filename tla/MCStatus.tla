------------------------------- MODULE MCStatus -------------------------------
(***************************************************************************)
(* Instances of Coordinator with a client that follows a workflow.         *)
(***************************************************************************)
EXTENDS MCCoordinator, StatusReader
=============================================================================
