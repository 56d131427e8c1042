--------------------------- MODULE MCRunningCount ---------------------------
(* Instances of RunningCount for TLC. *)
EXTENDS RunningCount
=============================================================================
