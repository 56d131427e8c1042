--------------------------- MODULE MCWorkStealing ---------------------------
(* Instances of WorkStealing for TLC. *)
EXTENDS WorkStealing, TLC

Symmetry == Permutations(Jobs) \cup Permutations(Clients)
=============================================================================
