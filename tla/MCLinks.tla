------------------------------ MODULE MCLinks -------------------------------
(* Instances of Links for TLC. *)
EXTENDS Links
=============================================================================
