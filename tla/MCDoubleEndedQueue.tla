------------------------- MODULE MCDoubleEndedQueue -------------------------
(* Instances of DoubleEndedQueue for TLC. *)
EXTENDS DoubleEndedQueue
=============================================================================
