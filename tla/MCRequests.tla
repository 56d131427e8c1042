----------------------------- MODULE MCRequests -----------------------------
(* Instances of Requests for TLC. *)
EXTENDS Requests

NoOrdinary == [c \in Category |-> 0]
OneOrdinary == [c \in Category |-> IF c = "normal" THEN 1 ELSE 0]
=============================================================================
