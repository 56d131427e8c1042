---------------------------- MODULE MCActorClock ----------------------------
(***************************************************************************)
(* Instances of ActorClock for TLC: two actors, one of which receives an   *)
(* ordinary message and the other one sends a request.                     *)
(***************************************************************************)
EXTENDS ActorClock

CONSTANTS a1, a2

OneMessage == [a \in Actors |-> IF a = a1 THEN 1 ELSE 0]
OneRequest == [a \in Actors |-> IF a = a2 THEN 1 ELSE Infinite]
NoRequest == [a \in Actors |-> Infinite]
=============================================================================
