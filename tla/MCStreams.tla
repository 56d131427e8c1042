----------------------------- MODULE MCStreams -----------------------------
(***************************************************************************)
(* Instances of Streams for TLC: a source, a stage and a sink in a chain,  *)
(* and a source that also broadcasts to a second sink.                     *)
(***************************************************************************)
EXTENDS Streams

CONSTANTS origin, stg, snk, tee

ChainActors == {origin, stg, snk}
ChainPaths  == {1, 2}
ChainSelf   == [m \in ChainActors |-> m]
ChainFrom   == <<origin, stg>>
ChainTo     == <<stg, snk>>

ForkActors == {origin, stg, snk, tee}
ForkPaths  == {1, 2, 3}
ForkSelf   == [m \in ForkActors |-> m]
ForkFrom   == <<origin, stg, origin>>
ForkTo     == <<stg, snk, tee>>
=============================================================================
