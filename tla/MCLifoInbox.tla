----------------------------- MODULE MCLifoInbox -----------------------------
(* Small instances of LifoInbox for TLC. *)
EXTENDS LifoInbox
=============================================================================
