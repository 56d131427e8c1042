-------------------------- MODULE MCScheduledActor --------------------------
(* Small instances of ScheduledActor for TLC. *)
EXTENDS ScheduledActor, TLC

P(c, k, r) == [cat |-> c, kind |-> k, request |-> r]

\* Requests in the normal queue and responses in the urgent one.
RequestsAndResponses == {P("normal", "plain", TRUE), P("urgent", "resp", FALSE)}

\* Requests of both priorities and responses that come in urgently.
TwoPriorities == {P("normal", "plain", TRUE), P("urgent", "plain", FALSE),
                  P("urgent", "resp", FALSE)}

\* The same, and internal messages, for behaviors that skip.
AllKinds == TwoPriorities \cup {P("normal", "sys", FALSE)}

Threads == Permutations(Senders) \cup Permutations(Workers)
=============================================================================
