------------------------------- MODULE Links --------------------------------
(***************************************************************************)
(* Links and monitors: the attachables of monitorable_actor, the exit and  *)
(* down messages that default_attachable sends, and what an actor does     *)
(* with them.  Each actor runs on its own; two actors interleave at every  *)
(* point where one of them leaves a critical section.                      *)
(***************************************************************************)
EXTENDS Integers, Sequences, FiniteSets, Lists

CONSTANTS
  Actors,
  Trapping,     \* actors that replaced the default exit handler
  QuitReasons,  \* reasons with which an actor may quit
  SendReasons,  \* reasons an actor may pass to send_exit
  MaxCalls      \* bound: calls per actor

Reason == {"normal", "error", "kill"}

ASSUME LinksConstants == /\ IsFiniteSet(Actors)
                         /\ Trapping \subseteq Actors
                         /\ QuitReasons \subseteq Reason
                         /\ SendReasons \subseteq Reason
                         /\ MaxCalls \in Nat

Attachable == [observer : Actors, type : {"link", "monitor"}]
SysMsg     == [type : {"exit", "down"}, source : Actors, reason : Reason]

VARIABLES
  phase,     \* [Actors -> "alive", "closed": the mailbox is, "notify": the
             \* flags are set and the attachables swapped out, "dead"]
  reason,    \* [Actors -> Reason], fail_state_
  attached,  \* [Actors -> Seq(Attachable)], the list attachables_head_
  todo,      \* [Actors -> Seq(Attachable)], local variable head of cleanup
  late,      \* [Actors -> Seq(SysMsg)], what attach has to deliver at once
             \* because the actor to be monitored had terminated already
  mailbox,   \* [Actors -> Seq(SysMsg)], the system messages of an actor
  calls,     \* [Actors -> 0..MaxCalls]
  linked,    \* pairs that called link_to and did not call unlink_from since
  monitors,  \* [Actors -> [Actors -> Nat]], calls of monitor not undone
  downs,     \* [Actors -> [Actors -> Nat]], down messages sent
  told       \* pairs one of which called send_exit for the other

vars == <<phase, reason, attached, todo, late, mailbox, calls, linked,
          monitors, downs, told>>

Init ==
  /\ phase = [a \in Actors |-> "alive"]
  /\ reason = [a \in Actors |-> "normal"]
  /\ attached = [a \in Actors |-> <<>>]
  /\ todo = [a \in Actors |-> <<>>]
  /\ late = [a \in Actors |-> <<>>]
  /\ mailbox = [a \in Actors |-> <<>>]
  /\ calls = [a \in Actors |-> 0]
  /\ linked = {}
  /\ monitors = [a \in Actors |-> [b \in Actors |-> 0]]
  /\ downs = [a \in Actors |-> [b \in Actors |-> 0]]
  /\ told = {}

-----------------------------------------------------------------------------
(* Helpers. *)

Link(a)    == [observer |-> a, type |-> "link"]
Monitor(a) == [observer |-> a, type |-> "monitor"]

\* Mutant: cleanup that sets the flag after it sent the messages.
FlagSetLast(a) == phase[a] = "dead"

\* is_terminated_flag
Terminated(a) == phase[a] \in {"notify", "dead"}

\* attach_impl: a new attachable becomes the head of the list.
AttachImpl(l, x) == <<x>> \o l

\* detach_impl: the first match only, or every match.
DetachFirst(l, x) == WithoutFirst(l, x)
DetachAll(l, x)   == Sublist(l, Attachable \ {x})
Count(l, x)       == Occurrences(l, {x})

\* enqueue drops a message for an actor whose mailbox is closed.
Deliver(box, to, m) ==
  IF phase[to] = "alive" THEN [box EXCEPT ![to] = Append(@, m)] ELSE box

\* Mutant: remove_link without remove_backlink.
UnlinkedHere(a, b) == [attached EXCEPT ![a] = DetachFirst(@, Link(b))]

\* remove_link, under the locks of both actors.
Unlinked(a, b) ==
  [x \in Actors |-> IF x = a THEN DetachFirst(attached[a], Link(b))
                    ELSE IF x = b THEN DetachFirst(attached[b], Link(a))
                    ELSE attached[x]]

\* An actor that is about to make a call.
Calls(a) == /\ phase[a] = "alive"
            /\ late[a] = <<>>
            /\ calls[a] < MaxCalls
            /\ calls' = [calls EXCEPT ![a] = @ + 1]

-----------------------------------------------------------------------------
(* Calls. *)

\* add_link and add_backlink, under the locks of both actors.  The actor that
\* is linked to sends its exit message at once if it has terminated; a second
\* link between the same actors changes nothing.
LinkTo(a, b) ==
  /\ Calls(a)
  /\ a # b
  /\ linked' = linked \cup {{a, b}}
  /\ IF Terminated(b)
     THEN /\ mailbox' = Deliver(mailbox, a, [type |-> "exit", source |-> b,
                                             reason |-> reason[b]])
          /\ UNCHANGED attached
     ELSE /\ attached' =
               IF Count(attached[b], Link(a)) > 0 THEN attached
               ELSE [attached EXCEPT ![a] = AttachImpl(@, Link(b)),
                                     ![b] = AttachImpl(@, Link(a))]
          /\ UNCHANGED mailbox
  /\ UNCHANGED <<phase, reason, todo, late, monitors, downs, told>>

\* unlink_from.
UnlinkFrom(a, b) ==
  /\ Calls(a)
  /\ a # b
  /\ linked' = linked \ {{a, b}}
  /\ attached' = Unlinked(a, b)
  /\ UNCHANGED <<phase, reason, todo, late, mailbox, monitors, downs, told>>

\* monitor, which calls attach on the other actor.
MonitorActor(a, b) ==
  /\ Calls(a)
  /\ a # b
  /\ monitors' = [monitors EXCEPT ![a][b] = @ + 1]
  /\ IF Terminated(b)
     THEN /\ late' = [late EXCEPT ![a] =
                        <<[type |-> "down", source |-> b, reason |-> reason[b]]>>]
          /\ UNCHANGED attached
     ELSE /\ attached' = [attached EXCEPT ![b] = AttachImpl(@, Monitor(a))]
          /\ UNCHANGED late
  /\ UNCHANGED <<phase, reason, todo, mailbox, linked, downs, told>>

\* attach calls actor_exited after it left the critical section.
AttachLate(a) ==
  /\ late[a] # <<>>
  /\ mailbox' = Deliver(mailbox, a, Head(late[a]))
  /\ late' = [late EXCEPT ![a] = <<>>]
  /\ downs' = [downs EXCEPT ![a][Head(late[a]).source] = @ + 1]
  /\ UNCHANGED <<phase, reason, attached, todo, calls, linked, monitors, told>>

\* demonitor, which calls detach without stop_on_hit.
Demonitor(a, b) ==
  /\ Calls(a)
  /\ a # b
  /\ attached' = [attached EXCEPT ![b] = DetachAll(@, Monitor(a))]
  /\ monitors' = [monitors EXCEPT ![a][b] =
                    @ - (Len(attached[b]) - Len(attached'[b]))]
  /\ UNCHANGED <<phase, reason, todo, late, mailbox, linked, downs, told>>

\* send_exit.
SendExit(a, b, r) ==
  /\ Calls(a)
  /\ a # b
  /\ mailbox' = Deliver(mailbox, b, [type |-> "exit", source |-> a, reason |-> r])
  /\ told' = told \cup {{a, b}}
  /\ UNCHANGED <<phase, reason, attached, todo, late, linked, monitors, downs>>

-----------------------------------------------------------------------------
(* The life of an actor. *)

\* quit, followed by scheduled_actor::cleanup up to the call of its base.
Close(a, r) == /\ phase' = [phase EXCEPT ![a] = "closed"]
               /\ reason' = [reason EXCEPT ![a] = r]

Quit(a, r) ==
  /\ phase[a] = "alive"
  /\ late[a] = <<>>
  /\ Close(a, r)
  /\ mailbox' = [mailbox EXCEPT ![a] = <<>>]
  /\ UNCHANGED <<attached, todo, late, calls, linked, monitors, downs, told>>

\* categorize on an exit message: unlink from its source first; the reason kill
\* is fatal, any other goes to the exit handler, which by default quits unless
\* the reason is normal.
HandleExit(a) ==
  LET m == Head(mailbox[a]) IN
  /\ phase[a] = "alive"
  /\ late[a] = <<>>
  /\ mailbox[a] # <<>>
  /\ m.type = "exit"
  /\ attached' = Unlinked(a, m.source)
  /\ IF m.reason = "kill" \/ (m.reason # "normal" /\ a \notin Trapping)
     THEN Close(a, m.reason) /\ mailbox' = [mailbox EXCEPT ![a] = <<>>]
     ELSE UNCHANGED <<phase, reason>> /\ mailbox' = [mailbox EXCEPT ![a] = Tail(@)]
  /\ UNCHANGED <<todo, late, calls, linked, monitors, downs, told>>

\* categorize on a down message.
HandleDown(a) ==
  /\ phase[a] = "alive"
  /\ late[a] = <<>>
  /\ mailbox[a] # <<>>
  /\ Head(mailbox[a]).type = "down"
  /\ mailbox' = [mailbox EXCEPT ![a] = Tail(@)]
  /\ UNCHANGED <<phase, reason, attached, todo, late, calls, linked, monitors,
                 downs, told>>

\* Mutant: cleanup that leaves the list in place.
CleanupKeepsList(a) ==
  /\ phase[a] = "closed"
  /\ phase' = [phase EXCEPT ![a] = "notify"]
  /\ todo' = [todo EXCEPT ![a] = attached[a]]
  /\ UNCHANGED <<reason, attached, late, mailbox, calls, linked, monitors, downs,
                 told>>

\* The critical section of monitorable_actor::cleanup.
Cleanup(a) ==
  /\ phase[a] = "closed"
  /\ phase' = [phase EXCEPT ![a] = "notify"]
  /\ todo' = [todo EXCEPT ![a] = attached[a]]
  /\ attached' = [attached EXCEPT ![a] = <<>>]
  /\ UNCHANGED <<reason, late, mailbox, calls, linked, monitors, downs, told>>

\* One iteration of the loop that calls actor_exited.
ActorExited(a) ==
  LET x == Head(todo[a]) IN
  /\ phase[a] = "notify"
  /\ todo[a] # <<>>
  /\ todo' = [todo EXCEPT ![a] = Tail(@)]
  /\ mailbox' = Deliver(mailbox, x.observer,
                        [type |-> IF x.type = "monitor" THEN "down" ELSE "exit",
                         source |-> a, reason |-> reason[a]])
  /\ downs' = IF x.type = "monitor"
              THEN [downs EXCEPT ![x.observer][a] = @ + 1] ELSE downs
  /\ UNCHANGED <<phase, reason, attached, late, calls, linked, monitors, told>>

CleanupDone(a) ==
  /\ phase[a] = "notify"
  /\ todo[a] = <<>>
  /\ phase' = [phase EXCEPT ![a] = "dead"]
  /\ UNCHANGED <<reason, attached, todo, late, mailbox, calls, linked, monitors,
                 downs, told>>

-----------------------------------------------------------------------------
Call(a, b) == \/ LinkTo(a, b) \/ UnlinkFrom(a, b) \/ MonitorActor(a, b)
              \/ Demonitor(a, b) \/ \E r \in SendReasons : SendExit(a, b, r)

Work(a) == \/ AttachLate(a) \/ HandleExit(a) \/ HandleDown(a) \/ Cleanup(a)
           \/ ActorExited(a) \/ CleanupDone(a)

Next == \E a \in Actors : \/ \E b \in Actors : Call(a, b)
                          \/ \E r \in QuitReasons : Quit(a, r)
                          \/ Work(a)

Spec == Init /\ [][Next]_vars

\* The scheduler runs actors that have something to do (ScheduledActor checks
\* that it does); nothing makes an actor call or quit.
FairSpec == Spec /\ \A a \in Actors : WF_vars(Work(a))

-----------------------------------------------------------------------------
(* Properties. *)

\* A link has two ends as long as both actors can still be told: add_link and
\* remove_link change both lists or none, whatever else happens to them, and a
\* link is never entered twice.
LinksHaveTwoEnds ==
  \A a, b \in Actors :
    /\ Count(attached[a], Link(b)) <= 1
    /\ ~Terminated(a) /\ ~Terminated(b)
         => Count(attached[a], Link(b)) = Count(attached[b], Link(a))

\* Down messages of b.
DownsOf(b) == [type : {"down"}, source : {b}, reason : Reason]

\* Every call of monitor that was not undone leads to exactly one down message:
\* it is attached, about to be sent by the cleanup of the other actor, about to
\* be sent by attach, or sent.
OneDownPerMonitor ==
  \A a, b \in Actors :
    monitors[a][b] = Count(attached[b], Monitor(a)) + Count(todo[b], Monitor(a))
                     + Occurrences(late[a], DownsOf(b)) + downs[a][b]

\* Linked actors fail collectively: if one of them fails, so does the other, or
\* the other called unlink_from or traps exits.  Not so if one of them sent the
\* other an exit message: reading it dissolves the link, as if the sender had
\* terminated (categorize calls unlink_from before it looks at the reason).
FailTogether ==
  \A a, b \in Actors :
    ({a, b} \in linked \ told /\ phase[a] # "alive" /\ reason[a] # "normal"
       /\ b \notin Trapping)
      ~> (phase[b] # "alive" \/ {a, b} \notin linked \ told)

\* demonitor removes a monitor, and each call of monitor creates an independent
\* one: no step undoes two of them.
DemonitorRemovesOne ==
  [][\A a, b \in Actors : monitors'[a][b] >= monitors[a][b] - 1]_vars
=============================================================================
