----------------------------- MODULE ActorClock -----------------------------
(***************************************************************************)
(* Timeouts: actors with a receive timeout in their behavior, the ring     *)
(* buffer through which they talk to the clock and the thread of           *)
(* thread_safe_actor_clock that keeps the schedule and ships what is due.  *)
(*                                                                         *)
(* One step is one critical section or one access to shared state outside  *)
(* of one.  Time is a counter that any step may see unchanged or advanced. *)
(***************************************************************************)
EXTENDS Naturals, FiniteSets, Sequences, SequencesExt

CONSTANTS
  Actors,
  Durations,  \* timeouts a behavior may have, in ticks or Infinite
  Infinite,   \* the timeout of a behavior without one
  Waits,      \* [Actors -> duration], of the request an actor starts with
  Size,       \* slots of the ring buffer, 64 in the code
  Messages,   \* [Actors -> Nat], bound: ordinary messages to the actor
  MaxTime,    \* bound: no timeout handler sets another timeout later
  IdLimit     \* timeout_id_ wraps around here, 2^64 in the code

Sys == "sys"                 \* the thread that stops the scheduler
Threads == Actors \cup {Sys}

\* op is "receive" or "request" for a timeout of actor a, "cancel" for all its
\* timeouts and "shutdown" for the dispatch loop.
Event(op, a, id, due) == [op |-> op, a |-> a, id |-> id, due |-> due]
Moved == Event("moved", Sys, 0, 0)  \* a slot of the buffer without event

VARIABLES
  now,        \* the system clock
  buf,        \* buf_ of the ring buffer
  rd, wr,     \* rd_pos_ and wr_pos_
  cpc,        \* where the clock thread is
  from, upto, \* the clock thread: next slot to move and `last` in get_all
  events,     \* events_ that are yet to be handled
  schedule,   \* schedule_, a sequence of events ordered by due
  lookup,     \* actor_lookup_, the set of events it has an iterator to
  limit,      \* local variable t of trigger_expired_timeouts
  tpc,        \* [Threads -> {"run", "wait"}]; wait: on cv_full_
  todo,       \* [Threads -> Seq], events the thread is about to push
  pending,    \* the events in the order of push_back, until they are handled
  alive,      \* [Actors -> BOOLEAN]
  dur,        \* [Actors -> duration], timeout of the current behavior
  tid,        \* [Actors -> Nat], timeout_id_
  flag,       \* [Actors -> BOOLEAN], has_timeout_flag
  consumed,   \* [Actors -> BOOLEAN], whether consumed > 0 in resume
  inbox,      \* [Actors -> Seq], the unread messages
  unsent,     \* [Actors -> Nat], ordinary messages yet to come
  quiet,      \* [Actors -> Nat], when the last message was handled
  fired       \* [Actors -> BOOLEAN], the timeout handler ran since then

ringVars  == <<buf, rd, wr>>
clockVars == <<cpc, from, upto, events, schedule, lookup, limit>>
actorVars == <<alive, dur, tid, flag, consumed, unsent, quiet, fired>>
vars == <<now, buf, rd, wr, cpc, from, upto, events, schedule, lookup, limit,
          tpc, todo, pending, alive, dur, tid, flag, consumed, inbox, unsent,
          quiet, fired>>

-----------------------------------------------------------------------------
(* The ring buffer. *)

NextPos(i) == (i + 1) % Size
Empty == rd = wr
Full == rd = NextPos(wr)

\* push_back by thread t, one critical section.  A producer finds the buffer
\* full and waits, or writes and wakes the consumer if the buffer was empty.
\* coordinator::stop ends the dispatch loop after the last actor.
Push(t) ==
  /\ t = Sys => \A a \in Actors : ~alive[a] /\ todo[a] = <<>>
  /\ tpc[t] = "run" /\ todo[t] # <<>>
  /\ IF Full
     THEN /\ tpc' = [tpc EXCEPT ![t] = "wait"]
          /\ UNCHANGED <<ringVars, cpc, todo, pending>>
     ELSE /\ buf' = [buf EXCEPT ![wr] = Head(todo[t])]
          /\ wr' = NextPos(wr)
          /\ todo' = [todo EXCEPT ![t] = Tail(@)]
          /\ pending' = Append(pending, Head(todo[t]))
          /\ cpc' = IF Empty /\ cpc = "wait" THEN "lock" ELSE cpc
          /\ UNCHANGED <<rd, tpc>>
  /\ UNCHANGED <<now, from, upto, events, schedule, lookup, limit, inbox,
                 actorVars>>

\* Mutant: wait_nonempty that does not check again once it has the lock.
CheckOnce ==
  /\ cpc \in {"top", "lock"}
  /\ cpc' = IF cpc = "lock" THEN "wait" ELSE IF Empty THEN "lock" ELSE "get"
  /\ UNCHANGED <<now, ringVars, from, upto, events, schedule, lookup, limit,
                 tpc, todo, pending, inbox, actorVars>>

\* wait_nonempty: first without the lock, then with it.
Check ==
  /\ cpc \in {"top", "lock"}
  /\ cpc' = IF ~Empty THEN "get" ELSE IF cpc = "top" THEN "lock" ELSE "wait"
  /\ UNCHANGED <<now, ringVars, from, upto, events, schedule, lookup, limit,
                 tpc, todo, pending, inbox, actorVars>>

\* wait_nonempty(t) runs into its timeout and evaluates the predicate once more.
WaitTimeout ==
  /\ cpc = "wait"
  /\ schedule # <<>> /\ Head(schedule).due <= now
  /\ cpc' = IF Empty THEN "fire" ELSE "get"
  /\ limit' = now
  /\ UNCHANGED <<now, ringVars, from, upto, events, schedule, lookup, tpc, todo,
                 pending, inbox, actorVars>>

\* get_all: the positions are read without the lock ...
GetAll ==
  /\ cpc = "get"
  /\ from' = rd /\ upto' = wr
  /\ cpc' = "move"
  /\ UNCHANGED <<now, ringVars, events, schedule, lookup, limit, tpc, todo,
                 pending, inbox, actorVars>>

\* ... the events are moved out one by one while producers go on writing ...
MoveOut ==
  /\ cpc = "move" /\ from # upto
  /\ events' = Append(events, buf[from])
  /\ buf' = [buf EXCEPT ![from] = Moved]
  /\ from' = NextPos(from)
  /\ UNCHANGED <<now, rd, wr, cpc, upto, schedule, lookup, limit, tpc, todo,
                 pending, inbox, actorVars>>

\* Mutant: the new read position is wr_pos_ instead of what was moved out.
CommitLate ==
  /\ cpc = "move" /\ from = upto
  /\ rd' = wr
  /\ tpc' = IF rd = NextPos(wr) THEN [t \in Threads |-> "run"] ELSE tpc
  /\ cpc' = "handle"
  /\ UNCHANGED <<now, buf, wr, from, upto, events, schedule, lookup, limit,
                 todo, pending, inbox, actorVars>>

\* Mutant: producers are woken up if the buffer was full when get_all began.
CommitStale ==
  /\ cpc = "move" /\ from = upto
  /\ rd' = upto
  /\ tpc' = IF rd = NextPos(upto)
            THEN [t \in Threads |-> "run"] ELSE tpc
  /\ cpc' = "handle"
  /\ UNCHANGED <<now, buf, wr, from, upto, events, schedule, lookup, limit,
                 todo, pending, inbox, actorVars>>

\* ... and a critical section moves the read position and wakes the producers
\* if the buffer has been full until now.
Commit ==
  /\ cpc = "move" /\ from = upto
  /\ rd' = upto
  /\ tpc' = IF rd = NextPos(wr) THEN [t \in Threads |-> "run"] ELSE tpc
  /\ cpc' = "handle"
  /\ UNCHANGED <<now, buf, wr, from, upto, events, schedule, lookup, limit,
                 todo, pending, inbox, actorVars>>

-----------------------------------------------------------------------------
(* The clock thread. *)

\* schedule_.emplace: behind all entries that are due at the same time.
Insert(s, e) == SelectSeq(s, LAMBDA x : x.due <= e.due) \o <<e>>
                  \o SelectSeq(s, LAMBDA x : x.due > e.due)

Without(s, xs) == SelectSeq(s, LAMBDA x : x \notin xs)

\* add_schedule_entry: a receive timeout replaces the previous one of the actor.
AddEntry(e) ==
  LET old == IF e.op = "receive"
             THEN {x \in lookup : x.a = e.a /\ x.op = e.op} ELSE {}
  IN /\ schedule' = Insert(Without(schedule, old), e)
     /\ lookup' = (lookup \ old) \cup {e}

\* Mutant: only the receive timeout of the actor is cancelled.
CancelReceiveTimeout(a) ==
  LET range == {x \in lookup : x.a = a /\ x.op = "receive"}
  IN schedule' = Without(schedule, range) /\ lookup' = lookup \ range

\* handle(timeouts_cancellation)
CancelTimeouts(a) ==
  LET range == {x \in lookup : x.a = a}
  IN schedule' = Without(schedule, range) /\ lookup' = lookup \ range

\* run_dispatch_loop, the switch on the next event.
HandleEvent ==
  /\ cpc = "handle" /\ events # <<>>
  /\ events' = Tail(events) /\ pending' = Tail(pending)
  /\ LET e == Head(events) IN
     \/ e.op \in {"receive", "request"} /\ AddEntry(e) /\ UNCHANGED cpc
     \/ e.op = "cancel" /\ CancelTimeouts(e.a) /\ UNCHANGED cpc
     \/ e.op = "shutdown" /\ schedule' = <<>> /\ lookup' = {} /\ cpc' = "done"
  /\ UNCHANGED <<now, ringVars, from, upto, limit, tpc, todo, inbox, actorVars>>

\* The batch is handled, the loop starts over.
EndBatch ==
  /\ cpc = "handle" /\ events = <<>>
  /\ cpc' = "top"
  /\ UNCHANGED <<now, ringVars, from, upto, events, schedule, lookup, limit,
                 tpc, todo, pending, inbox, actorVars>>

\* Mutant: the iterator of an expired entry stays in actor_lookup_.
ExpireKeepsBacklink(e) == schedule' = Tail(schedule) /\ UNCHANGED lookup

\* Entry e leaves the schedule, its backlink tells its place in actor_lookup_.
Expire(e) == schedule' = Tail(schedule) /\ lookup' = lookup \ {e}

\* trigger_expired_timeouts: ship the next entry, or go back to the loop.
Fire ==
  /\ cpc = "fire"
  /\ IF schedule # <<>> /\ Head(schedule).due <= limit
     THEN LET e == Head(schedule) IN
          /\ Expire(e)
          /\ inbox' = IF alive[e.a]
                      THEN [inbox EXCEPT ![e.a] = Append(@, <<e.op, e.id>>)]
                      ELSE inbox
          /\ UNCHANGED cpc
     ELSE cpc' = "top" /\ UNCHANGED <<schedule, lookup, inbox>>
  /\ UNCHANGED <<now, ringVars, from, upto, events, limit, tpc, todo, pending,
                 actorVars>>

Clock == \/ Check \/ WaitTimeout \/ GetAll \/ MoveOut \/ Commit \/ HandleEvent
         \/ EndBatch \/ Fire

-----------------------------------------------------------------------------
(* Actors with a receive timeout. *)

\* Between two messages of its mailbox; a push_back may block inside a handler.
Ready(a) == alive[a] /\ tpc[a] = "run" /\ todo[a] = <<>>

\* set_receive_timeout of an actor with the timeout d in its behavior, where f
\* is has_timeout_flag and box the mailbox so far.
SetReceiveTimeout(a, d, f, box) ==
  LET id == (tid[a] + 1) % IdLimit IN
  /\ dur' = [dur EXCEPT ![a] = d]
  /\ tid' = IF d = Infinite THEN tid ELSE [tid EXCEPT ![a] = id]
  /\ flag' = [flag EXCEPT ![a] = CASE d = Infinite -> FALSE
                                   [] d = 0 -> f
                                   [] OTHER -> TRUE]
  /\ inbox' = [inbox EXCEPT ![a] =
                 IF d = 0 THEN Append(box, <<"receive", id>>) ELSE box]
  /\ todo' = IF d \in {0, Infinite} THEN todo
             ELSE [todo EXCEPT ![a] = <<Event("receive", a, id, now + d)>>]

\* What a handler may do to the behavior: keep it, or become another one, which
\* sets its timeout at once.
Become(a, f, box) ==
  \/ /\ flag' = [flag EXCEPT ![a] = f]
     /\ inbox' = [inbox EXCEPT ![a] = box]
     /\ UNCHANGED <<dur, tid, todo>>
  \/ \E d \in Durations : SetReceiveTimeout(a, d, f, box)

\* consume: an ordinary message ends the current receive timeout.
HandleOrdinary(a) ==
  /\ Ready(a) /\ inbox[a] # <<>> /\ Head(inbox[a])[1] = "ordinary"
  /\ Become(a, FALSE, Tail(inbox[a]))
  /\ quiet' = [quiet EXCEPT ![a] = now]
  /\ fired' = [fired EXCEPT ![a] = FALSE]
  /\ consumed' = [consumed EXCEPT ![a] = TRUE]
  /\ UNCHANGED <<now, ringVars, clockVars, tpc, pending, alive, unsent>>

\* Mutant: is_active_receive_timeout without the check of the ID.
IsActiveAnyId(a, id) == flag[a]

\* is_active_receive_timeout
IsActive(a, id) == flag[a] /\ tid[a] = id

\* categorize: a timeout_msg runs the timeout handler if it is the active one.
HandleTimeout(a) ==
  /\ Ready(a) /\ inbox[a] # <<>> /\ Head(inbox[a])[1] = "receive"
  /\ IF IsActive(a, Head(inbox[a])[2])
     THEN /\ fired' = [fired EXCEPT ![a] = TRUE]
          /\ IF now < MaxTime
             THEN Become(a, TRUE, Tail(inbox[a]))
             ELSE SetReceiveTimeout(a, Infinite, TRUE, Tail(inbox[a]))
     ELSE /\ inbox' = [inbox EXCEPT ![a] = Tail(@)]
          /\ UNCHANGED <<fired, dur, tid, flag, todo>>
  /\ consumed' = [consumed EXCEPT ![a] = TRUE]
  /\ UNCHANGED <<now, ringVars, clockVars, tpc, pending, alive, unsent, quiet>>

\* consume: the request timeout runs the response handler of the request.
HandleResponse(a) ==
  /\ Ready(a) /\ inbox[a] # <<>> /\ Head(inbox[a])[1] = "request"
  /\ inbox' = [inbox EXCEPT ![a] = Tail(@)]
  /\ consumed' = [consumed EXCEPT ![a] = TRUE]
  /\ UNCHANGED <<now, ringVars, clockVars, tpc, todo, pending, alive, dur, tid,
                 flag, unsent, quiet, fired>>

\* reset_timeouts_if_needed, after a round that found no message; the default
\* max_throughput never ends a round before.
ResetTimeout(a) ==
  /\ Ready(a) /\ consumed[a] /\ inbox[a] = <<>>
  /\ SetReceiveTimeout(a, dur[a], flag[a], inbox[a])
  /\ consumed' = [consumed EXCEPT ![a] = FALSE]
  /\ UNCHANGED <<now, ringVars, clockVars, tpc, pending, alive, unsent, quiet,
                 fired>>

\* cleanup: the actor closes its mailbox and cancels its timeouts.
Terminate(a) ==
  /\ Ready(a)
  /\ alive' = [alive EXCEPT ![a] = FALSE]
  /\ inbox' = [inbox EXCEPT ![a] = <<>>]
  /\ todo' = [todo EXCEPT ![a] = <<Event("cancel", a, 0, 0)>>]
  /\ UNCHANGED <<now, ringVars, clockVars, tpc, pending, dur, tid, flag,
                 consumed, unsent, quiet, fired>>

\* Somebody sends an ordinary message.
Send(a) ==
  /\ unsent[a] > 0 /\ alive[a]
  /\ unsent' = [unsent EXCEPT ![a] = @ - 1]
  /\ inbox' = [inbox EXCEPT ![a] = Append(@, <<"ordinary", 0>>)]
  /\ UNCHANGED <<now, ringVars, clockVars, tpc, todo, pending, alive, dur, tid,
                 flag, consumed, quiet, fired>>

\* Time passes while the clock waits for it.  A tick is longer than the way of
\* a message through the ring buffer and the mailbox.
Tick ==
  /\ cpc = "wait" /\ schedule # <<>> /\ Head(schedule).due > now
  /\ \A a \in Actors : /\ todo[a] = <<>> /\ inbox[a] = <<>>
                       /\ ~(alive[a] /\ consumed[a])
  /\ now' = now + 1
  /\ UNCHANGED <<ringVars, clockVars, tpc, todo, pending, inbox, actorVars>>

-----------------------------------------------------------------------------
\* Every actor is about to set the timeout of its first behavior; it may have
\* sent a request with a timeout before.
Init ==
  /\ now = 0 /\ limit = 0
  /\ buf = [i \in 0..Size - 1 |-> Moved] /\ rd = 0 /\ wr = 0
  /\ cpc = "top" /\ from = 0 /\ upto = 0
  /\ events = <<>> /\ schedule = <<>> /\ lookup = {} /\ pending = <<>>
  /\ tpc = [t \in Threads |-> "run"]
  /\ todo = [t \in Threads |->
               IF t = Sys THEN <<Event("shutdown", Sys, 0, 0)>>
               ELSE IF Waits[t] = Infinite THEN <<>>
               ELSE <<Event("request", t, 0, Waits[t])>>]
  /\ alive = [a \in Actors |-> TRUE]
  /\ dur \in [Actors -> Durations]
  /\ tid = [a \in Actors |-> 0]
  /\ flag = [a \in Actors |-> FALSE]
  /\ consumed = [a \in Actors |-> TRUE]
  /\ inbox = [a \in Actors |-> <<>>]
  /\ unsent = Messages
  /\ quiet = [a \in Actors |-> 0]
  /\ fired = [a \in Actors |-> FALSE]

Actor(a) == \/ HandleOrdinary(a) \/ HandleTimeout(a) \/ HandleResponse(a)
            \/ ResetTimeout(a)

Next ==
  \/ Clock
  \/ Tick
  \/ \E t \in Threads : Push(t)
  \/ \E a \in Actors : Actor(a) \/ Terminate(a) \/ Send(a)

\* Threads run, time passes, an actor with work is scheduled; nothing forces
\* messages to arrive or actors to terminate.
Spec ==
  /\ Init /\ [][Next]_vars
  /\ WF_vars(Clock) /\ WF_vars(Tick)
  /\ \A t \in Threads : WF_vars(Push(t))
  /\ \A a \in Actors : WF_vars(Actor(a))

-----------------------------------------------------------------------------
(* Properties. *)

\* The events between two positions of the buffer.
Window(i, j) == [k \in 1..((j + Size - i) % Size) |-> buf[(i + k - 1) % Size]]

\* Producers and the clock thread agree on one FIFO queue: what was pushed and
\* is not handled yet is, in the order of push_back, what get_all moved out
\* followed by the occupied slots, although get_all moves without the lock.
RingIsFifo == pending = events \o Window(IF cpc = "move" THEN from ELSE rd, wr)

\* actor_lookup_ refers to exactly the entries of the schedule: an iterator to
\* an erased entry would be dereferenced by the next cancellation.  There is at
\* most one receive timeout per actor and the entries are ordered by time.
LookupMatchesSchedule ==
  /\ lookup = Range(schedule)
  /\ Cardinality(lookup) = Len(schedule)
  /\ \A i, j \in DOMAIN schedule :
       i < j => /\ schedule[i].due <= schedule[j].due
                /\ ~(/\ schedule[i].a = schedule[j].a
                     /\ schedule[i].op = "receive" /\ schedule[j].op = "receive")

\* Once the clock handled the cancellation of a terminated actor it holds no
\* timeout of it any more and thus no reference to it (local_actor::cleanup).
CancelledIsGone ==
  \A a \in Actors :
    ~alive[a] /\ todo[a] = <<>> /\ (\A e \in Range(pending) : e.a # a)
      => \A e \in Range(schedule) : e.a # a

\* The timeout handler runs only if the actor handled no ordinary message for
\* the duration of the timeout, however many older timeout_msg are under way.
NoEarlyTimeout ==
  [][\A a \in Actors : HandleTimeout(a) /\ IsActive(a, Head(inbox[a])[2])
                         => now >= quiet[a] + dur[a]]_vars

Handled(a) ==
  Messages[a] - unsent[a] - Len(SelectSeq(inbox[a], LAMBDA m : m[1] = "ordinary"))

\* A behavior with a timeout runs its handler unless the actor handles a message
\* or terminates first: no timeout is lost on its way through the ring buffer,
\* the schedule and the mailbox.
TimeoutFires ==
  \A a \in Actors : \A n \in 0..Messages[a] :
    (alive[a] /\ dur[a] # Infinite /\ Handled(a) = n)
      ~> (fired[a] \/ Handled(a) # n \/ ~alive[a])

\* push_back always returns and coordinator::stop can join the clock thread.
ClockStops == (\A a \in Actors : ~alive[a]) ~> (cpc = "done")
=============================================================================
