--------------------------- MODULE ScheduledActor ---------------------------
(***************************************************************************)
(* One event-based actor, the threads that send to it and the workers that *)
(* run it: scheduled_actor::enqueue, ::resume and ::cleanup, the fifo_inbox*)
(* and the two cached DRR queues of its mailbox, the loop of a scheduler   *)
(* worker, and the strong references that keep the actor in memory.        *)
(*                                                                         *)
(* The scheduler is reduced to what this component needs of it: a number   *)
(* of entries that point to the actor, any of which any worker may take.   *)
(***************************************************************************)
EXTENDS Inbox, FiniteSets, Functions

CONSTANTS
  Senders,        \* threads that hold a handle to the actor
  Workers,        \* threads of the scheduler
  Payloads,       \* what senders may send, a set of [cat, kind, request]
  Modes,          \* the states of the behavior the actor may switch between
  MaxSends,       \* bound: messages per sender
  MaxThroughput,  \* scheduler.max-throughput
  Quantum         \* the DRR quantum of one round, 3 in the code

\* plain: matched against the behavior.  sys: handled internally (exit_msg,
\* down_msg, timeout_msg, ...).  resp: a response to an awaited request.
Kind == {"plain", "sys", "resp"}

\* Whoever spawned the actor starts out with a handle to it.
ASSUME SendersFinite == IsFiniteSet(Senders) /\ Senders # {}
ASSUME WorkersFinite == IsFiniteSet(Workers)
ASSUME PayloadsTyped ==
  /\ Payloads \subseteq [cat : Category, kind : Kind, request : BOOLEAN]
  /\ \A p \in Payloads : p.kind = "resp" => ~p.request
ASSUME ModesTyped == Modes \subseteq {"ready", "await", "skip"} /\ Modes # {}
ASSUME MaxSendsNat == MaxSends \in Nat
ASSUME MaxThroughputPos == MaxThroughput \in Nat \ {0}
ASSUME QuantumPos == Quantum \in Nat \ {0}

Msg == [src : Senders, seq : 1..MaxSends, cat : Category, kind : Kind,
        request : BOOLEAN]

VARIABLES
  queue,        \* [Category -> Seq(Msg)], list_ of the two cached queues
  cache,        \* [Category -> Seq(Msg)], cache_: the skipped messages
  deficit,      \* [Category -> Nat], deficit_ of the two queues
  mode,         \* "await": awaited_responses_ is not empty; "skip": the default
                \* handler skips what the behavior does not match; or "ready"
  initialized,  \* is_initialized_flag
  terminated,   \* is_terminated_flag and is_cleaned_up_flag
  destroyed,    \* whether the actor object has been destroyed
  strong,       \* strong_refs of the control block
  jobs,         \* entries of the scheduler's queues that point to the actor
  spc,          \* [Senders -> {"idle", "wake"}], where a sender is in enqueue
  sent,         \* [Senders -> 0..MaxSends]
  owns,         \* [Senders -> BOOLEAN], whether the sender holds its handle
  wpc,          \* [Workers -> WorkerPc], where a worker is in its run loop
  consumed,     \* [Workers -> Nat], local variable of resume
  prev,         \* [Workers -> Nat], local variable of resume
  handled,      \* messages that reached the behavior or an internal handler
  bounced,      \* requests answered with sec::request_receiver_down
  dropped       \* other messages deleted unread

actorVars  == <<queue, cache, deficit, mode, initialized, terminated>>
refVars    == <<strong, destroyed>>
senderVars == <<spc, sent, owns>>
workerVars == <<wpc, consumed, prev>>
outVars    == <<handled, bounced, dropped>>
vars == <<tag, stack, queue, cache, deficit, mode, initialized, terminated,
          destroyed, strong, jobs, spc, sent, owns, wpc, consumed, prev,
          handled, bounced, dropped>>

WorkerPc == {"idle", "activate", "initclose", "initterm", "fetch", "urgent",
             "begin", "normal", "close", "term", "check", "block", "finalize",
             "late", "release"}

\* Workers that are inside resume.  In "release" a worker only gives up its
\* reference: after a successful try_block the actor may already run elsewhere.
Running(w) == wpc[w] \notin {"idle", "release"}

\* The messages of one part of the mailbox, as a set.
MsgsOf(q) == UNION {Range(q[c]) : c \in Category}

Unread == MsgsOf(stack) \cup MsgsOf(queue) \cup MsgsOf(cache)

-----------------------------------------------------------------------------
(* Launch. *)

\* launch: either the actor is put into the scheduler right away, with a
\* reference for that entry, or it is lazy and its inbox starts blocked.
Init ==
  /\ stack = NoMsgs
  /\ \/ tag = "empty" /\ jobs = 1
     \/ tag = "blocked" /\ jobs = 0
  /\ strong = Cardinality(Senders) + jobs
  /\ queue = NoMsgs
  /\ cache = NoMsgs
  /\ deficit = [c \in Category |-> 0]
  /\ mode = "ready"
  /\ initialized = FALSE
  /\ terminated = FALSE
  /\ destroyed = FALSE
  /\ spc = [s \in Senders |-> "idle"]
  /\ sent = [s \in Senders |-> 0]
  /\ owns = [s \in Senders |-> TRUE]
  /\ wpc = [w \in Workers |-> "idle"]
  /\ consumed = [w \in Workers |-> 0]
  /\ prev = [w \in Workers |-> 0]
  /\ handled = {}
  /\ bounced = {}
  /\ dropped = {}

-----------------------------------------------------------------------------
(* Senders. *)

\* sync_request_bouncer and the deleter of a mailbox element: what happens to
\* the set ms of messages that nobody will read.
Discard(ms) == /\ bounced' = bounced \cup {m \in ms : m.request}
               /\ dropped' = dropped \cup {m \in ms : ~m.request}

\* Mutant: every push wakes the actor, blocked or not.
EnqueueAlwaysWakes(s, p) ==
  LET m == [src |-> s, seq |-> sent[s] + 1, cat |-> p.cat, kind |-> p.kind,
            request |-> p.request]
  IN /\ spc[s] = "idle" /\ owns[s] /\ sent[s] < MaxSends
     /\ sent' = [sent EXCEPT ![s] = @ + 1]
     /\ PushFront(m)
     /\ spc' = [spc EXCEPT ![s] = "wake"]
     /\ UNCHANGED <<actorVars, refVars, jobs, owns, workerVars, outVars>>

\* enqueue up to the end of push_back.  A sender that unblocked the reader goes
\* on to wake it up; a closed inbox rejects the message and bounces requests.
Enqueue(s, p) ==
  LET m == [src |-> s, seq |-> sent[s] + 1, cat |-> p.cat, kind |-> p.kind,
            request |-> p.request]
  IN /\ spc[s] = "idle"
     /\ owns[s]
     /\ sent[s] < MaxSends
     /\ sent' = [sent EXCEPT ![s] = @ + 1]
     /\ \/ /\ PushFront(m)
           /\ spc' = [spc EXCEPT ![s] = IF tag = "blocked" THEN "wake" ELSE @]
           /\ UNCHANGED <<bounced, dropped>>
        \/ /\ tag = "closed"
           /\ Discard({m})
           /\ UNCHANGED <<tag, stack, spc>>
     /\ UNCHANGED <<queue, cache, deficit, mode, initialized, terminated,
                    destroyed, strong, jobs, owns, wpc, consumed, prev,
                    handled>>

\* Mutant: the scheduler's entry gets no reference.
WakeNoRef(s) ==
  /\ spc[s] = "wake"
  /\ spc' = [spc EXCEPT ![s] = "idle"]
  /\ jobs' = jobs + 1
  /\ UNCHANGED <<tag, stack, actorVars, refVars, sent, owns, workerVars, outVars>>

\* enqueue, case unblocked_reader: take a reference for the scheduler and
\* schedule the actor (eu->exec_later or scheduler().enqueue).
Wake(s) ==
  /\ spc[s] = "wake"
  /\ spc' = [spc EXCEPT ![s] = "idle"]
  /\ strong' = strong + 1
  /\ jobs' = jobs + 1
  /\ UNCHANGED <<tag, stack, actorVars, destroyed, sent, owns, workerVars,
                 outVars>>

\* intrusive_ptr_release: the last strong reference destroys the actor, and
\* on_destroy runs cleanup for an actor that did not terminate before.
ReleaseRef ==
  /\ strong' = strong - 1
  /\ IF strong = 1
     THEN /\ destroyed' = TRUE
          /\ terminated' = TRUE
          /\ IF terminated
             THEN UNCHANGED <<tag, stack, queue, cache, deficit, bounced,
                              dropped>>
             ELSE /\ tag' = "closed"
                  /\ stack' = NoMsgs
                  /\ queue' = NoMsgs
                  /\ cache' = NoMsgs
                  /\ deficit' = [c \in Category |-> 0]
                  /\ Discard(Unread)
     ELSE UNCHANGED <<tag, stack, queue, cache, deficit, bounced, dropped,
                      destroyed, terminated>>
  /\ UNCHANGED <<mode, initialized>>

\* A sender that is not inside enqueue gives up its handle.
DropHandle(s) ==
  /\ spc[s] = "idle"
  /\ owns[s]
  /\ owns' = [owns EXCEPT ![s] = FALSE]
  /\ ReleaseRef
  /\ UNCHANGED <<jobs, spc, sent, workerVars, handled>>

-----------------------------------------------------------------------------
(* Workers: worker::run and scheduled_actor::resume. *)

Goto(w, pc) == wpc' = [wpc EXCEPT ![w] = pc]

\* policy_.dequeue returns the actor.
Dequeue(w) ==
  /\ wpc[w] = "idle"
  /\ jobs > 0
  /\ jobs' = jobs - 1
  /\ Goto(w, "activate")
  /\ UNCHANGED <<tag, stack, actorVars, refVars, senderVars, consumed, prev,
                 outVars>>

\* activate(ctx): refuses an actor that is no longer alive, initializes a new
\* one, and gives up on one that has no behavior or threw while initializing.
Activate(w) ==
  /\ wpc[w] = "activate"
  /\ consumed' = [consumed EXCEPT ![w] = 0]
  /\ \/ /\ initialized
        /\ Goto(w, IF terminated THEN "release" ELSE "fetch")
        /\ UNCHANGED <<initialized, mode>>
     \/ /\ ~initialized
        /\ initialized' = TRUE
        /\ mode' \in Modes
        /\ \E pc \in {"fetch", "initclose"} : Goto(w, pc)
  /\ UNCHANGED <<tag, stack, queue, cache, deficit, terminated, refVars, jobs,
                 senderVars, prev, outVars>>

\* What a new round adds to the deficit of queue c, holding the messages q.
Granted(c, q) ==
  IF q = <<>> THEN deficit[c]
  ELSE deficit[c] + (IF c = "urgent" THEN 3 * Quantum ELSE Quantum)

\* lifo_append puts each element of a list that starts with the newest one in
\* front of those that it appended before.
OldestFirst(q) == [i \in 1..Len(q) |-> q[(Len(q) - i) + 1]]

\* The head of the loop: fetch_more moves the inbox to the queues, oldest
\* first, and the round of the urgent queue begins.
Fetch(w) ==
  /\ wpc[w] = "fetch"
  /\ consumed[w] < MaxThroughput
  /\ TakeHead
  /\ queue' = [c \in Category |-> queue[c] \o OldestFirst(stack[c])]
  /\ prev' = [prev EXCEPT ![w] = consumed[w]]
  /\ deficit' = [deficit EXCEPT !["urgent"] =
                   Granted("urgent", queue'["urgent"])]
  /\ Goto(w, "urgent")
  /\ UNCHANGED <<cache, mode, initialized, terminated, refVars, jobs,
                 senderVars, consumed, outVars>>

\* The loop ends when the actor used up its share.
Exhausted(w) ==
  /\ wpc[w] = "fetch"
  /\ consumed[w] >= MaxThroughput
  /\ Goto(w, "late")
  /\ UNCHANGED <<tag, stack, actorVars, refVars, jobs, senderVars, consumed,
                 prev, outVars>>

\* The round of the normal queue begins.
BeginNormal(w) ==
  /\ wpc[w] = "begin"
  /\ deficit' = [deficit EXCEPT !["normal"] =
                   Granted("normal", queue["normal"])]
  /\ Goto(w, "normal")
  /\ UNCHANGED <<tag, stack, queue, cache, mode, initialized, terminated,
                 refVars, jobs, senderVars, consumed, prev, outVars>>

\* Where resume goes after the round of queue c.
AfterRound(c) == IF c = "urgent" THEN "begin" ELSE "check"

\* next() returns no element: the list is empty or the deficit is used up.
EndRound(w, c) ==
  /\ wpc[w] = c
  /\ queue[c] = <<>> \/ deficit[c] = 0
  /\ Goto(w, AfterRound(c))
  /\ UNCHANGED <<tag, stack, actorVars, refVars, jobs, senderVars, consumed,
                 prev, outVars>>

\* What reactivate(m) may return in the current state of the behavior.
Skips(m)    == \/ mode = "await" /\ m.kind # "resp"
               \/ mode = "skip" /\ m.kind = "plain"
Drops(m)    == mode # "await" /\ m.kind = "resp"
Consumes(m) == ~Skips(m) /\ ~Drops(m)

\* next() on queue c with a deficit of at least one.
HasNext(w, c) == /\ wpc[w] = c
                 /\ queue[c] # <<>>
                 /\ deficit[c] > 0

\* The deficit after next() left the messages q in the list.
Charged(c, q) == IF q = <<>> THEN 0 ELSE deficit[c] - 1

\* Mutant: the flushed messages stay in the cache as well.
FlushKeepsCache(c) ==
  /\ queue' = [queue EXCEPT ![c] = cache[c] \o Tail(@)]
  /\ deficit' = [deficit EXCEPT ![c] = Charged(c, Tail(queue[c]))]
  /\ UNCHANGED cache

\* Mutant: append instead of prepend when flushing the cache.
FlushAppends(c) ==
  /\ queue' = [queue EXCEPT ![c] = Tail(@) \o cache[c]]
  /\ cache' = [cache EXCEPT ![c] = <<>>]
  /\ deficit' = [deficit EXCEPT ![c] = Charged(c, Tail(queue[c]))]

\* new_round flushes the cache of this queue after a message that was not
\* skipped and clears the deficit of a list that is empty then.
FlushAfter(c) ==
  LET rest == Tail(queue[c]) IN
  /\ queue' = [queue EXCEPT ![c] = cache[c] \o rest]
  /\ cache' = [cache EXCEPT ![c] = <<>>]
  /\ deficit' = [deficit EXCEPT ![c] = Charged(c, rest)]

\* activation_result::success; the handler may have changed the behavior.
Consume(w, c) ==
  /\ HasNext(w, c)
  /\ LET m == Head(queue[c]) IN
     /\ Consumes(m)
     /\ handled' = handled \cup {m}
     /\ mode' \in Modes
  /\ consumed' = [consumed EXCEPT ![w] = @ + 1]
  /\ Goto(w, IF consumed[w] + 1 < MaxThroughput THEN c ELSE AfterRound(c))
  /\ FlushAfter(c)
  /\ UNCHANGED <<tag, stack, initialized, terminated, refVars, jobs,
                 senderVars, prev, bounced, dropped>>

\* activation_result::dropped: a response that nobody waits for.
Drop(w, c) ==
  /\ HasNext(w, c)
  /\ Drops(Head(queue[c]))
  /\ dropped' = dropped \cup {Head(queue[c])}
  /\ FlushAfter(c)
  /\ UNCHANGED <<tag, stack, mode, initialized, terminated, refVars, jobs,
                 senderVars, workerVars, handled, bounced>>

\* activation_result::skipped: the message moves to the cache.
Skip(w, c) ==
  /\ HasNext(w, c)
  /\ Skips(Head(queue[c]))
  /\ queue' = [queue EXCEPT ![c] = Tail(@)]
  /\ cache' = [cache EXCEPT ![c] = Append(@, Head(queue[c]))]
  /\ deficit' = [deficit EXCEPT ![c] = IF Tail(queue[c]) = <<>> THEN 0 ELSE @]
  /\ UNCHANGED <<tag, stack, mode, initialized, terminated, refVars, jobs,
                 senderVars, workerVars, outVars>>

\* activation_result::terminated: the handler called quit or threw, and
\* finalize() starts the cleanup from within the round.
Quit(w, c) ==
  /\ HasNext(w, c)
  /\ Consumes(Head(queue[c]))
  /\ handled' = handled \cup {Head(queue[c])}
  /\ queue' = [queue EXCEPT ![c] = Tail(@)]
  /\ deficit' = [deficit EXCEPT ![c] = Charged(c, Tail(queue[c]))]
  /\ Goto(w, "close")
  /\ UNCHANGED <<tag, stack, cache, mode, initialized, terminated, refVars,
                 jobs, senderVars, consumed, prev, bounced, dropped>>

\* Mutant: cleanup does not flush the caches before it drains the queues.
CloseForgetsCache(w) ==
  /\ wpc[w] \in {"close", "initclose"}
  /\ CloseInbox
  /\ queue' = NoMsgs
  /\ deficit' = [c \in Category |-> 0]
  /\ Discard(MsgsOf(stack) \cup MsgsOf(queue))
  /\ Goto(w, IF wpc[w] = "close" THEN "term" ELSE "initterm")
  /\ UNCHANGED <<cache, mode, initialized, terminated, refVars, jobs,
                 senderVars, consumed, prev, handled>>

\* scheduled_actor::cleanup up to the call of its base: close the inbox, flush
\* the caches and run rounds with the bouncer until nothing is left.
Close(w) ==
  /\ wpc[w] \in {"close", "initclose"}
  /\ CloseInbox
  /\ queue' = NoMsgs
  /\ cache' = NoMsgs
  /\ deficit' = [c \in Category |-> 0]
  /\ Discard(Unread)
  /\ Goto(w, IF wpc[w] = "close" THEN "term" ELSE "initterm")
  /\ UNCHANGED <<mode, initialized, terminated, refVars, jobs, senderVars,
                 consumed, prev, handled>>

\* monitorable_actor::cleanup sets the flags.  A round that was cut short goes
\* on to the (now empty) remaining queues; activate returns false.
Terminate(w) ==
  /\ wpc[w] \in {"term", "initterm"}
  /\ terminated' = TRUE
  /\ Goto(w, IF wpc[w] = "term" THEN "check" ELSE "release")
  /\ UNCHANGED <<tag, stack, queue, cache, deficit, mode, initialized, refVars,
                 jobs, senderVars, consumed, prev, outVars>>

\* The end of a round: an actor that consumed nothing tries to block.
Check(w) ==
  /\ wpc[w] = "check"
  /\ Goto(w, IF consumed[w] > prev[w] THEN "finalize" ELSE "block")
  /\ UNCHANGED <<tag, stack, actorVars, refVars, jobs, senderVars, consumed,
                 prev, outVars>>

\* Mutant: try_block looks at the inbox only.
CanBlockIgnoresQueues == tag = "empty"

\* fifo_inbox::try_block looks at the queues first, which do not count what is
\* in the caches.
CanBlock == tag = "empty" /\ \A c \in Category : queue[c] = <<>>

\* try_block at the end of a round; failing to block continues the loop.
Block(w) ==
  /\ wpc[w] = "block"
  /\ IF CanBlock
     THEN TryBlock /\ Goto(w, "release")
     ELSE UNCHANGED <<tag, stack>> /\ Goto(w, "finalize")
  /\ UNCHANGED <<actorVars, refVars, jobs, senderVars, consumed, prev, outVars>>

\* finalize() in the loop: return done once the actor has been cleaned up.
Finalize(w) ==
  /\ wpc[w] = "finalize"
  /\ Goto(w, IF terminated THEN "release" ELSE "fetch")
  /\ UNCHANGED <<tag, stack, actorVars, refVars, jobs, senderVars, consumed,
                 prev, outVars>>

\* Mutant: resume returns awaiting_message whether or not it could block.
BlockLateForgets(w) ==
  /\ wpc[w] = "late"
  /\ IF CanBlock THEN TryBlock ELSE UNCHANGED <<tag, stack>>
  /\ Goto(w, "release")
  /\ UNCHANGED <<actorVars, refVars, jobs, senderVars, consumed, prev, outVars>>

\* try_block after the loop; failing to block returns resume_later and the
\* worker puts the actor back with the reference it holds.
BlockLate(w) ==
  /\ wpc[w] = "late"
  /\ IF CanBlock
     THEN TryBlock /\ Goto(w, "release") /\ jobs' = jobs
     ELSE UNCHANGED <<tag, stack>> /\ Goto(w, "idle") /\ jobs' = jobs + 1
  /\ UNCHANGED <<actorVars, refVars, senderVars, consumed, prev, outVars>>

\* worker::run, cases done and awaiting_message.
Release(w) ==
  /\ wpc[w] = "release"
  /\ Goto(w, "idle")
  /\ ReleaseRef
  /\ UNCHANGED <<jobs, senderVars, consumed, prev, handled>>

-----------------------------------------------------------------------------
SenderStep(s) == \/ \E p \in Payloads : Enqueue(s, p)
                 \/ Wake(s)
                 \/ DropHandle(s)

RoundStep(w, c) == EndRound(w, c) \/ Consume(w, c) \/ Drop(w, c)
                   \/ Skip(w, c) \/ Quit(w, c)

WorkerStep(w) == \/ Dequeue(w) \/ Activate(w) \/ Fetch(w) \/ Exhausted(w)
                 \/ BeginNormal(w) \/ (\E c \in Category : RoundStep(w, c))
                 \/ Close(w) \/ Terminate(w) \/ Check(w) \/ Block(w)
                 \/ Finalize(w) \/ BlockLate(w) \/ Release(w)

Next == \/ \E s \in Senders : SenderStep(s)
        \/ \E w \in Workers : WorkerStep(w)

Spec == Init /\ [][Next]_vars

\* Threads that are inside an operation are eventually scheduled by the OS;
\* nothing makes a sender send.
Fairness == /\ \A s \in Senders : WF_vars(Wake(s))
            /\ \A w \in Workers : WF_vars(WorkerStep(w))

FairSpec == Spec /\ Fairness

-----------------------------------------------------------------------------
(* Properties. *)

\* Every variable has its type, and the inbox holds a list iff its tag says so.
TypeOK ==
  /\ tag \in Tags
  /\ stack \in [Category -> Seq(Msg)]
  /\ tag = "list" <=> stack # NoMsgs
  /\ queue \in [Category -> Seq(Msg)]
  /\ cache \in [Category -> Seq(Msg)]
  /\ deficit \in [Category -> Nat]
  /\ mode \in {"ready", "await", "skip"}
  /\ initialized \in BOOLEAN
  /\ terminated \in BOOLEAN
  /\ destroyed \in BOOLEAN
  /\ strong \in Nat
  /\ jobs \in Nat
  /\ spc \in [Senders -> {"idle", "wake"}]
  /\ sent \in [Senders -> 0..MaxSends]
  /\ owns \in [Senders -> BOOLEAN]
  /\ wpc \in [Workers -> WorkerPc]
  /\ consumed \in [Workers -> Nat]
  /\ prev \in [Workers -> Nat]
  /\ handled \subseteq Msg
  /\ bounced \subseteq Msg
  /\ dropped \subseteq Msg

\* Who is bound to run the actor next: a sender that unblocked the reader, an
\* entry in the scheduler, or a worker inside resume.
Responsible == \/ \E s \in Senders : spc[s] = "wake"
               \/ jobs > 0
               \/ \E w \in Workers : Running(w)

\* The actor never runs on two workers, is never scheduled twice and never
\* scheduled while it runs: push_front returns unblocked_reader to at most one
\* sender per try_block, and only after resume let go of the actor.
AtMostOneRunner ==
  /\ \A v, w \in Workers : Running(v) /\ Running(w) => v = w
  /\ \A r, s \in Senders : spc[r] = "wake" /\ spc[s] = "wake" => r = s
  /\ jobs <= 1
  /\ jobs = 1 => \A w \in Workers : ~Running(w)
  /\ jobs = 1 => \A s \in Senders : spc[s] # "wake"
  /\ \A s \in Senders, w \in Workers : spc[s] = "wake" => ~Running(w)

\* No wakeup is lost: an actor nobody is going to run has a blocked inbox (so
\* that the next push wakes it), or a closed one.  In particular no message
\* sits in the inbox or in a queue of an actor that nobody will run.
NoLostWakeup ==
  /\ ~Responsible => tag \in {"blocked", "closed"} /\ MsgsOf(queue) = {}
  /\ tag = "blocked" => ~Responsible

\* The life of the mailbox, as the control locations of the workers see it.  It
\* is closed by cleanup or by the destructor, drained from then on and never
\* read again; the flags follow as the next step of the worker that closed it;
\* and nobody schedules, activates or reads an actor with a closed mailbox.
Lifecycle ==
  /\ tag = "closed" => stack = NoMsgs /\ queue = NoMsgs /\ cache = NoMsgs
  /\ terminated => tag = "closed"
  /\ tag = "closed" /\ ~terminated
       => \E w \in Workers : wpc[w] \in {"term", "initterm"}
  /\ \A w \in Workers : wpc[w] \in {"term", "initterm"}
       => tag = "closed" /\ ~terminated
  /\ \A w \in Workers :
       wpc[w] \in {"activate", "fetch", "urgent", "begin", "normal", "late",
                  "close", "initclose"} => tag # "closed"
  /\ jobs > 0 => tag # "closed"
  /\ \A s \in Senders : spc[s] = "wake" => tag # "closed"

\* take_head must not meet a blocked or closed inbox (the assertions in
\* lifo_inbox::take_head): the owner never reads a mailbox after it blocked or
\* closed it.
ReaderOwnsInbox ==
  \A w \in Workers : wpc[w] = "fetch" => tag \in {"empty", "list"}

\* activate is never called on a terminated actor ("activate called on a
\* terminated actor" is an error in the log).
NeverActivateTerminated ==
  \A w \in Workers : wpc[w] = "activate" => ~terminated

\* The strong references are those of the handles, of the scheduler's entry and
\* of the workers that still have to release theirs; the object is destroyed
\* exactly when none is left, so nobody touches a destroyed actor.
RefsAccounted ==
  /\ strong = Cardinality({s \in Senders : owns[s]}) + jobs
              + Cardinality({w \in Workers : wpc[w] # "idle"})
  /\ destroyed <=> strong = 0
  /\ \A s \in Senders : spc[s] = "wake" => owns[s]

\* Every message that was sent is in exactly one place: unread in the mailbox,
\* handled, bounced or dropped.  No message is lost, none is read twice, and no
\* request is both handled and bounced.
ExactlyOnce ==
  /\ \A s \in Senders : \A i \in 1..sent[s] :
       \E m \in Unread \cup handled \cup bounced \cup dropped :
         m.src = s /\ m.seq = i
  /\ handled \cap (bounced \cup dropped \cup Unread) = {}
  /\ (bounced \cup dropped) \cap Unread = {}
  /\ bounced \cap dropped = {}
  /\ MsgsOf(stack) \cap (MsgsOf(queue) \cup MsgsOf(cache)) = {}
  /\ MsgsOf(queue) \cap MsgsOf(cache) = {}

\* The mailbox in the order in which it will be read, for one category.
InOrder(c) == cache[c] \o queue[c] \o OldestFirst(stack[c])

\* Messages of one sender with the same priority stay in the order in which
\* they were sent, through the LIFO inbox, the queue and the cache of skipped
\* messages.
FifoPerSender ==
  \A c \in Category : \A i, j \in 1..Len(InOrder(c)) :
    i < j /\ InOrder(c)[i].src = InOrder(c)[j].src
      => InOrder(c)[i].seq < InOrder(c)[j].seq

\* cleanup leaves nothing behind: a closed mailbox is empty, so every request
\* that reached it was handled or bounced.
ClosedIsDrained ==
  tag = "closed" => Unread = {} /\ \A m \in dropped : ~m.request

\* Closing is final, and the object is destroyed once.
ClosedForever == [][/\ tag = "closed" => tag' = "closed"
                    /\ terminated => terminated' /\ handled' = handled
                    /\ destroyed => destroyed' /\ strong' = strong]_vars

\* Message i of sender s waits in the inbox or in a queue.
Waiting(s, i) == \E m \in MsgsOf(stack) \cup MsgsOf(queue) : m.src = s /\ m.seq = i

\* Every message that a running system accepted is read: it leaves the inbox
\* and the queues because the actor handled, skipped or discarded it.
EventuallyRead ==
  \A s \in Senders : \A i \in 1..MaxSends : Waiting(s, i) ~> ~Waiting(s, i)

\* A skipped message can be handled in a later state: once the behavior accepts
\* it, the message does not stay in the cache for as long as that remains so.
SkippedIsRetried ==
  \A c \in Category :
    (mode = "ready" /\ cache[c] # <<>>) ~> (mode # "ready" \/ cache[c] = <<>>)
=============================================================================
