------------------------------ MODULE Streams ------------------------------
(***************************************************************************)
(* Streams between actors: stream managers with their inbound and outbound *)
(* paths, the broadcasting downstream manager, credit, batches and         *)
(* acknowledgements, the slots through which an actor finds the manager of *)
(* a stream message, and the ways a stream ends: at its last element, when *)
(* an actor quits, and when an actor is killed.                            *)
(*                                                                         *)
(* A path leads from the manager From[p] to the manager To[p].  A manager  *)
(* without inbound path is a source, one without outbound path a sink, any *)
(* other a stage that passes on every element it reads.  One step is one   *)
(* message, or what the loop of scheduled_actor::resume does between two.  *)
(***************************************************************************)
EXTENDS Integers, FiniteSets, Sequences, SequencesExt

CONSTANTS
  Actors, Managers, Paths,
  Self,              \* [Managers -> Actors], the actor that owns the manager
  From, To,          \* [Paths -> Managers]
  N,                 \* bound: the elements a source generates
  MaxCredit,         \* buffer_size_ of the token_based_credit_controller
  BatchSize,         \* batch_size_ of the token_based_credit_controller
  DefaultBatchSize,  \* desired_batch_size of an outbound path (50 in the code)
  Quitters,          \* actors that may call quit
  Mortal,            \* actors that may receive an exit_msg with reason kill
  EarlyEnd           \* whether they may do so before all paths are open

ASSUME SizesAssumption ==
  /\ {N, MaxCredit, BatchSize, DefaultBatchSize} \subseteq Nat \ {0}
  /\ BatchSize <= MaxCredit
  /\ MaxCredit <= 3 * BatchSize  \* a round may read all batches of a path

VARIABLES
  slots,     \* [Actors -> stream_managers_, slots to managers]
  pending,   \* [Actors -> pending_stream_managers_]
  out,       \* [Paths -> outbound_path and its path_state]
  in,        \* [Paths -> inbound_path]
  mgr,       \* [Managers -> the rest of the stream_manager]
  mail,      \* [Actors -> messages the actor is yet to read, oldest first]
  aborters,  \* [Actors -> its stream_aborters, set of <<observer, slot>>]
  life,      \* [Actors -> {"up", "quit", "dead"}]
  failed,    \* [Actors -> whether fail_state_ is an error]
  phase      \* [Actors -> the part of the round resume is in]

vars == <<slots, pending, out, in, mgr, mail, aborters, life, failed, phase>>

State == [slots |-> slots, pending |-> pending, out |-> out, in |-> in,
          mgr |-> mgr, mail |-> mail, aborters |-> aborters, life |-> life,
          failed |-> failed]

\* The step into the state s with the actor a in part ph of its round.
Enter(next, a, ph) ==
  \E s \in {next} :
    /\ slots' = s.slots /\ pending' = s.pending /\ out' = s.out /\ in' = s.in
    /\ mgr' = s.mgr /\ mail' = s.mail /\ aborters' = s.aborters
    /\ life' = s.life /\ failed' = s.failed
    /\ phase' = [phase EXCEPT ![a] = IF s.life[a] = "dead" THEN "idle" ELSE ph]

Ins(m)    == {p \in Paths : To[p] = m}
Outs(m)   == {p \in Paths : From[p] = m}
Source(m) == Ins(m) = {}
Sink(m)   == Outs(m) = {}

InPaths(s, m)  == {p \in Ins(m) : s.in[p].here}
OutPaths(s, m) == {p \in Outs(m) : s.out[p].here}

-----------------------------------------------------------------------------
(* Messages. *)

Open(p) == [class |-> "open", path |-> p]

\* ack_open, ack_batch, drop and forced_drop; from is the slot of the sender.
Up(kind, to, from, who, credit, id, err) ==
  [class |-> "up", kind |-> kind, to |-> to, from |-> from, who |-> who,
   credit |-> credit, id |-> id, err |-> err]

\* batch, close and forced_close.
Down(kind, to, xs, id, err) ==
  [class |-> "down", kind |-> kind, to |-> to, xs |-> xs, id |-> id, err |-> err]

\* Closed mailboxes drop what arrives.
Send(s, a, msgs) ==
  IF s.life[a] = "dead" THEN s ELSE [s EXCEPT !.mail[a] = @ \o msgs]

SendUp(s, p, kind, credit, err) ==
  LET i == s.in[p] IN
  IF i.hdl
    THEN Send(s, Self[From[p]],
              <<Up(kind, i.sslot, i.slot, Self[To[p]], credit, i.last, err)>>)
    ELSE s

SendDown(s, p, kind, err) ==
  Send(s, Self[To[p]], <<Down(kind, s.out[p].rslot, <<>>, 0, err)>>)

\* Each round handles open_stream_msg first, then all upstream messages, then
\* the downstream messages by slot.  Messages of one round arrived in any order;
\* a message never waits for one of another round that arrived after it.
Rank(class) == CASE class = "open" -> 0 [] class = "up" -> 1 [] OTHER -> 2

Overtakes(x, y) ==
  \/ Rank(x.class) < Rank(y.class)
  \/ x.class = "down" /\ y.class = "down" /\ x.to # y.to

Readable(a, class) ==
  {i \in DOMAIN mail[a] :
     /\ mail[a][i].class = class
     /\ \A j \in 1 .. i - 1 : Overtakes(mail[a][i], mail[a][j])}

-----------------------------------------------------------------------------
(* Slots. *)

NextSlot(s, a) == Max({0} \cup DOMAIN s.slots[a] \cup DOMAIN s.pending[a]) + 1

With(f, slot, m) == [x \in DOMAIN f \cup {slot} |-> IF x = slot THEN m ELSE f[x]]
Without(f, slot) == Restrict(f, DOMAIN f \ {slot})
WithoutManager(f, m) == Restrict(f, {x \in DOMAIN f : f[x] # m})

EraseSlot(s, a, slot) == [s EXCEPT !.slots[a] = Without(@, slot)]

EraseManager(s, m) ==
  [s EXCEPT !.slots[Self[m]] = WithoutManager(@, m),
            !.pending[Self[m]] = WithoutManager(@, m)]

-----------------------------------------------------------------------------
(* The downstream manager: a central buffer and a cache per path. *)

Buffered(s, m) ==
  Len(s.mgr[m].buf) + Max({0} \cup {Len(s.out[p].cache) : p \in OutPaths(s, m)})

Capacity(s, m) ==
  LET desired == 2 * Max({1} \cup {s.out[p].size : p \in OutPaths(s, m)})
  IN  Max({0, desired - Buffered(s, m)})

PathClean(s, p) == s.out[p].batch = s.out[p].ack
Clean(s, m) == Buffered(s, m) = 0 /\ \A p \in OutPaths(s, m) : PathClean(s, p)

Stalled(s, m) ==
  Capacity(s, m) = 0 /\ \A p \in OutPaths(s, m) : s.out[p].credit = 0

\* outbound_path::emit_batches
EmitBatches(s, p, force) ==
  LET o       == s.out[p]
      n       == Min({o.credit, Len(o.cache)})
      count   == IF o.rslot = 0 THEN 0
                 ELSE n \div o.size + IF force /\ n % o.size # 0 THEN 1 ELSE 0
      shipped == Min({n, count * o.size})
      Batch(i) == Down("batch", o.rslot,
                       SubSeq(o.cache, (i - 1) * o.size + 1, Min({i * o.size, n})),
                       o.batch + i - 1, FALSE)
      sent    == Send(s, Self[To[p]], [i \in 1 .. count |-> Batch(i)])
  IN  [sent EXCEPT !.out[p].credit = @ - shipped,
                   !.out[p].batch = @ + count,
                   !.out[p].cache = SubSeq(@, shipped + 1, Len(@))]

\* broadcast_downstream_manager::emit_batches_impl
EmitAll(s, m, force) ==
  LET receivers == {p \in OutPaths(s, m) : ~s.out[p].closing}
      room(p)   == Max({0, s.out[p].credit - Len(s.out[p].cache)})
      buf       == s.mgr[m].buf
      chunk     == IF receivers = {} THEN 0
                   ELSE Min({Len(buf)} \cup {room(p) : p \in receivers})
      filled    == FoldSet(LAMBDA p, t : [t EXCEPT !.out[p].cache =
                                            @ \o SubSeq(buf, 1, chunk)],
                           [s EXCEPT !.mgr[m].buf = SubSeq(@, chunk + 1, Len(@))],
                           receivers)
  IN  FoldSet(LAMBDA p, t : EmitBatches(t, p, force \/ t.out[p].closing),
              filled, OutPaths(s, m))

\* generate_messages of a source whose driver fills the buffer.
Generate(s, m) ==
  LET g == s.mgr[m]
      k == Min({Capacity(s, m), N - g.gen})
  IN  IF ~Source(m) \/ g.at_end \/ k = 0 THEN s
      ELSE [s EXCEPT !.mgr[m].buf = @ \o [i \in 1 .. k |-> g.gen + i],
                     !.mgr[m].gen = @ + k,
                     !.mgr[m].at_end = g.gen + k = N]

RECURSIVE Push(_, _)
Push(s, m) ==
  LET emitted == EmitAll(s, m, FALSE)
      next    == Generate(emitted, m)
  IN  IF next = emitted THEN emitted ELSE Push(next, m)

PushActive(s, a) == FoldSet(LAMBDA m, t : Push(t, m), s, Range(s.slots[a]))

RemovePath(s, p) == [s EXCEPT !.out[p].here = FALSE, !.out[p].cache = <<>>]

-----------------------------------------------------------------------------
(* The stream manager. *)

\* Mutant: done that does not look into the buffers.
DoneUnclean(s, m) ==
  /\ InPaths(s, m) = {}
  /\ Source(m) => s.mgr[m].at_end
  /\ ~Sink(m) => s.mgr[m].handshakes = 0

Done(s, m) ==
  /\ InPaths(s, m) = {}
  /\ Source(m) => s.mgr[m].at_end
  /\ ~Sink(m) => s.mgr[m].handshakes = 0 /\ Clean(s, m)

InPathsIdle(s, m) ==
  \A p \in InPaths(s, m) : s.in[p].acked = s.in[p].last /\ s.in[p].credit > 0

\* Mutant: a manager that is idle although it has data for paths with credit.
IdleStalled(s, m) == Sink(m) \/ Capacity(s, m) = 0 \/ Clean(s, m)

Idle(s, m) ==
  CASE Sink(m)   -> InPathsIdle(s, m)
    [] Source(m) -> \/ Stalled(s, m)
                    \/ /\ Buffered(s, m) = 0
                       /\ \A p \in OutPaths(s, m) : s.out[p].credit > 0
    [] OTHER     -> Stalled(s, m) \/ (Clean(s, m) /\ InPathsIdle(s, m))

Congested(s, m) == ~Sink(m) /\ Capacity(s, m) = 0

\* downstream_manager::close for one path.
ClosePath(s, p) ==
  IF s.out[p].closing THEN s
  ELSE IF s.out[p].cache = <<>> /\ PathClean(s, p)
    THEN RemovePath(SendDown(s, p, "close", FALSE), p)
    ELSE [s EXCEPT !.out[p].closing = TRUE]

AbortPath(s, p) == RemovePath(SendDown(s, p, "forced_close", TRUE), p)

\* erase_inbound_paths_later for one path.
EraseInLater(s, p, err) ==
  [SendUp(s, p, IF err THEN "forced_drop" ELSE "drop", 0, err)
     EXCEPT !.in[p].doomed = TRUE]

Stop(s, m, err) ==
  IF s.mgr[m].mode = "stopped" THEN s
  ELSE LET marked == [s EXCEPT !.mgr[m].mode = "stopped",
                               !.mgr[m].result = IF err THEN "failed" ELSE "ok"]
           closed == FoldSet(LAMBDA p, t : IF err THEN AbortPath(t, p)
                                                  ELSE ClosePath(t, p),
                             marked, OutPaths(s, m))
       IN  FoldSet(LAMBDA p, t : EraseInLater(t, p, err), closed, InPaths(s, m))

StopIfDone(s, m) ==
  IF Done(s, m) THEN EraseManager(Stop(s, m, FALSE), m) ELSE s

Shutdown(s, m) ==
  IF s.mgr[m].mode # "running" THEN s
  ELSE FoldSet(LAMBDA p, t : SendUp(t, p, "drop", 0, FALSE),
               [s EXCEPT !.mgr[m].mode = "shutting_down",
                         !.mgr[m].at_end = @ \/ Source(m)],
               InPaths(s, m))

-----------------------------------------------------------------------------
(* Inbound paths. *)

Available(s, p) == Max({0, MaxCredit - s.in[p].credit})

\* Mutant: an acknowledgement whose credit the path does not add to its own count.
EmitAckUncounted(s, p, credit) ==
  IF s.in[p].acked = s.in[p].last /\ credit = 0 THEN s
  ELSE [SendUp(s, p, "ack_batch", credit, FALSE)
          EXCEPT !.in[p].acked = s.in[p].last]

EmitAckBatch(s, p, credit) ==
  IF s.in[p].acked = s.in[p].last /\ credit = 0 THEN s
  ELSE [SendUp(s, p, "ack_batch", credit, FALSE)
          EXCEPT !.in[p].acked = s.in[p].last, !.in[p].credit = @ + credit]

HandleBatch(s, p, msg) ==
  LET read == [s EXCEPT !.in[p].last = msg.id,
                        !.in[p].credit = @ - Len(msg.xs),
                        !.mgr[To[p]].buf = @ \o msg.xs]
  IN  IF Available(read, p) >= BatchSize
        THEN EmitAckBatch(read, p, Available(read, p)) ELSE read

\* close and forced_close: the path loses its handle and is destroyed.
HandleClose(s, p, msg) ==
  LET deaf    == [s EXCEPT !.in[p].hdl = FALSE]
      stopped == IF msg.kind = "forced_close" THEN Stop(deaf, To[p], msg.err)
                                              ELSE deaf
  IN  EraseSlot([stopped EXCEPT !.in[p].here = FALSE], Self[To[p]], s.in[p].slot)

-----------------------------------------------------------------------------
(* Opening a path. *)

NewOut(slot) ==
  [here |-> TRUE, slot |-> slot, rslot |-> 0, credit |-> 0,
   size |-> DefaultBatchSize, batch |-> 1, ack |-> 1, closing |-> FALSE,
   cache |-> <<>>]

NewIn(slot, sslot) ==
  [here |-> TRUE, slot |-> slot, sslot |-> sslot, credit |-> MaxCredit,
   last |-> 0, acked |-> 0, hdl |-> TRUE, doomed |-> FALSE]

AddOutPath(s, p) ==
  LET a    == Self[From[p]]
      slot == NextSlot(s, a)
      here == [s EXCEPT !.pending[a] = With(@, slot, From[p]),
                        !.out[p] = NewOut(slot),
                        !.mgr[From[p]].handshakes = @ + 1]
  IN  Generate(Send(here, Self[To[p]], <<Open(p)>>), From[p])

\* The stream_aborter of a path sits at its source; actor_exited runs at once if
\* the source is no more.
AddAborter(s, p, slot) ==
  LET src == Self[From[p]] IN
  IF s.life[src] = "dead"
    THEN Send(s, Self[To[p]], <<Down("forced_close", slot, <<>>, 0, s.failed[src])>>)
    ELSE [s EXCEPT !.aborters[src] = @ \cup {<<Self[To[p]], slot>>}]

AddInPath(s, p) ==
  LET a    == Self[To[p]]
      slot == NextSlot(s, a)
      here == [s EXCEPT !.slots[a] = With(@, slot, To[p]),
                        !.in[p] = NewIn(slot, s.out[p].slot)]
  IN  SendUp(AddAborter(here, p, slot), p, "ack_open", MaxCredit, FALSE)

Run(s, m) == [s EXCEPT !.mgr[m].mode = "running"]
AddOutPaths(s, m) == FoldSet(LAMBDA p, t : AddOutPath(t, p), s, Outs(m))

-----------------------------------------------------------------------------
(* The actors. *)

EraseIn(s, ps) == FoldSet(LAMBDA p, t : [t EXCEPT !.in[p].here = FALSE], s, ps)

\* cleanup of a terminating actor, and the actor_exited of its aborters.
Die(s, a) ==
  LET dead == EraseIn([s EXCEPT !.life[a] = "dead", !.mail[a] = <<>>,
                                !.aborters[a] = {}],
                      {p \in Paths : Self[To[p]] = a})
  IN  FoldSet(LAMBDA x, t : Send(t, x[1],
                <<Down("forced_close", x[2], <<>>, 0, s.failed[a])>>),
              dead, s.aborters[a])

\* An actor without behavior drops the managers that are done, and terminates
\* once it has none left.
Finalize(s, a) ==
  LET busy == [s EXCEPT !.slots[a] =
                 Restrict(@, {x \in DOMAIN @ : ~Done(s, @[x])})]
  IN  IF s.life[a] # "quit" THEN s
      ELSE IF DOMAIN busy.slots[a] \cup DOMAIN busy.pending[a] # {} THEN busy
      ELSE Die(busy, a)

ManagersOf(s, a) == Range(s.slots[a]) \cup Range(s.pending[a])

QuitWith(s, a, err) ==
  IF s.life[a] # "up" THEN s
  ELSE FoldSet(LAMBDA m, t : StopIfDone(Shutdown(t, m), m),
               [s EXCEPT !.life[a] = "quit", !.failed[a] = err],
               ManagersOf(s, a))

NoIn  == [NewIn(0, 0) EXCEPT !.here = FALSE, !.credit = 0]
NoOut == [NewOut(0) EXCEPT !.here = FALSE]

Init ==
  /\ slots = [a \in Actors |-> <<>>]
  /\ pending = [a \in Actors |-> <<>>]
  /\ out = [p \in Paths |-> NoOut]
  /\ in = [p \in Paths |-> NoIn]
  /\ mgr = [m \in Managers |-> [mode |-> "new", handshakes |-> 0, buf |-> <<>>,
                                gen |-> 0, at_end |-> FALSE, result |-> "none"]]
  /\ mail = [a \in Actors |-> <<>>]
  /\ aborters = [a \in Actors |-> {}]
  /\ life = [a \in Actors |-> "up"]
  /\ failed = [a \in Actors |-> FALSE]
  /\ phase = [a \in Actors |-> "idle"]

CanAttach(m) ==
  /\ Source(m) /\ mgr[m].mode = "new" /\ life[Self[m]] = "up"
  /\ phase[Self[m]] = "idle"

\* attach_stream_source
Attach(m) ==
  /\ CanAttach(m)
  /\ Enter(AddOutPaths(Run(State, m), m), Self[m], "async")

PathTo(a, slot) ==
  {p \in Paths : Self[To[p]] = a /\ in[p].here /\ in[p].slot = slot}

CanHandleOpen(a) == phase[a] \in {"idle", "async"} /\ Readable(a, "open") # {}

\* An actor with a behavior opens a stage or a sink.  A downstream message that
\* arrived before the handshake and has no path was dropped by then.
HandleOpen(a) ==
  /\ CanHandleOpen(a)
  /\ \E i \in Readable(a, "open") :
       LET p     == mail[a][i].path
           Known(x) == x.class = "down" => PathTo(a, x.to) # {}
           rest  == SelectSeq(SubSeq(mail[a], 1, i - 1), Known)
                      \o SubSeq(mail[a], i + 1, Len(mail[a]))
           s     == [State EXCEPT !.mail[a] = rest]
       IN  Enter(IF life[a] = "up"
                   THEN AddOutPaths(AddInPath(Run(s, To[p]), p), To[p])
                   ELSE Send(s, Self[From[p]],
                             <<Up("forced_drop", out[p].slot, 0, a, 0, 0, TRUE)>>),
                 a, "async")

\* The outbound path with the sender slot of the manager m, as a set.
PathAt(s, m, slot) == {p \in OutPaths(s, m) : s.out[p].slot = slot}

HandleAckOpen(s, a, msg) ==
  IF msg.to \notin DOMAIN s.pending[a] THEN s
  ELSE LET m     == s.pending[a][msg.to]
           moved == [s EXCEPT !.pending[a] = Without(@, msg.to),
                              !.slots[a] = With(@, msg.to, m)]
       IN  FoldSet(LAMBDA p, t : [t EXCEPT !.out[p].rslot = msg.from,
                                           !.out[p].credit = msg.credit,
                                           !.out[p].size = BatchSize,
                                           !.mgr[m].handshakes = @ - 1],
                   moved, {p \in PathAt(s, m, msg.to) : s.out[p].rslot = 0})

HandleAckBatch(s, p, msg) ==
  LET acked == [s EXCEPT !.out[p].credit = @ + msg.credit,
                         !.out[p].ack = msg.id + 1]
  IN  IF acked.out[p].closing /\ acked.out[p].cache = <<>> /\ PathClean(acked, p)
        THEN RemovePath(SendDown(acked, p, "close", FALSE), p) ELSE acked

HandleDrop(s, p, msg) == RemovePath(SendDown(s, p, "close", FALSE), p)

HandleForcedDrop(s, p, msg) == Stop(RemovePath(s, p), From[p], msg.err)

HandlePathMsg(s, p, msg) ==
  CASE msg.kind = "ack_batch"   -> HandleAckBatch(s, p, msg)
    [] msg.kind = "drop"        -> HandleDrop(s, p, msg)
    [] msg.kind = "forced_drop" -> HandleForcedDrop(s, p, msg)

\* handle_upstream_msg for every message but ack_open.
HandleUpstream(s, a, msg) ==
  IF msg.to \in DOMAIN s.slots[a]
    THEN LET m       == s.slots[a][msg.to]
             handled == FoldSet(LAMBDA p, t : HandlePathMsg(t, p, msg), s,
                                PathAt(s, m, msg.to))
         IN  IF Done(handled, m) THEN EraseManager(Stop(handled, m, FALSE), m)
             ELSE IF PathAt(handled, m, msg.to) = {}
               THEN EraseSlot(handled, a, msg.to) ELSE handled
  ELSE IF msg.to \in DOMAIN s.pending[a]
    THEN [Stop(s, s.pending[a][msg.to], TRUE)
            EXCEPT !.pending[a] = Without(@, msg.to)]
  ELSE IF msg.kind = "ack_batch"
    THEN Send(s, msg.who, <<Up("forced_drop", msg.from, msg.to, a, 0, 0, TRUE)>>)
  ELSE s

CanHandleUp(a) ==
  phase[a] \in {"idle", "async", "up"} /\ Readable(a, "up") # {}

HandleUp(a) ==
  /\ CanHandleUp(a)
  /\ \E i \in Readable(a, "up") :
       LET msg == mail[a][i]
           s   == [State EXCEPT !.mail[a] = RemoveAt(@, i)]
       IN  Enter(IF msg.kind = "ack_open" THEN HandleAckOpen(s, a, msg)
                                          ELSE HandleUpstream(s, a, msg),
                 a, "up")

EndUp(a) ==
  /\ phase[a] = "up"
  /\ Enter(PushActive(State, a), a, "pushed")

\* A round checks whether a path is congested before its first message.
HandleDown(a) ==
  /\ phase[a] # "up"
  /\ \E i \in Readable(a, "down") :
       LET msg == mail[a][i]
           s   == [State EXCEPT !.mail[a] = RemoveAt(@, i)]
           at  == PathTo(a, msg.to)
       IN  \/ /\ at = {}
              /\ Enter(s, a, phase[a])
           \/ \E p \in at :
                /\ phase[a] = "down" \/ ~Congested(State, To[p])
                /\ Enter(StopIfDone(IF msg.kind = "batch" THEN HandleBatch(s, p, msg)
                                                          ELSE HandleClose(s, p, msg),
                                    To[p]),
                         a, "down")

CanHandleDown(a) ==
  /\ phase[a] # "up"
  /\ \E i \in Readable(a, "down") :
       \/ phase[a] = "down"
       \/ \A p \in PathTo(a, mail[a][i].to) : ~Congested(State, To[p])

\* The end of a round: paths marked for erasing go, managers push.
CanEndRound(a) == phase[a] \in {"async", "pushed", "down"}

EndRound(a) ==
  /\ CanEndRound(a)
  /\ LET erased == EraseIn(State, {p \in Paths : in[p].doomed /\ Self[To[p]] = a})
     IN  Enter(Finalize(PushActive(erased, a), a), a, "idle")

\* stream_manager::tick when the time to send, or the time to acknowledge, has
\* come.
TickManager(s, m, send, ack) ==
  LET sent  == IF send /\ ~Sink(m) /\ Buffered(s, m) > 0 THEN EmitAll(s, m, TRUE)
                                                         ELSE s
      acked == IF ack
                 THEN FoldSet(LAMBDA p, t : EmitAckBatch(t, p, Available(t, p)),
                              sent, InPaths(sent, m))
                 ELSE sent
  IN  Generate(acked, m)

Advance(a, send, ack) ==
  /\ phase[a] = "idle" /\ DOMAIN slots[a] # {}
  /\ Enter(FoldSet(LAMBDA m, t : TickManager(t, m, send, ack), State,
                   Range(slots[a])), a, "async")

\* Any run of the actor may advance its streams.
Tick(a) == \E send, ack \in BOOLEAN : (send \/ ack) /\ Advance(a, send, ack)

\* The stream timeout, which is only set while some stream is not idle.
Pressing(a) == phase[a] = "idle" /\ \E m \in Range(slots[a]) : ~Idle(State, m)

StreamTimeout(a) ==
  /\ Pressing(a)
  /\ Advance(a, TRUE, TRUE)

AllOpen == \A p \in Paths : in[p].slot # 0 /\ out[p].rslot # 0

Quit(a) ==
  /\ a \in Quitters /\ life[a] = "up" /\ phase[a] = "idle"
  /\ EarlyEnd \/ AllOpen
  /\ Enter(Finalize(QuitWith(State, a, FALSE), a), a, "async")

\* An exit_msg with reason kill.
Kill(a) ==
  /\ a \in Mortal /\ life[a] # "dead" /\ phase[a] = "idle"
  /\ EarlyEnd \/ AllOpen
  /\ LET quit    == QuitWith(State, a, TRUE)
         stopped == FoldSet(LAMBDA m, t : Stop(t, m, TRUE), quit,
                            ManagersOf(quit, a))
     IN  Enter(Finalize([stopped EXCEPT !.slots[a] = <<>>, !.pending[a] = <<>>], a),
               a, "async")

Next ==
  \/ \E m \in Managers : Attach(m)
  \/ \E a \in Actors : \/ HandleOpen(a) \/ HandleUp(a) \/ EndUp(a)
                       \/ HandleDown(a) \/ EndRound(a) \/ Tick(a)
                       \/ Quit(a) \/ Kill(a)

\* What EndUp does to phase, and only EndUp.
LeaveUp(a) == phase[a] = "up" /\ phase' = [phase EXCEPT ![a] = "pushed"]

\* Actors with messages run, and the clock sends the stream timeouts: weak
\* fairness, and strong fairness for the timeout, which stays due while other
\* runs of the actor come first.  The enabling conditions are written out
\* because TLC spends too long on ENABLED of the actions.
Fairness ==
  /\ \A m \in Managers : []<>~CanAttach(m) \/ []<><<Attach(m)>>_vars
  /\ \A a \in Actors :
       /\ []<>~CanHandleOpen(a) \/ []<><<HandleOpen(a)>>_vars
       /\ []<>~CanHandleUp(a) \/ []<><<HandleUp(a)>>_vars
       /\ WF_phase(LeaveUp(a))
       /\ []<>~CanHandleDown(a) \/ []<><<HandleDown(a)>>_vars
       /\ []<>~CanEndRound(a) \/ []<><<EndRound(a)>>_vars
       /\ <>[]~Pressing(a) \/ []<><<StreamTimeout(a)>>_vars

Spec == Init /\ [][Next]_vars /\ Fairness

-----------------------------------------------------------------------------
(* Properties. *)

\* Elements of the batches in flight on the path p, and credit of the
\* acknowledgements in flight.
Elements(msgs) == FoldLeft(LAMBDA n, x : n + Len(x.xs), 0, msgs)
Credit(msgs)   == FoldLeft(LAMBDA n, x : n + x.credit, 0, msgs)

DownMsgs(p) == SelectSeq(mail[Self[To[p]]],
                         LAMBDA x : x.class = "down" /\ x.to = in[p].slot)
UpMsgs(p)   == SelectSeq(mail[Self[From[p]]],
                         LAMBDA x : x.class = "up" /\ x.to = out[p].slot)

\* The ends of a path agree, although each counts for itself.  The credit that
\* the receiver believes the sender to have is what the sender has, plus what
\* batches in flight used up and what acknowledgements in flight will add (both
\* sides assert that their count never turns negative); so no mailbox holds more
\* elements of a path than its credit controller allows.  And what was
\* acknowledged has been read: a path that is clean has no batch in flight
\* (outbound_path::clean decides when a stream may end).
EndsAgree ==
  \A p \in Paths :
    out[p].here /\ in[p].here =>
      /\ ~in[p].doomed =>
           /\ out[p].credit >= 0
           /\ Elements(DownMsgs(p)) <= MaxCredit
           /\ in[p].credit =
                out[p].credit + Elements(DownMsgs(p)) + Credit(UpMsgs(p))
      /\ out[p].ack <= in[p].last + 1
      /\ out[p].batch = out[p].ack => Elements(DownMsgs(p)) = 0

\* A sink reads the elements of its source in order, without gap or repetition,
\* and a stream that ends without an error was read to its last element, unless
\* an actor quit: neither done() nor the close of a path comes too early.
ReadInOrder ==
  \A m \in Managers :
    Sink(m) => /\ \A i \in DOMAIN mgr[m].buf : mgr[m].buf[i] = i
               /\ mgr[m].result = "ok" /\ (\A a \in Actors : life[a] = "up")
                    => Len(mgr[m].buf) = N

\* Every stream ends: each manager stops, or its actor forgets it.
Ended(m) == mgr[m].mode = "stopped" \/ m \notin ManagersOf(State, Self[m])
StreamsEnd == <>[](\A m \in Managers : Ended(m))

\* An actor that quits terminates.
QuitTerminates == \A a \in Actors : <>[](life[a] # "quit")
=============================================================================
