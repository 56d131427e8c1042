---------------------------- MODULE BaspDelivery ----------------------------
(***************************************************************************)
(* The receiving side of a BASP connection: the BASP broker, the workers   *)
(* that deserialize messages in parallel, the lock-free hub the workers    *)
(* return to, the message_queue that restores the order, and the proxies   *)
(* for the actors of the peer with the monitor protocol that removes them. *)
(*                                                                         *)
(* One step is one atomic access to the hub, one critical section or one   *)
(* handler of the broker.  The peer is modelled by what it writes: TCP     *)
(* delivers a prefix of it in order.                                       *)
(***************************************************************************)
EXTENDS Naturals, FiniteSets, Sequences, SequencesExt

CONSTANTS
  Workers,
  Sources,      \* actors of the peer
  Ops,          \* what the peer sends: a subset of AllOps
  MaxMessages,  \* bound: messages of the peer
  None

\* "ordinary" has a receiver; "unknown" has none and is asynchronous; "bounce"
\* has none and is a request; "bad" cannot be deserialized; "link" and "unlink"
\* come from proxies of the peer.
AllOps == {"ordinary", "unknown", "bounce", "bad", "link", "unlink"}
ASSUME OpsAssumption == Ops \subseteq AllOps

VARIABLES
  wire,      \* what the broker is yet to read, a sequence of Msg
  up,        \* whether the socket is open
  alive,     \* the actors of the peer that are alive
  watched,   \* the actors of the peer that its broker monitors for us
  out,       \* the monitor_messages on their way to the peer
  sent,      \* number of messages the peer sent
  bpc,       \* where the broker is
  cur, top,  \* the message it handles, the local variable of pop_impl
  box,       \* its mailbox
  route,     \* whether the routing table has the connection
  proxy,     \* the actors of the peer with a proxy in the registry
  linked,    \* the proxies with a link to a local actor
  head,      \* head_ of the hub
  next,      \* [Workers -> Workers \cup {None}], next_
  running,   \* running_ of the hub
  wpc,       \* [Workers -> where the worker is]
  job,       \* [Workers -> Entry], the task of the worker
  old,       \* [Workers -> local variable of push_returning]
  leaving,   \* threads that are about to decrement running_
  notifying, \* threads that are about to notify
  queue,     \* [id, undelivered, pending], the message_queue
  log,       \* every Entry that got an ID, in the order of the IDs
  delivered  \* IDs in the order in which local actors received them

peerVars   == <<wire, up, alive, watched, out, sent>>
brokerVars == <<bpc, cur, top>>
proxyVars  == <<box, route, proxy, linked>>
hubVars    == <<head, next, running, wpc, job, old, leaving, notifying>>
queueVars  == <<queue, log, delivered>>
vars == <<wire, up, alive, watched, out, sent, bpc, cur, top, box, route, proxy,
          linked, head, next, running, wpc, job, old, leaving, notifying, queue,
          log, delivered>>

Msg(op, s) == [op |-> op, src |-> s]

\* A message with its ID in the queue; `to` is its receiver.
Entry(id, m, to) == [id |-> id, op |-> m.op, src |-> m.src, to |-> to]

NoMsg  == Msg("none", None)
NoTask == Entry(0, NoMsg, "nobody")

-----------------------------------------------------------------------------
(* message_queue *)

\* new_id
NewId == queue.id

\* Mutant: the head takes everything that is pending with it.
ReadyAll(e) == queue.pending

\* What push(e) delivers next to e: the pending entries without a gap after it.
Ready(e) == {x \in queue.pending :
               \A i \in e.id + 1..x.id : \E y \in queue.pending : y.id = i}

\* push, one critical section; n is the next ID afterwards.
Push(e, n) ==
  LET ready == IF e.id = queue.undelivered THEN {e} \cup Ready(e) ELSE {}
      ship  == SetToSortSeq(ready, LAMBDA x, y : x.id < y.id)
      To(a) == SelectSeq(ship, LAMBDA x : x.to = a)
  IN /\ queue' = [id          |-> n,
                  undelivered |-> queue.undelivered + Len(ship),
                  pending     |-> (queue.pending \cup {e}) \ ready]
     /\ delivered' = delivered \o [i \in DOMAIN To("actor") |-> To("actor")[i].id]
     /\ box' = IF bpc = "done" THEN box
               ELSE box \o [i \in DOMAIN To("broker") |->
                              Msg(To("broker")[i].op, To("broker")[i].src)]

-----------------------------------------------------------------------------
(* remote_message_handler *)

\* Whether the handler asks the proxy registry for the sender of the message.
HasSource(e) == e.op # "unknown"

\* get_or_put: a new proxy asks the broker to monitor the actor.
GetOrPut(s) ==
  /\ proxy' = proxy \cup {s}
  /\ box' = IF s \in proxy \/ bpc = "done" THEN box
            ELSE Append(box, Msg("monitor", s))

\* Mutant: no scope guard that drops the ID of a message without receiver.
DropForgotten(e, n) ==
  IF e.op = "ordinary" THEN Push(e, n)
  ELSE queue' = [queue EXCEPT !.id = n] /\ UNCHANGED <<delivered, box>>

\* The end of the handler: ship the message or apply the link, and drop the ID.
Finish(e, n) ==
  Push([e EXCEPT !.to = IF e.op = "ordinary" THEN "actor" ELSE "nobody"], n)

\* add_link and remove_link take effect at once.
Link(e) == linked' = CASE e.op = "link"   -> linked \cup {e.src}
                       [] e.op = "unlink" -> linked \ {e.src}
                       [] OTHER           -> linked

-----------------------------------------------------------------------------
(* The workers and their return to the hub. *)

\* resume by the scheduler, up to the lookup of the sender.
Resume(w) ==
  /\ wpc[w] = "queued"
  /\ wpc' = [wpc EXCEPT ![w] = "ship"]
  /\ IF HasSource(job[w]) THEN GetOrPut(job[w].src) ELSE UNCHANGED <<proxy, box>>
  /\ UNCHANGED <<peerVars, brokerVars, route, linked, head, next, running, job,
                 old, leaving, notifying, queueVars>>

Ship(w) ==
  /\ wpc[w] = "ship"
  /\ wpc' = [wpc EXCEPT ![w] = "load"]
  /\ Link(job[w]) /\ Finish(job[w], queue.id)
  /\ job' = [job EXCEPT ![w] = NoTask]
  /\ UNCHANGED <<peerVars, brokerVars, route, proxy, head, next, running, old,
                 leaving, notifying, log>>

\* push_returning: the load of head_.
Load(w) ==
  /\ wpc[w] = "load"
  /\ wpc' = [wpc EXCEPT ![w] = "cas"]
  /\ old' = [old EXCEPT ![w] = head]
  /\ UNCHANGED <<peerVars, brokerVars, proxyVars, head, next, running, job,
                 leaving, notifying, queueVars>>

\* ... and the compare_exchange, which reloads head_ when it fails.
Return(w) ==
  /\ wpc[w] = "cas"
  /\ next' = [next EXCEPT ![w] = old[w]]
  /\ IF head = old[w]
     THEN /\ head' = w
          /\ wpc' = [wpc EXCEPT ![w] = "hub"]
          /\ leaving' = leaving + 1
          /\ old' = [old EXCEPT ![w] = None]
     ELSE old' = [old EXCEPT ![w] = head] /\ UNCHANGED <<head, wpc, leaving>>
  /\ UNCHANGED <<peerVars, brokerVars, proxyVars, running, job, notifying,
                 queueVars>>

\* A thread that put a worker back decrements running_; the worker may have a
\* new task already.
Decrement ==
  /\ leaving > 0
  /\ leaving' = leaving - 1 /\ running' = running - 1
  /\ notifying' = IF running = 1 THEN notifying + 1 ELSE notifying
  /\ UNCHANGED <<peerVars, brokerVars, proxyVars, head, next, wpc, job, old,
                 queueVars>>

Notify ==
  /\ notifying > 0
  /\ notifying' = notifying - 1
  /\ bpc' = IF bpc = "sleep" THEN "await" ELSE bpc
  /\ UNCHANGED <<peerVars, cur, top, proxyVars, head, next, running, wpc, job,
                 old, leaving, queueVars>>

Worker(w) == Resume(w) \/ Ship(w) \/ Load(w) \/ Return(w)

-----------------------------------------------------------------------------
(* The broker. *)

\* Kill the proxies in S, which ends their links.
Kill(S) == proxy' = proxy \ S /\ linked' = linked \ S

\* connection_cleanup: without a route there is nothing left to purge.
ConnectionCleanup == route' = FALSE /\ Kill(IF route THEN Sources ELSE {})

\* instance::handle of a direct_message looks for a worker ...
ReadMessage ==
  /\ bpc = "idle" /\ wire # <<>> /\ Head(wire).op \in AllOps
  /\ wire' = Tail(wire) /\ cur' = Head(wire)
  /\ bpc' = IF head = None THEN "self" ELSE "pop"
  /\ top' = head
  /\ UNCHANGED <<up, alive, watched, out, sent, proxyVars, hubVars, queueVars>>

\* Mutant: pop_impl stores head_ without comparing it.
PopStores ==
  /\ bpc = "pop"
  /\ head' = next[top] /\ bpc' = "launch"
  /\ UNCHANGED <<peerVars, cur, top, proxyVars, next, running, wpc, job, old,
                 leaving, notifying, queueVars>>

\* ... with pop_impl, which only returning workers can disturb ...
Pop ==
  /\ bpc = "pop"
  /\ IF head = top
     THEN head' = next[top] /\ bpc' = "launch" /\ UNCHANGED top
     ELSE top' = head /\ UNCHANGED <<head, bpc>>
  /\ UNCHANGED <<peerVars, cur, proxyVars, next, running, wpc, job, old, leaving,
                 notifying, queueVars>>

\* Mutant: pop does not count the worker.
LaunchUncounted ==
  LET e == Entry(NewId, cur, "nobody") IN
  /\ bpc = "launch"
  /\ job' = [job EXCEPT ![top] = e] /\ wpc' = [wpc EXCEPT ![top] = "queued"]
  /\ queue' = [queue EXCEPT !.id = @ + 1] /\ log' = Append(log, e)
  /\ bpc' = "idle" /\ cur' = NoMsg /\ top' = None
  /\ UNCHANGED <<peerVars, proxyVars, head, next, running, old, leaving,
                 notifying, delivered>>

\* ... counts the worker and launches it with a new ID, or, without worker, ...
Launch ==
  LET e == Entry(NewId, cur, "nobody") IN
  /\ bpc = "launch"
  /\ running' = running + 1
  /\ job' = [job EXCEPT ![top] = e] /\ wpc' = [wpc EXCEPT ![top] = "queued"]
  /\ queue' = [queue EXCEPT !.id = @ + 1] /\ log' = Append(log, e)
  /\ bpc' = "idle" /\ cur' = NoMsg /\ top' = None
  /\ UNCHANGED <<peerVars, proxyVars, head, next, old, leaving, notifying,
                 delivered>>

\* ... handles the message itself: the lookup of the sender ...
SelfLookup ==
  /\ bpc = "self" /\ bpc' = "finish"
  /\ IF HasSource(cur) THEN GetOrPut(cur.src) ELSE UNCHANGED <<proxy, box>>
  /\ UNCHANGED <<peerVars, cur, top, route, linked, hubVars, queueVars>>

\* ... and the rest.  The broker is the only one that asks for IDs.
SelfFinish ==
  LET e == Entry(NewId, cur, "nobody") IN
  /\ bpc = "finish" /\ bpc' = "idle" /\ cur' = NoMsg
  /\ Link(e) /\ Finish(e, NewId + 1)
  /\ log' = Append(log, e)
  /\ UNCHANGED <<peerVars, top, route, proxy, hubVars>>

\* Mutant: a down_message is applied at once.
ReadAtOnce ==
  /\ bpc = "idle" /\ wire # <<>> /\ Head(wire).op \in {"down", "closed"}
  /\ wire' = Tail(wire)
  /\ box' = Append(box, Head(wire))
  /\ UNCHANGED <<up, alive, watched, out, sent, brokerVars, route, proxy, linked,
                 hubVars, queueVars>>

\* down_message and connection_closed_msg take the way through the queue.
ReadDelayed ==
  LET e == Entry(NewId, Head(wire), "broker") IN
  /\ bpc = "idle" /\ wire # <<>> /\ Head(wire).op \in {"down", "closed"}
  /\ wire' = Tail(wire)
  /\ Push(e, NewId + 1)
  /\ log' = Append(log, e)
  /\ UNCHANGED <<up, alive, watched, out, sent, brokerVars, route, proxy, linked,
                 hubVars>>

\* The messages of the queue: (delete_atom, nid, aid, err), (delete_atom, hdl).
HandleDelete ==
  /\ bpc = "idle" /\ box # <<>> /\ Head(box).op \in {"down", "closed"}
  /\ box' = Tail(box)
  /\ IF Head(box).op = "down" THEN Kill({Head(box).src}) /\ UNCHANGED route
     ELSE ConnectionCleanup
  /\ UNCHANGED <<peerVars, brokerVars, hubVars, queueVars>>

\* Mutant: (monitor_atom, proxy) does nothing if there is no route.
MonitorLostNode ==
  /\ bpc = "idle" /\ box # <<>> /\ Head(box).op = "monitor"
  /\ box' = Tail(box)
  /\ out' = IF route /\ up THEN Append(out, Head(box).src) ELSE out
  /\ UNCHANGED <<wire, up, alive, watched, sent, brokerVars, route, proxy,
                 linked, hubVars, queueVars>>

\* (monitor_atom, proxy): tell the peer, or kill the proxy if there is no route.
HandleMonitor ==
  /\ bpc = "idle" /\ box # <<>> /\ Head(box).op = "monitor"
  /\ box' = Tail(box)
  /\ out' = IF route /\ up THEN Append(out, Head(box).src) ELSE out
  /\ Kill(IF route THEN {} ELSE {Head(box).src})
  /\ UNCHANGED <<wire, up, alive, watched, sent, brokerVars, route, hubVars,
                 queueVars>>

\* A malformed header or a connection timeout: the broker cleans up at once and
\* closes the connection, whatever its workers still do.
Abort ==
  /\ bpc = "idle" /\ up
  /\ ConnectionCleanup
  /\ up' = FALSE /\ wire' = <<>> /\ out' = <<>>
  /\ UNCHANGED <<alive, watched, sent, brokerVars, box, hubVars, queueVars>>

\* on_exit: await_workers, then the proxies are cleared and the hub destroyed.
Exit ==
  /\ bpc = "idle" /\ bpc' = "await"
  /\ UNCHANGED <<peerVars, cur, top, proxyVars, hubVars, queueVars>>

AwaitWorkers ==
  /\ bpc = "await"
  /\ IF running = 0 THEN bpc' = "done" /\ Kill(Sources) /\ box' = <<>>
     ELSE bpc' = "sleep" /\ UNCHANGED <<proxy, linked, box>>
  /\ UNCHANGED <<peerVars, cur, top, route, hubVars, queueVars>>

Broker == \/ ReadMessage \/ Pop \/ Launch \/ SelfLookup \/ SelfFinish
          \/ ReadDelayed \/ HandleDelete \/ HandleMonitor \/ AwaitWorkers

-----------------------------------------------------------------------------
(* The peer and the network. *)

PeerSend ==
  /\ up /\ sent < MaxMessages
  /\ \E op \in Ops, s \in alive : wire' = Append(wire, Msg(op, s))
  /\ sent' = sent + 1
  /\ UNCHANGED <<up, alive, watched, out, brokerVars, proxyVars, hubVars,
                 queueVars>>

\* An actor of the peer terminates: handle_down_msg if its broker monitors it.
PeerTerminate(s) ==
  /\ s \in alive
  /\ alive' = alive \ {s} /\ watched' = watched \ {s}
  /\ wire' = IF up /\ s \in watched THEN Append(wire, Msg("down", s)) ELSE wire
  /\ UNCHANGED <<up, out, sent, brokerVars, proxyVars, hubVars, queueVars>>

\* The peer reads a monitor_message: proxy_announced.
PeerMonitor ==
  /\ up /\ out # <<>>
  /\ out' = Tail(out)
  /\ LET s == Head(out) IN
     IF s \in alive THEN watched' = watched \cup {s} /\ UNCHANGED wire
     ELSE wire' = Append(wire, Msg("down", s)) /\ UNCHANGED watched
  /\ UNCHANGED <<up, alive, sent, brokerVars, proxyVars, hubVars, queueVars>>

\* The connection breaks: what follows a prefix of the data is lost.
Disconnect ==
  /\ up /\ up' = FALSE /\ out' = <<>>
  /\ \E n \in 0..Len(wire) :
       wire' = Append(SubSeq(wire, 1, n), Msg("closed", None))
  /\ UNCHANGED <<alive, watched, sent, brokerVars, proxyVars, hubVars,
                 queueVars>>

Init ==
  /\ wire = <<>> /\ up = TRUE /\ alive = Sources /\ watched = {} /\ out = <<>>
  /\ sent = 0
  /\ bpc = "idle" /\ cur = NoMsg /\ top = None
  /\ box = <<>> /\ route = TRUE /\ proxy = {} /\ linked = {}
  /\ LET s == SetToSeq(Workers) IN
     /\ head = s[1]
     /\ next = [w \in Workers |->
                  LET i == CHOOSE i \in DOMAIN s : s[i] = w
                  IN IF i < Len(s) THEN s[i + 1] ELSE None]
  /\ running = 0 /\ leaving = 0 /\ notifying = 0
  /\ wpc = [w \in Workers |-> "hub"]
  /\ job = [w \in Workers |-> NoTask]
  /\ old = [w \in Workers |-> None]
  /\ queue = [id |-> 0, undelivered |-> 0, pending |-> {}]
  /\ log = <<>> /\ delivered = <<>>

Next ==
  \/ Broker \/ Abort \/ Exit
  \/ \E w \in Workers : Worker(w)
  \/ Decrement \/ Notify
  \/ PeerSend \/ PeerMonitor \/ Disconnect
  \/ \E s \in Sources : PeerTerminate(s)

\* Threads run and the peer reads what we write.
Spec ==
  /\ Init /\ [][Next]_vars
  /\ WF_vars(Broker) /\ WF_vars(Decrement) /\ WF_vars(Notify)
  /\ WF_vars(PeerMonitor)
  /\ \A w \in Workers : WF_vars(Worker(w))

-----------------------------------------------------------------------------
(* Properties. *)

\* Local actors receive the messages of a connection in the order in which they
\* were written, and every message whose turn has come was delivered: parallel
\* deserialization cannot be observed (message_queue).
InOrder ==
  delivered = SelectSeq([i \in 1..queue.undelivered |-> i - 1],
                        LAMBDA i : log[i + 1].op = "ordinary")

\* The workers in the list of the hub, from the top.
RECURSIVE Stack(_, _)
Stack(w, n) == IF w = None \/ n = 0 THEN <<>> ELSE <<w>> \o Stack(next[w], n - 1)

\* The lock-free list of the hub holds every idle worker exactly once and
\* running_ is the number of pops without a completed push.
HubIsSound ==
  LET s == Stack(head, Cardinality(Workers) + 1) IN
  /\ IsInjective(s)
  /\ Range(s) = {w \in Workers : wpc[w] = "hub"}
                  \ (IF bpc = "launch" THEN {top} ELSE {})
  /\ running = leaving + Cardinality({w \in Workers : wpc[w] # "hub"})

\* on_exit gets past await_workers only when all workers are done and all that
\* was read has been delivered: destroying queue and hub is safe for them.
AwaitMeansShipped ==
  bpc = "done" => /\ \A w \in Workers : wpc[w] = "hub"
                  /\ queue.undelivered = queue.id

\* No ID blocks the queue forever and await_workers returns: in the end all that
\* was read is delivered or dropped and the broker does not wait.
AllDelivered ==
  <>[](queue.undelivered = queue.id /\ bpc \in {"idle", "done"})

\* When the broker learns from its queue that an actor of the peer is down, or
\* the connection closed, no worker is deserializing an earlier message of it:
\* nobody can create the proxy anew that the broker is about to kill.
InFlightFirst ==
  \A m \in Range(box), w \in Workers :
    wpc[w] \in {"queued", "ship"}
      => m.op # "closed" /\ (m.op = "down" => m.src # job[w].src)

\* In the end every proxy stands for a living actor on a connected node: down
\* messages, lost connections and workers that are late erase all others.
ProxiesAreLive == <>[](proxy \subseteq alive /\ (proxy # {} => route))
=============================================================================
