------------------------------ MODULE Requests ------------------------------
(***************************************************************************)
(* Request/response messaging: an event-based client that sends requests   *)
(* and handles the answers with then() or await(), servers that respond,   *)
(* keep a response_promise, delegate, throw or quit, and the clock that    *)
(* sends sec::request_timeout to the client.                               *)
(*                                                                         *)
(* The mailbox of the client keeps the two cached queues that decide which *)
(* message is looked at again; the round-robin between them is left open.  *)
(* Servers handle one message after the other.                             *)
(***************************************************************************)
EXTENDS Naturals, FiniteSets, Sequences, Lists

CONSTANTS
  Servers,             \* event-based actors the client may address
  Priorities,          \* priorities of requests
  DelegatePriorities,  \* priorities of delegated messages
  MaxRequests,         \* bound: requests of the client
  Ordinary,            \* [Category -> Nat], ordinary messages to the client
  Mortal,              \* servers that may terminate
  MaxDelegates         \* bound: delegations

Category == {"urgent", "normal"}

Invalid == "invalid"         \* a default-constructed actor handle
Reqs == 1..MaxRequests       \* the request number inside a message_id

ASSUME RequestsConstants ==
  /\ IsFiniteSet(Servers) /\ Invalid \notin Servers
  /\ Priorities \subseteq Category /\ DelegatePriorities \subseteq Category
  /\ MaxRequests \in Nat
  /\ Ordinary \in [Category -> Nat]

\* A message in the client's mailbox.  r and cat are the bits of message_id
\* that tell IDs apart, r = 0 is an ordinary message; timer: sent by the clock.
Answer(id) == [r |-> id.r, cat |-> id.cat, timer |-> FALSE]

VARIABLES
  pc,           \* client: "handler" inside a message handler, "idle", "dead"
  awaited,      \* awaited_responses_, a sequence of response IDs
  multiplexed,  \* the keys of multiplexed_responses_
  queue,        \* [Category -> Seq], list_ of the client's cached queues
  cache,        \* [Category -> Seq], cache_ of the client's cached queues
  last,         \* last_request_id_
  timers,       \* IDs of request timeouts that the clock has yet to ship
  up,           \* [Servers -> BOOLEAN], FALSE once the mailbox is closed
  smail,        \* [Servers -> Seq], IDs of the unread requests of a server
  promise,      \* [Servers -> [Reqs -> state]], see NoPromise
  timed,        \* requests with a finite timeout
  hops,         \* how often a request has been delegated
  nowhere,      \* requests that were delegated to an invalid handle
  answered,     \* [Reqs -> Nat], answers other than timeouts the client read
  handled       \* [0..MaxRequests -> Nat], how often a handler ran

clientVars == <<pc, awaited, multiplexed, last, timed, handled, answered>>
serverVars == <<up, smail, promise, hops, nowhere>>
vars == <<pc, awaited, multiplexed, queue, cache, last, timers, up, smail,
          promise, timed, hops, nowhere, answered, handled>>

\* response_promise::state: self is the flag of a pending promise, refs counts
\* the copies of the promise, cat is the category inside its message ID.
NoPromise == [self |-> FALSE, refs |-> 0, cat |-> "normal"]

\* The client is in its first handler, ordinary messages already wait.
Init ==
  /\ pc = "handler"
  /\ awaited = <<>> /\ multiplexed = {}
  /\ queue = [c \in Category |->
                [i \in 1..Ordinary[c] |-> [r |-> 0, cat |-> c, timer |-> FALSE]]]
  /\ cache = [c \in Category |-> <<>>]
  /\ last = 0 /\ timers = {}
  /\ up = [s \in Servers |-> TRUE]
  /\ smail = [s \in Servers |-> <<>>]
  /\ promise = [s \in Servers |-> [r \in Reqs |-> NoPromise]]
  /\ timed = {} /\ hops = 0 /\ nowhere = {}
  /\ answered = [r \in Reqs |-> 0]
  /\ handled = [r \in 0..MaxRequests |-> 0]

-----------------------------------------------------------------------------
(* Sending. *)

\* enqueue at the client: a closed mailbox deletes answers, they are no
\* requests and never bounce.
Deliver(ms) ==
  queue' = IF pc = "dead" THEN queue
           ELSE [c \in Category |->
                   queue[c] \o Sublist(ms, [r : 0..MaxRequests, cat : {c},
                                            timer : BOOLEAN])]

\* Mutant: a terminated server drops requests instead of bouncing them.
SendNoBounce(s, id) ==
  /\ smail' = IF up[s] THEN [smail EXCEPT ![s] = Append(@, id)] ELSE smail
  /\ UNCHANGED queue

\* enqueue at server s: sync_request_bouncer answers for a closed mailbox.
SendRequest(s, id) ==
  IF up[s] THEN /\ smail' = [smail EXCEPT ![s] = Append(@, id)]
                /\ UNCHANGED queue
           ELSE Deliver(<<Answer(id)>>) /\ UNCHANGED smail

-----------------------------------------------------------------------------
(* The client. *)

\* mixin::requester::request followed by then() or await() on its result.
\* An invalid receiver makes the client send itself an error, without timeout.
Request(dest, how, finite, cat) ==
  LET id == [r |-> last + 1, cat |-> cat] IN
  /\ pc = "handler" /\ last < MaxRequests
  /\ last' = last + 1
  /\ IF dest = Invalid
     THEN /\ Deliver(<<Answer(id)>>)
          /\ UNCHANGED <<smail, timers, timed>>
     ELSE /\ SendRequest(dest, id)
          /\ timers' = IF finite THEN timers \cup {id} ELSE timers
          /\ timed' = IF finite THEN timed \cup {id.r} ELSE timed
  /\ awaited' = IF how = "await" THEN <<id>> \o awaited ELSE awaited
  /\ multiplexed' = IF how = "then" THEN multiplexed \cup {id} ELSE multiplexed
  /\ UNCHANGED <<pc, cache, up, promise, hops, nowhere, answered,
                 handled>>

\* The handler returns and resume looks for the next message.
EndHandler ==
  /\ pc = "handler"
  /\ pc' = "idle"
  /\ UNCHANGED <<awaited, multiplexed, queue, cache, last, timers, serverVars,
                 timed, answered, handled>>

\* quit, finalize and cleanup: the handlers are gone, the mailbox is closed and
\* the clock forgets the timeouts of the client.
Quit ==
  /\ pc = "handler"
  /\ pc' = "dead"
  /\ awaited' = <<>> /\ multiplexed' = {} /\ timers' = {}
  /\ queue' = [c \in Category |-> <<>>]
  /\ cache' = [c \in Category |-> <<>>]
  /\ UNCHANGED <<last, serverVars, timed, answered, handled>>

\* Mutant: the next message is taken without looking at skipped ones again.
FlushNothing(c) == /\ queue' = [queue EXCEPT ![c] = Tail(@)]
                   /\ UNCHANGED cache

\* new_round after a message that was not skipped: the cache of this queue goes
\* back to its front.
Flush(c) == /\ queue' = [queue EXCEPT ![c] = cache[c] \o Tail(@)]
            /\ cache' = [cache EXCEPT ![c] = <<>>]

\* Mutant: the handler of a multiplexed response stays registered.
ConsumeKeepsHandler(c, m, id) ==
  /\ \/ awaited # <<>> /\ Head(awaited) = id /\ awaited' = Tail(awaited)
     \/ awaited = <<>> /\ (id \in multiplexed \/ m.r = 0) /\ UNCHANGED awaited
  /\ handled' = [handled EXCEPT ![m.r] = @ + 1]
  /\ pc' = "handler"
  /\ Flush(c)
  /\ UNCHANGED multiplexed

\* consume: the awaited response, a response with a handler of its own, or an
\* ordinary message while no response is awaited.
Consume(c, m, id) ==
  /\ \/ /\ awaited # <<>> /\ Head(awaited) = id
        /\ awaited' = Tail(awaited)
        /\ UNCHANGED multiplexed
     \/ /\ awaited = <<>> /\ id \in multiplexed
        /\ multiplexed' = multiplexed \ {id}
        /\ UNCHANGED awaited
     \/ /\ awaited = <<>> /\ m.r = 0
        /\ UNCHANGED <<awaited, multiplexed>>
  /\ handled' = [handled EXCEPT ![m.r] = @ + 1]
  /\ pc' = "handler"
  /\ Flush(c)

\* consume: a response without handler, "probably an expired timeout".
Drop(c, m, id) ==
  /\ awaited = <<>> /\ m.r # 0 /\ id \notin multiplexed
  /\ Flush(c)
  /\ UNCHANGED <<pc, awaited, multiplexed, handled>>

\* consume: skip everything but the currently awaited response.
Skip(c, m, id) ==
  /\ awaited # <<>> /\ Head(awaited) # id
  /\ queue' = [queue EXCEPT ![c] = Tail(@)]
  /\ cache' = [cache EXCEPT ![c] = Append(@, m)]
  /\ UNCHANGED <<pc, awaited, multiplexed, handled>>

\* The client looks at the next message of one of its queues.
Read(c) ==
  /\ pc = "idle" /\ queue[c] # <<>>
  /\ LET m  == Head(queue[c])
         id == [r |-> m.r, cat |-> m.cat]
     IN /\ Consume(c, m, id) \/ Drop(c, m, id) \/ Skip(c, m, id)
        /\ answered' =
             IF m.r # 0 /\ ~m.timer /\ ~(awaited # <<>> /\ Head(awaited) # id)
             THEN [answered EXCEPT ![m.r] = @ + 1] ELSE answered
  /\ UNCHANGED <<last, timers, serverVars, timed>>

\* The clock ships a request_timeout: ship -> eq_impl(id, request_timeout).
Fire(id) ==
  /\ id \in timers
  /\ timers' = timers \ {id}
  /\ Deliver(<<[r |-> id.r, cat |-> id.cat, timer |-> TRUE]>>)
  /\ UNCHANGED <<clientVars, cache, serverVars>>

-----------------------------------------------------------------------------
(* The servers. *)

\* The server takes its next request.
TakeRequest(s) == up[s] /\ smail[s] # <<>>

\* The handler returns a value or an error: respond_to.
Respond(s) ==
  /\ TakeRequest(s)
  /\ smail' = [smail EXCEPT ![s] = Tail(@)]
  /\ Deliver(<<Answer(Head(smail[s]))>>)
  /\ UNCHANGED <<clientVars, cache, timers, up, promise, hops, nowhere>>

\* make_response_promise; the handler keeps n copies of the promise.
MakePromise(s, n) ==
  /\ TakeRequest(s)
  /\ smail' = [smail EXCEPT ![s] = Tail(@)]
  /\ LET id == Head(smail[s]) IN
     promise' = [promise EXCEPT ![s][id.r] =
                   [self |-> TRUE, refs |-> n, cat |-> id.cat]]
  /\ UNCHANGED <<clientVars, queue, cache, timers, up, hops, nowhere>>

\* delegate_impl: the request moves on with its ID and sender, with a new
\* category when delegated with high priority; an invalid receiver ends it.
Forward(id, dest, cat) ==
  LET new == IF cat = "urgent" THEN [id EXCEPT !.cat = cat] ELSE id IN
  /\ hops < MaxDelegates
  /\ hops' = hops + 1
  /\ IF dest = Invalid
     THEN /\ nowhere' = nowhere \cup {id.r}
          /\ UNCHANGED <<queue, smail>>
     ELSE SendRequest(dest, new) /\ UNCHANGED nowhere

\* The requests that a server leaves behind bounce in the order of its mailbox.
Bounced(ids) == [i \in 1..Len(ids) |-> Answer(ids[i])]

\* A handler that throws: handle_exception answers unless the handler made a
\* promise before, then the actor quits and bounces what it did not read.
Throw(s, made) ==
  LET id == Head(smail[s]) IN
  /\ TakeRequest(s)
  /\ IF made THEN /\ promise' = [promise EXCEPT ![s][id.r] =
                                   [self |-> TRUE, refs |-> 1, cat |-> id.cat]]
                  /\ Deliver(Bounced(Tail(smail[s])))
             ELSE Deliver(Bounced(smail[s])) /\ UNCHANGED promise
  /\ up' = [up EXCEPT ![s] = FALSE]
  /\ smail' = [smail EXCEPT ![s] = <<>>]
  /\ UNCHANGED <<clientVars, cache, timers, hops, nowhere>>

\* The server terminates between two messages, e.g. because of an exit_msg.
Terminate(s) ==
  /\ up[s]
  /\ up' = [up EXCEPT ![s] = FALSE]
  /\ smail' = [smail EXCEPT ![s] = <<>>]
  /\ Deliver(Bounced(smail[s]))
  /\ UNCHANGED <<clientVars, cache, timers, promise, hops, nowhere>>

Pending(s, r) == promise[s][r].self /\ promise[s][r].refs > 0
PromiseId(s, r) == [r |-> r, cat |-> promise[s][r].cat]

\* Mutant: deliver_impl without the final cancel().
CancelNothing(p) == [p EXCEPT !.refs = @ - 1]

\* deliver or delegate through one copy of the promise: cancel() and the reset
\* of state_ in that copy.
Cancel(p) == IF p.refs = 1 THEN NoPromise
             ELSE [self |-> FALSE, refs |-> p.refs - 1, cat |-> p.cat]

\* response_promise::deliver.  On a promise that is not pending it is a no-op.
Fulfil(s, r) ==
  /\ up[s] /\ Pending(s, r)
  /\ promise' = [promise EXCEPT ![s][r] = Cancel(@)]
  /\ Deliver(<<Answer(PromiseId(s, r))>>)
  /\ UNCHANGED <<clientVars, cache, timers, up, smail, hops, nowhere>>

\* response_promise::delegate, also the way local_actor::delegate takes.
Delegate(s, r, dest, cat) ==
  /\ up[s] /\ Pending(s, r)
  /\ promise' = [promise EXCEPT ![s][r] = Cancel(@)]
  /\ Forward(PromiseId(s, r), dest, cat)
  /\ UNCHANGED <<clientVars, cache, timers, up>>

\* The references to the state of a promise after a copy is destroyed.
Forget(p) == IF p.refs = 1 THEN NoPromise ELSE [p EXCEPT !.refs = @ - 1]

\* A copy of the promise is destroyed, with the last one its state: a promise
\* that is still pending then answers with sec::broken_promise.
Release(s, r) ==
  /\ promise[s][r].refs > 0
  /\ promise' = [promise EXCEPT ![s][r] = Forget(@)]
  /\ IF promise[s][r].refs = 1 /\ promise[s][r].self
     THEN Deliver(<<Answer(PromiseId(s, r))>>)
     ELSE UNCHANGED queue
  /\ UNCHANGED <<clientVars, cache, timers, up, smail, hops, nowhere>>

-----------------------------------------------------------------------------
Dest == Servers \cup {Invalid}

Client ==
  \/ \E d \in Dest, how \in {"then", "await"}, f \in BOOLEAN, c \in Priorities :
       Request(d, how, f, c)
  \/ EndHandler
  \/ Quit
  \/ \E c \in Category : Read(c)

\* One message handler of server s.
Handler(s) == \/ Respond(s)
              \/ \E n \in 1..2 : MakePromise(s, n)
              \/ \E made \in BOOLEAN : s \in Mortal /\ Throw(s, made)

Server(s) ==
  \/ Handler(s)
  \/ s \in Mortal /\ Terminate(s)
  \/ \E r \in Reqs : \/ Fulfil(s, r)
                     \/ Release(s, r)
                     \/ \E d \in Dest, c \in DelegatePriorities :
                          Delegate(s, r, d, c)

\* The model ends with the client: nobody reads an answer after that.
Next ==
  /\ pc # "dead"
  /\ \/ Client
     \/ \E id \in timers : Fire(id)
     \/ \E s \in Servers : Server(s)

Ids == [r : Reqs, cat : Category]

\* The scheduler runs an actor that has messages and a handler returns; the
\* clock ships what is due; what a terminated actor holds is destroyed.  No
\* fairness makes a living server settle its promises.
Spec ==
  /\ Init /\ [][Next]_vars
  /\ WF_vars(EndHandler)
  /\ \A c \in Category : WF_vars(Read(c))
  /\ \A id \in Ids : WF_vars(Fire(id))
  /\ \A s \in Servers : /\ WF_vars(Handler(s))
                        /\ \A r \in Reqs : WF_vars(~up[s] /\ Release(s, r))

-----------------------------------------------------------------------------
(* Properties. *)

\* The answers to r among the messages of q, timeouts are none.
Count(q, r) == Occurrences(q, [r : {r}, cat : Category, timer : {FALSE}])

\* The places where the one answer to request r can come from or can be.
AnswersOf(r) ==
    Cardinality(UNION {{<<s, i>> : i \in {k \in DOMAIN smail[s] : smail[s][k].r = r}} :
                         s \in Servers})
  + Cardinality({s \in Servers : promise[s][r].self})
  + Count(queue["normal"], r) + Count(queue["urgent"], r)
  + Count(cache["normal"], r) + Count(cache["urgent"], r)
  + answered[r]
  + (IF r \in nowhere THEN 1 ELSE 0)

\* Every request has exactly one answer on its way: in the mailbox of a server,
\* in a pending promise or in the mailbox of the client.  However a request is
\* delegated, promised, bounced or left behind by an exception, it is neither
\* answered twice nor forgotten (response_promise.cpp, sync_request_bouncer).
OneAnswer == pc # "dead" => \A r \in 1..last : AnswersOf(r) = 1

\* No response handler runs twice, whether the answer, the timeout of the
\* request or both arrive (scheduled_actor::consume).
HandledOnce == \A r \in Reqs : handled[r] <= 1

\* A request without timeout hangs in a promise that a living server keeps, or
\* because it was delegated to an invalid handle.
Hangs(r) == /\ r \notin timed
            /\ \/ r \in nowhere
               \/ \E s \in Servers : up[s] /\ promise[s][r].self

\* A client that awaits such a request skips everything else.
Blocked == awaited # <<>> /\ Hangs(Head(awaited).r)

\* In the end the handler of every request has run, with the answer, with an
\* error or with a timeout: unless the client terminated, a request can only
\* remain open when it hangs for good or the client awaits one that does.
Answered ==
  <>[](\/ pc = "dead"
       \/ Blocked
       \/ \A r \in 1..last : handled[r] > 0 \/ Hangs(r))

\* Messages that are skipped while the client awaits a response are handled
\* once that response arrived (drr_cached_queue::flush_cache).
OrdinaryIsRead ==
  <>[](\/ pc = "dead"
       \/ Blocked
       \/ handled[0] = Ordinary["normal"] + Ordinary["urgent"])
=============================================================================
