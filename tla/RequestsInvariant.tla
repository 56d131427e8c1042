------------------------- MODULE RequestsInvariant -------------------------
(***************************************************************************)
(* A request has one answer and one run of its handler: the steps of the   *)
(* client and of the clock preserve the invariant of RequestsProofs, and   *)
(* the theorems that follow from it.                                       *)
(***************************************************************************)
EXTENDS RequestsProofs

-----------------------------------------------------------------------------
(* The steps of the client and of the clock. *)

\* A new request n gets its first holder, the others keep theirs.
LEMMA NewHolder ==
  ASSUME TypeOK, Held, NEW n \in Reqs, n = last + 1, last' = n,
         \/ Got(n)' = Got(n) + 1 /\ \A t \in Servers : Has(t, n)' = Has(t, n)
         \/ /\ Got(n)' = Got(n)
            /\ \E d \in Servers : /\ Has(d, n)' = Has(d, n) + 1
                                  /\ \A t \in Servers \ {d} : Has(t, n)' = Has(t, n),
         \A r \in Reqs : r # n => /\ Got(r)' = Got(r)
                                  /\ \A t \in Servers : Has(t, r)' = Has(t, r)
  PROVE  Held'
<1>1. last \in Nat /\ \A r \in Reqs : r \in Nat
  BY RequestsConstants DEF TypeOK, Reqs
<1>2. OneHolder(n)'
  <2>1. PICK h, f : h = HasOf(n) /\ f = HasOf(n)'
    BY Zenon
  <2>2. /\ h \in [Servers -> Nat] /\ Got(n) \in Nat
        /\ \A t \in Servers : h[t] = Has(t, n) /\ f[t] = Has(t, n)'
    BY <2>1, HasOfType, CountsAreNat, Zenon DEF HasOf
  <2>3. Holders(0, Got(n), h, Servers) /\ Sent(n)' = 1
    BY <1>1, <2>1 DEF Held, OneHolder, Sent
  <2>4. Holders(1, Got(n)', f, Servers)
    BY <2>2, <2>3, FirstHolder
  <2> QED
    BY <2>1, <2>3, <2>4, Zenon DEF OneHolder
<1>3. ASSUME NEW r \in Reqs, r # n PROVE OneHolder(r)'
  <2>1. Sent(r)' = Sent(r) /\ HasOf(r)' = HasOf(r) /\ Got(r)' = Got(r)
    BY <1>1, <1>3 DEF Sent, HasOf
  <2> QED
    BY <2>1, Zenon DEF Held, OneHolder
<1> QED
  BY <1>2, <1>3, Zenon DEF Held

\* Whoever gets the new request is its first holder: the server, or the client
\* when the request bounces.
LEMMA RequestHolder ==
  ASSUME TypeOK, TypeOK', Held, pc # "dead", NEW n \in Reqs, n = last + 1, last' = n,
         NEW id \in Ids, id.r = n, NEW d \in Dest,
         UNCHANGED <<cache, promise, nowhere, answered>>,
         d = Invalid => Deliver(<<Answer(id)>>) /\ smail' = smail,
         d # Invalid => SendRequest(d, id)
  PROVE  Held'
<1>1. ASSUME NEW r \in Reqs
      PROVE  /\ One(id, r) = IF r = n THEN 1 ELSE 0
             /\ Got(r) \in Nat /\ Got(r)' \in Nat /\ Unread(r) \in Nat /\ Unread(r)' \in Nat
             /\ Got(r)' + Unread(r) = Got(r) + Unread(r)'
             /\ \A t \in Servers : /\ Mail(smail[t], r) \in Nat /\ Mail(smail'[t], r) \in Nat
                                   /\ Due(t, r) \in {0, 1}
                                   /\ Has(t, r) = Mail(smail[t], r) + Due(t, r)
                                   /\ Has(t, r)' = Mail(smail'[t], r) + Due(t, r)
  <2>1. One(id, r) = IF r = n THEN 1 ELSE 0
    BY Zenon DEF One
  <2>2. Got(r)' + Unread(r) = Got(r) + Unread(r)'
    BY GotWithQueue, Zenon
  <2>3. \A t \in Servers : /\ Has(t, r) = Mail(smail[t], r) + Due(t, r)
                           /\ Has(t, r)' = Mail(smail'[t], r) + Due(t, r)
    BY Zenon DEF Has, Due
  <2> QED
    BY <2>1, <2>2, <2>3, CountsAreNat, CountsAreNatNext, Zenon
<1>2. CASE d = Invalid \/ ~up[d]
  <2>1. Deliver(<<Answer(id)>>) /\ smail' = smail
    BY <1>2, Zenon DEF SendRequest
  <2>2. \A r : Unread(r)' = Unread(r) + One(id, r)
    BY <2>1, AnswerAdds, Zenon
  <2>3. \A r \in Reqs : Got(r)' = Got(r) + (IF r = n THEN 1 ELSE 0)
    BY <1>1, <2>2
  <2>4. \A r \in Reqs : \A t \in Servers : Has(t, r)' = Has(t, r)
    BY <1>1, <2>1, Zenon
  <2> QED
    BY <1>1, <2>3, <2>4, NewHolder
<1>3. CASE d \in Servers /\ up[d]
  <2>1. /\ SendRequest(d, id) /\ queue' = queue
        /\ smail' = [smail EXCEPT ![d] = Append(smail[d], id)]
    BY <1>3, RequestsConstants, Zenon DEF SendRequest
  <2>2. /\ \A t \in Servers \ {d} : smail'[t] = smail[t]
        /\ \A r : Unread(r)' + Mail(smail'[d], r)
                    = Unread(r) + Mail(smail[d], r) + One(id, r)
    BY <1>3, <2>1, SendRequestAdds, Zenon
  <2>3. ASSUME NEW r \in Reqs
        PROVE  /\ Got(r)' = Got(r)
               /\ Has(d, r)' = Has(d, r) + (IF r = n THEN 1 ELSE 0)
               /\ \A t \in Servers \ {d} : Has(t, r)' = Has(t, r)
    <3>1. Unread(r)' = Unread(r)
      BY <2>1, Zenon DEF Unread
    <3> QED
      BY <1>1, <1>3, <2>2, <3>1
  <2>4. ASSUME NEW r \in Reqs, r # n PROVE \A t \in Servers : Has(t, r)' = Has(t, r)
    <3>1. Has(d, r) \in Nat /\ Has(d, r)' = Has(d, r) + 0
      BY <1>3, <2>3, <2>4, CountsAreNat, Zenon
    <3>2. Has(d, r)' = Has(d, r)
      BY <3>1
    <3> QED
      BY <2>3, <3>2, Zenon
  <2> QED
    BY <1>3, <2>3, <2>4, NewHolder, Zenon
<1> QED
  BY <1>2, <1>3, Zenon DEF Dest

\* request: whoever gets it, the new request has one holder and one handler.
LEMMA RequestStep ==
  ASSUME IInv, pc # "dead", NEW d \in Dest, NEW how \in {"then", "await"},
         NEW f \in BOOLEAN, NEW cat \in Priorities, Request(d, how, f, cat)
  PROVE  IInv'
<1>1. PICK n, id : n = last + 1 /\ id = [r |-> n, cat |-> cat]
  BY Zenon
<1>2. /\ last \in Nat /\ n \in Reqs /\ id \in Ids /\ id.r = n /\ n # 0
  BY <1>1, RequestsConstants DEF Request, IInv, TypeOK, Reqs, Ids
<1>3. /\ last' = n /\ pc' = pc
      /\ UNCHANGED <<cache, up, promise, nowhere, answered, handled>>
      /\ d = Invalid => /\ Deliver(<<Answer(id)>>)
                        /\ smail' = smail /\ timers' = timers
      /\ d # Invalid => /\ SendRequest(d, id)
                        /\ timers' \in {timers, timers \cup {id}}
      /\ \/ awaited' = <<id>> \o awaited /\ multiplexed' = multiplexed
         \/ awaited' = awaited /\ multiplexed' = multiplexed \cup {id}
  BY <1>1, Zenon DEF Request
<1>4. OneHandler'
  BY <1>1, <1>2, <1>3, NewHandler, Zenon DEF IInv
<1>5. <<id>> \o awaited \in Seq(Ids)
  BY <1>2 DEF IInv, TypeOK
<1>6. /\ queue' \in [Category -> Seq(Msg)] /\ smail' \in [Servers -> Seq(Ids)]
      /\ timers' \in SUBSET Ids
  <2>1. CASE d = Invalid
    BY <1>2, <1>3, <2>1, AnswerAdds, Zenon DEF IInv, TypeOK
  <2>2. CASE d \in Servers
    <3>1. SendRequest(d, id) /\ timers' \in SUBSET Ids
      BY <1>2, <1>3, <2>2, RequestsConstants, Zenon DEF IInv, TypeOK
    <3> QED
      BY <1>2, <2>2, <3>1, SendRequestAdds, Zenon DEF IInv
  <2> QED
    BY <2>1, <2>2, Zenon DEF Dest
<1>7. TypeOK'
  <2>1. last' \in 0..MaxRequests
    BY <1>2, <1>3, RequestsConstants DEF Reqs
  <2>2. awaited' \in Seq(Ids) /\ multiplexed' \in SUBSET Ids
    <3>1. awaited \in Seq(Ids) /\ multiplexed \in SUBSET Ids
      BY Zenon DEF IInv, TypeOK
    <3> QED
      BY <1>2, <1>3, <1>5, <3>1, Zenon
  <2> QED
    BY <1>3, <1>6, <2>1, <2>2, Zenon DEF IInv, TypeOK
<1>8. Held'
  BY <1>1, <1>2, <1>3, <1>7, RequestHolder, Zenon DEF IInv
<1> QED
  BY <1>4, <1>7, <1>8, Zenon DEF IInv

\* Reading a message of queue c moves its answer from the mailbox to the answers
\* that were read, or from the queue to the cache.
LEMMA ReadMoves ==
  ASSUME TypeOK, TypeOK', NEW c \in Category, NEW r \in Reqs, nowhere' = nowhere,
         \A k \in Category : k # c => queue'[k] = queue[k] /\ cache'[k] = cache[k],
         Count(queue'[c], r) + Count(cache'[c], r) + answered'[r]
           = Count(queue[c], r) + Count(cache[c], r) + answered[r]
  PROVE  Got(r)' = Got(r)
<1>1. /\ Count(queue["normal"], r) \in Nat /\ Count(queue["urgent"], r) \in Nat
      /\ Count(cache["normal"], r) \in Nat /\ Count(cache["urgent"], r) \in Nat
      /\ Count(queue'["normal"], r) \in Nat /\ Count(queue'["urgent"], r) \in Nat
      /\ Count(cache'["normal"], r) \in Nat /\ Count(cache'["urgent"], r) \in Nat
  BY CountType, Zenon DEF TypeOK, Category
<1>2. Lost(r) \in {0, 1} /\ answered[r] \in Nat /\ answered'[r] \in Nat /\ Lost(r)' = Lost(r)
  BY CountsAreNat, CountsAreNatNext, Zenon DEF Lost
<1>3. CASE c = "normal"
  <2>1. queue'["urgent"] = queue["urgent"] /\ cache'["urgent"] = cache["urgent"]
    BY <1>3, Zenon DEF Category
  <2> QED
    BY <1>1, <1>2, <1>3, <2>1 DEF Got, Unread, Skipped
<1>4. CASE c = "urgent"
  <2>1. queue'["normal"] = queue["normal"] /\ cache'["normal"] = cache["normal"]
    BY <1>4, Zenon DEF Category
  <2> QED
    BY <1>1, <1>2, <1>4, <2>1 DEF Got, Unread, Skipped
<1> QED
  BY <1>3, <1>4, Zenon DEF Category

\* flush_cache puts what was skipped back in front: only the message is gone.
LEMMA FlushCounts ==
  ASSUME TypeOK, NEW c \in Category, queue[c] # <<>>, Flush(c)
  PROVE  /\ queue' \in [Category -> Seq(Msg)] /\ cache' \in [Category -> Seq(Msg)]
         /\ \A k \in Category : k # c => queue'[k] = queue[k] /\ cache'[k] = cache[k]
         /\ \A r : Count(queue'[c], r) + Count(cache'[c], r)
                     + (IF IsAnswer(Head(queue[c]), r) THEN 1 ELSE 0)
                   = Count(queue[c], r) + Count(cache[c], r)
<1>1. /\ queue[c] \in Seq(Msg) /\ cache[c] \in Seq(Msg)
      /\ queue' = [queue EXCEPT ![c] = cache[c] \o Tail(queue[c])]
      /\ cache' = [cache EXCEPT ![c] = <<>>]
  BY Zenon DEF TypeOK, Flush
<1>2. Tail(queue[c]) \in Seq(Msg)
  BY <1>1, CountTail, Zenon
<1>3. cache[c] \o Tail(queue[c]) \in Seq(Msg)
  BY <1>1, <1>2, CountConcat, Zenon
<1>4. /\ queue'[c] = cache[c] \o Tail(queue[c]) /\ cache'[c] = <<>>
      /\ queue' \in [Category -> Seq(Msg)] /\ cache' \in [Category -> Seq(Msg)]
      /\ \A k \in Category : k # c => queue'[k] = queue[k] /\ cache'[k] = cache[k]
  BY <1>1, <1>3 DEF TypeOK
<1>5. ASSUME NEW r
      PROVE  Count(queue'[c], r) + Count(cache'[c], r)
               + (IF IsAnswer(Head(queue[c]), r) THEN 1 ELSE 0)
             = Count(queue[c], r) + Count(cache[c], r)
  <2>1. Count(queue[c], r)
          = Count(Tail(queue[c]), r) + (IF IsAnswer(Head(queue[c]), r) THEN 1 ELSE 0)
    BY <1>1, CountTail, Zenon
  <2>2. Count(queue'[c], r) = Count(cache[c], r) + Count(Tail(queue[c]), r)
    <3>1. Count(cache[c] \o Tail(queue[c]), r) = Count(cache[c], r) + Count(Tail(queue[c]), r)
      <4>1. \A q, p \in Seq(Msg) : Count(q \o p, r) = Count(q, r) + Count(p, r)
        BY CountConcat, Zenon
      <4> QED
        BY <1>1, <1>2, <4>1, Zenon
    <3> QED
      BY <1>4, <3>1, Zenon
  <2>3. Count(cache[c], r) \in Nat /\ Count(Tail(queue[c]), r) \in Nat /\ Count(cache'[c], r) = 0
    BY <1>1, <1>2, <1>4, CountType, Zenon
  <2> QED
    BY <2>1, <2>2, <2>3
<1> QED
  BY <1>4, <1>5, Zenon

\* So the client has what it had, when the messages of queue c only move.
LEMMA ReadKeeps ==
  ASSUME TypeOK, TypeOK', Held, last' = last, UNCHANGED serverVars, NEW c \in Category,
         \A k \in Category : k # c => queue'[k] = queue[k] /\ cache'[k] = cache[k],
         \A r \in Reqs : Count(queue'[c], r) + Count(cache'[c], r) + answered'[r]
                           = Count(queue[c], r) + Count(cache[c], r) + answered[r]
  PROVE  Held'
<1>1. \A r \in Reqs : Got(r)' = Got(r)
  BY ReadMoves, Zenon DEF serverVars
<1>2. \A r \in Reqs : \A t \in Servers : Has(t, r)' = Has(t, r)
  BY Zenon DEF Has, Due, serverVars
<1> QED
  BY <1>1, <1>2, ClientStep, Zenon

\* A message that is skipped moves from the queue to its cache.
LEMMA SkipStep ==
  ASSUME IInv, pc = "idle", NEW c \in Category, queue[c] # <<>>, NEW id,
         Skip(c, Head(queue[c]), id),
         UNCHANGED <<last, timers, serverVars, answered>>
  PROVE  IInv'
<1>1. PICK m : m = Head(queue[c])
  BY Zenon
<1>2. /\ queue' = [queue EXCEPT ![c] = Tail(queue[c])]
      /\ cache' = [cache EXCEPT ![c] = Append(cache[c], m)]
      /\ UNCHANGED <<pc, awaited, multiplexed, handled>>
      /\ queue[c] \in Seq(Msg) /\ cache[c] \in Seq(Msg)
  BY <1>1, Zenon DEF Skip, IInv, TypeOK
<1>3. /\ m \in Msg /\ Tail(queue[c]) \in Seq(Msg)
      /\ \A r : Count(queue[c], r)
                  = Count(Tail(queue[c]), r) + (IF IsAnswer(m, r) THEN 1 ELSE 0)
  BY <1>1, <1>2, CountTail, Zenon
<1>4. /\ Append(cache[c], m) \in Seq(Msg)
      /\ \A r : Count(Append(cache[c], m), r)
                  = Count(cache[c], r) + (IF IsAnswer(m, r) THEN 1 ELSE 0)
  BY <1>2, <1>3, CountAppend, Zenon
<1>5. /\ queue'[c] = Tail(queue[c]) /\ cache'[c] = Append(cache[c], m)
      /\ queue' \in [Category -> Seq(Msg)] /\ cache' \in [Category -> Seq(Msg)]
      /\ \A k \in Category : k # c => queue'[k] = queue[k] /\ cache'[k] = cache[k]
  BY <1>2, <1>3, <1>4, Zenon DEF IInv, TypeOK
<1>6. TypeOK' /\ OneHandler'
  BY <1>2, <1>5, KeepHandlers, Zenon DEF IInv, TypeOK, serverVars
<1>7. ASSUME NEW r \in Reqs
      PROVE  Count(queue'[c], r) + Count(cache'[c], r) + answered'[r]
               = Count(queue[c], r) + Count(cache[c], r) + answered[r]
  <2>1. /\ Count(Tail(queue[c]), r) \in Nat /\ Count(cache[c], r) \in Nat
        /\ answered[r] \in Nat
    BY <1>2, <1>3, CountType, CountsAreNat, Zenon DEF IInv
  <2>2. /\ Count(queue'[c], r) = Count(Tail(queue[c]), r)
        /\ Count(cache'[c], r) = Count(cache[c], r) + (IF IsAnswer(m, r) THEN 1 ELSE 0)
        /\ Count(queue[c], r) = Count(Tail(queue[c]), r) + (IF IsAnswer(m, r) THEN 1 ELSE 0)
    BY <1>3, <1>4, <1>5, Zenon
  <2> QED
    BY <2>1, <2>2
<1>8. Held'
  BY <1>5, <1>6, <1>7, ReadKeeps, Zenon DEF IInv
<1> QED
  BY <1>6, <1>8, Zenon DEF IInv

\* A response that is read becomes an answer that was read.
LEMMA AnsweredCounts ==
  ASSUME TypeOK, NEW m \in Msg,
         answered' = IF m.r # 0 /\ ~m.timer
                     THEN [answered EXCEPT ![m.r] = answered[m.r] + 1] ELSE answered
  PROVE  /\ answered' \in [Reqs -> Nat]
         /\ \A r \in Reqs : answered'[r] = answered[r] + (IF IsAnswer(m, r) THEN 1 ELSE 0)
<1>1. /\ m.r \in 0..MaxRequests /\ m.timer \in BOOLEAN /\ (m.r # 0 => m.r \in Reqs)
      /\ \A r \in Reqs : r # 0
  BY RequestsConstants DEF Msg, Reqs
<1> QED
  BY <1>1 DEF TypeOK, IsAnswer

\* A message that is consumed or dropped is gone, its answer was read.
LEMMA FlushStep ==
  ASSUME IInv, NEW c \in Category, queue[c] # <<>>, Flush(c),
         answered' = IF Head(queue[c]).r # 0 /\ ~Head(queue[c]).timer
                     THEN [answered EXCEPT ![Head(queue[c]).r] = answered[Head(queue[c]).r] + 1]
                     ELSE answered,
         UNCHANGED <<last, timers, serverVars>>, pc # "dead", pc' \in {"handler", "idle"},
         OneHandler', awaited' \in Seq(Ids), multiplexed' \in SUBSET Ids,
         handled' \in [0..MaxRequests -> Nat]
  PROVE  IInv'
<1>1. PICK m : m = Head(queue[c])
  BY Zenon
<1>2. m \in Msg /\ queue[c] \in Seq(Msg) /\ cache[c] \in Seq(Msg)
  BY <1>1, CountTail, Zenon DEF IInv, TypeOK
<1>3. /\ queue' \in [Category -> Seq(Msg)] /\ cache' \in [Category -> Seq(Msg)]
      /\ \A k \in Category : k # c => queue'[k] = queue[k] /\ cache'[k] = cache[k]
      /\ \A r : Count(queue'[c], r) + Count(cache'[c], r)
                  + (IF IsAnswer(m, r) THEN 1 ELSE 0)
                = Count(queue[c], r) + Count(cache[c], r)
  BY <1>1, FlushCounts, Zenon DEF IInv
<1>4. /\ answered' \in [Reqs -> Nat]
      /\ \A r \in Reqs : answered'[r] = answered[r] + (IF IsAnswer(m, r) THEN 1 ELSE 0)
  BY <1>1, <1>2, AnsweredCounts, Zenon DEF IInv
<1>5. TypeOK'
  BY <1>3, <1>4, Zenon DEF IInv, TypeOK, serverVars
<1>6. ASSUME NEW r \in Reqs
      PROVE  Count(queue'[c], r) + Count(cache'[c], r) + answered'[r]
               = Count(queue[c], r) + Count(cache[c], r) + answered[r]
  <2>1. /\ Count(queue'[c], r) \in Nat /\ Count(cache'[c], r) \in Nat
        /\ Count(queue[c], r) \in Nat /\ Count(cache[c], r) \in Nat /\ answered[r] \in Nat
    BY <1>2, <1>3, CountType, CountsAreNat, Zenon DEF IInv
  <2>2. /\ Count(queue'[c], r) + Count(cache'[c], r) + (IF IsAnswer(m, r) THEN 1 ELSE 0)
             = Count(queue[c], r) + Count(cache[c], r)
        /\ answered'[r] = answered[r] + (IF IsAnswer(m, r) THEN 1 ELSE 0)
    BY <1>3, <1>4, Zenon
  <2> QED
    BY <2>1, <2>2
<1>7. Held'
  BY <1>3, <1>5, <1>6, ReadKeeps, Zenon DEF IInv
<1> QED
  BY <1>5, <1>7, Zenon DEF IInv

\* consume: the handler of the message runs, it is dropped or skipped.
LEMMA ReadStep ==
  ASSUME IInv, NEW c \in Category, Read(c)
  PROVE  IInv'
<1>1. PICK m, id : m = Head(queue[c]) /\ id = [r |-> m.r, cat |-> m.cat]
  BY Zenon
<1>2. /\ queue[c] # <<>> /\ pc = "idle" /\ UNCHANGED <<last, timers, serverVars>>
      /\ Consume(c, m, id) \/ Drop(c, m, id) \/ Skip(c, m, id)
      /\ answered' = IF m.r # 0 /\ ~m.timer /\ ~(awaited # <<>> /\ Head(awaited) # id)
                     THEN [answered EXCEPT ![m.r] = answered[m.r] + 1] ELSE answered
  BY <1>1, Zenon DEF Read
<1>3. CASE Skip(c, m, id)
  <2>1. answered' = answered
    BY <1>2, <1>3, Zenon DEF Skip
  <2> QED
    BY <1>1, <1>2, <1>3, <2>1, SkipStep, Zenon
<1>4. CASE Consume(c, m, id) \/ Drop(c, m, id)
  <2>1. /\ Flush(c) /\ ~(awaited # <<>> /\ Head(awaited) # id)
        /\ pc' \in {"handler", "idle"}
    BY <1>2, <1>4, Zenon DEF Consume, Drop
  <2>2. m \in Msg
    BY <1>1, <1>2, CountTail, Zenon DEF IInv, TypeOK
  <2>3. /\ OneHandler' /\ awaited' \in Seq(Ids) /\ multiplexed' \in SUBSET Ids
        /\ handled' \in [0..MaxRequests -> Nat]
    <3>1. CASE Consume(c, m, id)
      BY <1>1, <1>2, <2>2, <3>1, ConsumeHandlers, Zenon
    <3>2. CASE Drop(c, m, id)
      BY <1>2, <3>2, KeepHandlers, Zenon DEF Drop, IInv, TypeOK
    <3> QED
      BY <1>4, <3>1, <3>2, Zenon
  <2> QED
    BY <1>1, <1>2, <2>1, <2>3, FlushStep, Zenon
<1> QED
  BY <1>2, <1>3, <1>4, Zenon

\* A step that moves no answer, no request and no handler.
LEMMA Quiet ==
  ASSUME OneHandler, UNCHANGED <<awaited, multiplexed, handled, last, cache, answered>>,
         UNCHANGED <<smail, promise, nowhere>>, \A r \in Reqs : Unread(r)' = Unread(r)
  PROVE  (Held => Held') /\ OneHandler'
<1>1. \A r \in Reqs : Got(r)' = Got(r) /\ \A t \in Servers : Has(t, r)' = Has(t, r)
  BY Zenon DEF Got, Skipped, Lost, Has, Due
<1> QED
  BY <1>1, ClientStep, KeepHandlers, Zenon

\* A timeout is no answer: the request remains where it is.
LEMMA FireStep ==
  ASSUME IInv, pc # "dead", NEW id \in timers, Fire(id)
  PROVE  IInv'
<1>1. PICK m : m = [r |-> id.r, cat |-> id.cat, timer |-> TRUE]
  BY Zenon
<1>2. /\ id \in Ids /\ timers' = timers \ {id} /\ Deliver(<<m>>)
      /\ UNCHANGED <<clientVars, cache, serverVars>>
  BY <1>1, Zenon DEF Fire, IInv, TypeOK
<1>3. <<m>> \in Seq(Msg) /\ \A r : Count(<<m>>, r) = 0
  BY <1>1, <1>2, TimeoutCounts, Zenon
<1>4. queue' \in [Category -> Seq(Msg)] /\ \A r : Unread(r)' = Unread(r) + 0
  BY <1>2, <1>3, DeliverAdds, Zenon DEF IInv
<1>5. TypeOK'
  BY <1>2, <1>4, Zenon DEF IInv, TypeOK, clientVars, serverVars
<1>6. \A r \in Reqs : Unread(r)' = Unread(r)
  BY <1>4, CountsAreNat DEF IInv
<1> QED
  BY <1>2, <1>5, <1>6, Quiet, Zenon DEF IInv, clientVars, serverVars

\* The handler returns.
LEMMA EndHandlerStep ==
  ASSUME IInv, EndHandler
  PROVE  IInv'
<1>1. TypeOK' /\ \A r \in Reqs : Unread(r)' = Unread(r)
  BY Zenon DEF EndHandler, IInv, TypeOK, serverVars, Unread
<1> QED
  BY <1>1, Quiet, Zenon DEF EndHandler, IInv, serverVars

\* The client terminates: its handlers are gone.
LEMMA QuitStep ==
  ASSUME IInv, Quit
  PROVE  IInv'
<1>1. /\ pc' = "dead" /\ awaited' = <<>> /\ multiplexed' = {} /\ timers' = {}
      /\ queue' = [c \in Category |-> <<>>] /\ cache' = [c \in Category |-> <<>>]
      /\ UNCHANGED <<last, serverVars, timed, answered, handled>>
  BY Zenon DEF Quit
<1>2. TypeOK'
  BY <1>1 DEF IInv, TypeOK, serverVars
<1>3. ASSUME NEW r \in Reqs
      PROVE  Handlers(r)' <= IF r <= last' THEN 1 ELSE 0
  <2>1. Mail(awaited, r) \in Nat /\ Multiplexed(r) \in {0, 1} /\ handled[r] \in Nat
    BY HandlersAreNat, Zenon DEF IInv
  <2>2. Mail(awaited', r) = 0 /\ Multiplexed(r)' = 0 /\ handled'[r] = handled[r]
    BY <1>1, MailType, Zenon DEF Multiplexed
  <2>3. Handlers(r) <= IF r <= last THEN 1 ELSE 0
    BY Zenon DEF IInv, OneHandler
  <2> QED
    BY <1>1, <2>1, <2>2, <2>3 DEF Handlers
<1>4. OneHandler'
  BY <1>1, <1>3, Zenon DEF OneHandler
<1> QED
  BY <1>1, <1>2, <1>4, Zenon DEF IInv

-----------------------------------------------------------------------------
(* The invariant. *)

\* No request is sent yet, only ordinary messages wait.
LEMMA InitInv == Init => IInv
<1> SUFFICES ASSUME Init PROVE IInv
  BY Zenon
<1>1. TypeOK
  <2>1. \A c \in Category :
          [i \in 1..Ordinary[c] |-> [r |-> 0, cat |-> c, timer |-> FALSE]] \in Seq(Msg)
    <3>1. \A c \in Category :
            Ordinary[c] \in Nat /\ [r |-> 0, cat |-> c, timer |-> FALSE] \in Msg
      BY RequestsConstants DEF Msg
    <3>2. \A m \in Msg, n \in Nat : [i \in 1..n |-> m] \in Seq(Msg)
      OBVIOUS
    <3> QED
      BY <3>1, <3>2, Zenon
  <2>2. queue \in [Category -> Seq(Msg)]
    BY <2>1, Zenon DEF Init
  <2>3. NoPromise \in Promise
    BY Zenon DEF NoPromise, Promise, Category
  <2>4. last \in 0..MaxRequests
    BY RequestsConstants DEF Init
  <2> QED
    BY <2>2, <2>3, <2>4 DEF Init, TypeOK
<1>2. \A c \in Category, r \in Reqs : Count(queue[c], r) = 0 /\ Count(cache[c], r) = 0
  <2> SUFFICES ASSUME NEW c \in Category, NEW r \in Reqs
               PROVE  Count(queue[c], r) = 0 /\ Count(cache[c], r) = 0
    BY Zenon
  <2>1. queue[c] \in Seq(Msg) /\ cache[c] = <<>>
    BY <1>1, Zenon DEF TypeOK, Init
  <2>2. \A i \in DOMAIN queue[c] : queue[c][i] = [r |-> 0, cat |-> c, timer |-> FALSE]
    BY Zenon DEF Init
  <2>3. r # 0
    BY RequestsConstants DEF Reqs
  <2>4. [r |-> 0, cat |-> c, timer |-> FALSE] \notin AnswersTo(r)
    BY <2>3, Zenon DEF AnswersTo
  <2>5. \A i \in DOMAIN queue[c] : queue[c][i] \notin AnswersTo(r)
    BY <2>2, <2>4, Zenon
  <2>6. Occurrences(queue[c], AnswersTo(r)) = 0
    BY <2>1, <2>5, OccZero, Zenon
  <2> QED
    BY <2>1, <2>6, CountType, Zenon DEF Count, AnswersTo
<1>3. ASSUME NEW r \in Reqs PROVE OneHolder(r)
  <2>1. Got(r) = 0
    <3>1. Unread(r) = 0 /\ Skipped(r) = 0
      BY <1>2 DEF Unread, Skipped, Category
    <3>2. Lost(r) = 0 /\ answered[r] = 0
      BY Zenon DEF Lost, Init
    <3> QED
      BY <3>1, <3>2 DEF Got
  <2>2. \A s \in Servers : HasOf(r)[s] = 0
    BY MailType DEF Init, HasOf, Has, Due, NoPromise
  <2>3. Sent(r) = 0
    BY RequestsConstants DEF Init, Reqs, Sent
  <2> QED
    BY <2>1, <2>2, <2>3, Zenon DEF OneHolder, Holders
<1>4. Held
  BY <1>3, Zenon DEF Held
<1>5. OneHandler
  <2>1. ASSUME NEW r \in Reqs
        PROVE  Handlers(r) <= IF r <= last THEN 1 ELSE 0
    <3>1. Mail(awaited, r) = 0
      BY MailType, Zenon DEF Init
    <3>2. Multiplexed(r) = 0 /\ handled[r] = 0
      BY RequestsConstants DEF Multiplexed, Init, Reqs
    <3> QED
      BY <3>1, <3>2 DEF Handlers
  <2> QED
    BY <2>1, Zenon DEF OneHandler, Init
<1> QED
  BY <1>1, <1>4, <1>5, Zenon DEF IInv

\* A step that changes nothing.
LEMMA Stutter ==
  ASSUME IInv, UNCHANGED vars
  PROVE  IInv'
<1>1. TypeOK' /\ \A r \in Reqs : Unread(r)' = Unread(r)
  BY Zenon DEF IInv, TypeOK, vars, Unread
<1> QED
  BY <1>1, Quiet, Zenon DEF IInv, vars

\* Every step of the client, the clock and the servers.
LEMMA StepInv == IInv /\ [Next]_vars => IInv'
<1> SUFFICES ASSUME IInv, [Next]_vars PROVE IInv'
  BY Zenon
<1>1. CASE UNCHANGED vars
  BY <1>1, Stutter, Zenon
<1>2. CASE Next
  <2>1. pc # "dead"
    BY <1>2, Zenon DEF Next
  <2>2. CASE Client
    <3>1. ASSUME NEW d \in Dest, NEW how \in {"then", "await"}, NEW f \in BOOLEAN,
                 NEW c \in Priorities, Request(d, how, f, c)
          PROVE  IInv'
      BY <2>1, <3>1, RequestStep, Zenon
    <3>2. ASSUME NEW c \in Category, Read(c) PROVE IInv'
      BY <3>2, ReadStep, Zenon
    <3> QED
      BY <2>2, <3>1, <3>2, EndHandlerStep, QuitStep, Zenon DEF Client
  <2>3. ASSUME NEW id \in timers, Fire(id) PROVE IInv'
    BY <2>1, <2>3, FireStep, Zenon
  <2>4. ASSUME NEW s \in Servers, Server(s) PROVE IInv'
    <3>1. CASE Handler(s)
      <4>1. ASSUME NEW n \in 1..2, MakePromise(s, n) PROVE IInv'
        BY <2>1, <4>1, MakePromiseStep, Zenon
      <4>2. ASSUME NEW made \in BOOLEAN, Throw(s, made) PROVE IInv'
        BY <2>1, <4>2, ThrowStep, Zenon
      <4>3. ASSUME Respond(s) PROVE IInv'
        BY <2>1, <4>3, RespondStep, Zenon
      <4> QED
        BY <3>1, <4>1, <4>2, <4>3, Zenon DEF Handler
    <3>2. CASE Terminate(s)
      BY <2>1, <3>2, CloseStep, Zenon DEF Terminate
    <3>3. ASSUME NEW r \in Reqs, Fulfil(s, r) PROVE IInv'
      BY <2>1, <3>3, FulfilStep, Zenon
    <3>4. ASSUME NEW r \in Reqs, Release(s, r) PROVE IInv'
      BY <2>1, <3>4, ReleaseStep, Zenon
    <3>5. ASSUME NEW r \in Reqs, NEW d \in Dest, NEW c \in DelegatePriorities,
                 Delegate(s, r, d, c)
          PROVE  IInv'
      BY <2>1, <3>5, DelegateStep, Zenon
    <3> QED
      BY <2>4, <3>1, <3>2, <3>3, <3>4, <3>5, Zenon DEF Server
  <2> QED
    BY <1>2, <2>2, <2>3, <2>4, Zenon DEF Next
<1> QED
  BY <1>1, <1>2, Zenon

\* The inductive invariant: the client or one server has a request, and a
\* handler is registered once or ran once.
THEOREM Invariant == Spec => []IInv
<1>1. Init => IInv
  BY InitInv, Zenon
<1>2. IInv /\ [Next]_vars => IInv'
  BY StepInv, Zenon
<1> QED
  BY <1>1, <1>2, PTL DEF Spec

\* The handler of a request never runs twice, however the answer, the timeout
\* and skipped messages interleave (scheduled_actor::consume).
THEOREM HandlerRunsOnce == Spec => []HandledOnce
<1>1. IInv => HandledOnce
  <2> SUFFICES ASSUME IInv, NEW r \in Reqs PROVE handled[r] <= 1
    BY Zenon DEF HandledOnce
  <2>1. Mail(awaited, r) \in Nat /\ Multiplexed(r) \in {0, 1} /\ handled[r] \in Nat
    BY HandlersAreNat, Zenon DEF IInv
  <2>2. Handlers(r) <= IF r <= last THEN 1 ELSE 0
    BY Zenon DEF IInv, OneHandler
  <2> QED
    BY <2>1, <2>2 DEF Handlers
<1> QED
  BY <1>1, Invariant, PTL

\* The places that OneAnswer counts: unread requests and pending promises.
At(s, r) == {k \in DOMAIN smail[s] : smail[s][k].r = r}
Mails(r) == UNION {{<<s, i>> : i \in At(s, r)} : s \in Servers}
Owed(r) == {s \in Servers : promise[s][r].self}

\* A server that counts one request has it at one position.
LEMMA MailPlaces ==
  ASSUME TypeOK, NEW r \in Reqs, NEW s \in Servers
  PROVE  /\ Mail(smail[s], r) = 0 => At(s, r) = {}
         /\ Mail(smail[s], r) = 1 => \E k : At(s, r) = {k}
         /\ Due(s, r) = IF s \in Owed(r) THEN 1 ELSE 0
<1>1. smail[s] \in Seq(Ids) /\ \A k \in DOMAIN smail[s] : smail[s][k] \in Ids
  BY ElementOfSeq DEF TypeOK
<1>2. At(s, r) = {k \in DOMAIN smail[s] : smail[s][k] \in IdsOf(r)}
  BY <1>1, IdSet, Zenon DEF At
<1>3. ASSUME Mail(smail[s], r) = 0 PROVE At(s, r) = {}
  <2>1. \A k \in DOMAIN smail[s] : smail[s][k] \notin IdsOf(r)
    BY <1>1, <1>3, OccZero, Zenon DEF Mail
  <2> QED
    BY <1>2, <2>1, Zenon
<1>4. ASSUME Mail(smail[s], r) = 1 PROVE \E k : At(s, r) = {k}
  <2>1. \E k \in DOMAIN smail[s] : {i \in DOMAIN smail[s] : smail[s][i] \in IdsOf(r)} = {k}
    BY <1>1, <1>4, OccOne DEF Mail
  <2> QED
    BY <1>2, <2>1, Zenon
<1> QED
  BY <1>3, <1>4, Zenon DEF Due, Owed

\* Nobody else has a request that server s has: it is its only place.
LEMMA HolderPlaces ==
  ASSUME TypeOK, NEW r \in Reqs, NEW s \in Servers, Has(s, r) = 1,
         \A t \in Servers \ {s} : Has(t, r) = 0
  PROVE  \/ Cardinality(Mails(r)) = 1 /\ Cardinality(Owed(r)) = 0
         \/ Cardinality(Mails(r)) = 0 /\ Cardinality(Owed(r)) = 1
<1>1. Cardinality({}) = 0 /\ \A x : Cardinality({x}) = 1
  BY FS_EmptySet, FS_Singleton, Zenon
<1>2. \A t \in Servers \ {s} : At(t, r) = {} /\ t \notin Owed(r)
  <2>1. \A t \in Servers \ {s} : Mail(smail[t], r) = 0 /\ Due(t, r) = 0
    BY CountsAreNat DEF Has
  <2> QED
    BY <2>1, MailPlaces, Zenon
<1>3. CASE Mail(smail[s], r) = 1 /\ Due(s, r) = 0
  <2>1. PICK k : At(s, r) = {k} /\ s \notin Owed(r)
    BY <1>3, MailPlaces, Zenon
  <2>2. Mails(r) = {<<s, k>>} /\ Owed(r) = {}
    BY <1>2, <2>1 DEF Mails, Owed
  <2> QED
    BY <1>1, <2>2, Zenon
<1>4. CASE Mail(smail[s], r) = 0 /\ Due(s, r) = 1
  <2>1. At(s, r) = {} /\ s \in Owed(r)
    BY <1>4, MailPlaces, Zenon
  <2>2. Mails(r) = {} /\ Owed(r) = {s}
    BY <1>2, <2>1 DEF Mails, Owed
  <2> QED
    BY <1>1, <2>2, Zenon
<1> QED
  BY <1>3, <1>4, CountsAreNat DEF Has

\* A request that no server has is in no place of theirs.
LEMMA NoPlaces ==
  ASSUME TypeOK, NEW r \in Reqs, \A t \in Servers : Has(t, r) = 0
  PROVE  Cardinality(Mails(r)) = 0 /\ Cardinality(Owed(r)) = 0
<1>1. \A t \in Servers : Mail(smail[t], r) = 0 /\ Due(t, r) = 0
  BY CountsAreNat DEF Has
<1>2. \A t \in Servers : At(t, r) = {} /\ t \notin Owed(r)
  BY <1>1, MailPlaces, Zenon
<1>3. Mails(r) = {} /\ Owed(r) = {}
  BY <1>2, Zenon DEF Mails, Owed
<1> QED
  BY <1>3, FS_EmptySet, Zenon

\* A request that one server or the client has is in one place.
LEMMA HolderIsOnePlace ==
  ASSUME TypeOK, NEW r \in Reqs, r <= last, OneHolder(r)
  PROVE  AnswersOf(r) = 1
<1>1. \/ Got(r) = 1 /\ \A s \in Servers : Has(s, r) = 0
      \/ Got(r) = 0 /\ \E s \in Servers : /\ Has(s, r) = 1
                                          /\ \A t \in Servers \ {s} : Has(t, r) = 0
  BY Zenon DEF OneHolder, Sent, Holders, Alone, HasOf
<1>2. \/ Got(r) = 1 /\ Cardinality(Mails(r)) = 0 /\ Cardinality(Owed(r)) = 0
      \/ Got(r) = 0 /\ Cardinality(Mails(r)) = 1 /\ Cardinality(Owed(r)) = 0
      \/ Got(r) = 0 /\ Cardinality(Mails(r)) = 0 /\ Cardinality(Owed(r)) = 1
  BY <1>1, HolderPlaces, NoPlaces, Zenon
<1>3. AnswersOf(r) = Cardinality(Mails(r)) + Cardinality(Owed(r))
                     + Count(queue["normal"], r) + Count(queue["urgent"], r)
                     + Count(cache["normal"], r) + Count(cache["urgent"], r)
                     + answered[r] + Lost(r)
  BY Zenon DEF AnswersOf, Mails, At, Owed, Lost
<1>4. /\ Count(queue["normal"], r) \in Nat /\ Count(queue["urgent"], r) \in Nat
      /\ Count(cache["normal"], r) \in Nat /\ Count(cache["urgent"], r) \in Nat
      /\ answered[r] \in Nat /\ Lost(r) \in {0, 1}
  BY CountType, CountsAreNat, Zenon DEF TypeOK, Category
<1> QED
  BY <1>2, <1>3, <1>4 DEF Got, Unread, Skipped

\* Every request has exactly one answer on its way until the client read it:
\* none is lost and none is answered twice, whichever way promises, delegation,
\* exceptions and closed mailboxes take it.
THEOREM ExactlyOneAnswer == Spec => []OneAnswer
<1>1. IInv => OneAnswer
  <2> SUFFICES ASSUME IInv, pc # "dead", NEW r \in 1..last PROVE AnswersOf(r) = 1
    BY Zenon DEF OneAnswer
  <2>1. r \in Reqs /\ r <= last
    BY RequestsConstants DEF IInv, TypeOK, Reqs
  <2> QED
    BY <2>1, HolderIsOnePlace, Zenon DEF IInv, Held
<1> QED
  BY <1>1, Invariant, PTL
=============================================================================
