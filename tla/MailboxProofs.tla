--------------------------- MODULE MailboxProofs ---------------------------
(***************************************************************************)
(* The mailbox of ScheduledActor as one ordered list per priority: what    *)
(* the inbox, the queues and the caches hold together only changes by      *)
(* messages that arrive at the end, that leave, or that are discarded all  *)
(* at once.  Order and exactly-once handling follow from that, for any     *)
(* number of senders, workers and messages.                                *)
(***************************************************************************)
EXTENDS ScheduledActorProofs, SequenceTheorems

-----------------------------------------------------------------------------
(* Sequences. *)

\* q without its element at position k.
Removed(q, k) == [i \in 1..Len(q) - 1 |-> IF i < k THEN q[i] ELSE q[i + 1]]

\* Pushing to the newest-first inbox appends to the list in reading order.
LEMMA PushAppends ==
  ASSUME NEW S, NEW q \in Seq(S), NEW m \in S
  PROVE  OldestFirst(<<m>> \o q) = Append(OldestFirst(q), m)
<1> DEFINE l == OldestFirst(<<m>> \o q)
           r == Append(OldestFirst(q), m)
<1>1. OldestFirst(q) \in Seq(S) /\ Len(OldestFirst(q)) = Len(q)
  BY DEF OldestFirst
<1>2. <<m>> \o q \in Seq(S) /\ Len(<<m>> \o q) = Len(q) + 1
  OBVIOUS
<1>3. l \in Seq(S) /\ r \in Seq(S) /\ Len(l) = Len(q) + 1 /\ Len(r) = Len(q) + 1
  BY <1>1, <1>2 DEF OldestFirst
<1>4. ASSUME NEW i \in 1..Len(q) + 1 PROVE l[i] = r[i]
  <2>1. l[i] = (<<m>> \o q)[(Len(q) + 1 - i) + 1]
    BY <1>2 DEF OldestFirst
  <2>2. CASE i = Len(q) + 1
    BY <1>1, <2>1, <2>2
  <2>3. CASE i # Len(q) + 1
    <3>1. r[i] = OldestFirst(q)[i] /\ i \in 1..Len(q)
      BY <1>1, <2>3
    <3>2. OldestFirst(q)[i] = q[(Len(q) - i) + 1]
      BY <3>1, Zenon DEF OldestFirst
    <3>3. (<<m>> \o q)[(Len(q) + 1 - i) + 1] = q[(Len(q) - i) + 1]
      BY <3>1
    <3> QED
      BY <2>1, <3>1, <3>2, <3>3, Zenon
  <2> QED
    BY <2>2, <2>3, ZenonT(30)
<1> QED
  BY <1>3, <1>4, SeqEqual, ZenonT(30)

\* Nothing to reverse.
LEMMA EmptyReversed == OldestFirst(<<>>) = <<>>
BY DEF OldestFirst

\* Reversing a list keeps its elements.
LEMMA ReverseRange ==
  ASSUME NEW S, NEW q \in Seq(S)
  PROVE  Range(OldestFirst(q)) = Range(q)
<1> DEFINE n == Len(q)
<1>1. DOMAIN OldestFirst(q) = 1..n /\ DOMAIN q = 1..n /\ n \in Nat
  BY DEF OldestFirst
<1>2. ASSUME NEW i \in 1..n
      PROVE  /\ (n - i) + 1 \in 1..n
             /\ OldestFirst(q)[i] = q[(n - i) + 1]
             /\ OldestFirst(q)[(n - i) + 1] = q[i]
  <2>1. (n - i) + 1 \in 1..n /\ (n - ((n - i) + 1)) + 1 = i
    BY <1>1
  <2> QED
    BY <2>1, Zenon DEF OldestFirst
<1>3. Range(OldestFirst(q)) \subseteq Range(q)
  BY <1>1, <1>2, Zenon DEF Range
<1>4. Range(q) \subseteq Range(OldestFirst(q))
  BY <1>1, <1>2, Zenon DEF Range
<1> QED
  BY <1>3, <1>4, ZenonT(30)

\* The elements of three lists in a row.
LEMMA RangeOfThree ==
  ASSUME NEW S, NEW p \in Seq(S), NEW q \in Seq(S), NEW r \in Seq(S)
  PROVE  /\ p \o q \o r \in Seq(S)
         /\ Range(p \o q \o r) = Range(p) \cup Range(q) \cup Range(r)
<1>0. p \o q \in Seq(S)
  OBVIOUS
<1>1. PICK pq \in Seq(S) : pq = p \o q
  BY <1>0, Zenon
<1>2. Range(pq) = Range(p) \cup Range(q)
  BY <1>1, RangeConcatenation
<1>3. Range(pq \o r) = Range(pq) \cup Range(r)
  BY RangeConcatenation
<1> QED
  BY <1>1, <1>2, <1>3

\* Appending to the last of three lists.
LEMMA AppendToThird ==
  ASSUME NEW S, NEW p \in Seq(S), NEW q \in Seq(S), NEW r \in Seq(S), NEW m \in S
  PROVE  p \o q \o Append(r, m) = Append(p \o q \o r, m)
<1>0. p \o q \in Seq(S)
  OBVIOUS
<1>1. PICK pq \in Seq(S) : pq = p \o q
  BY <1>0, Zenon
<1>2. pq \o Append(r, m) = Append(pq \o r, m)
  OBVIOUS
<1> QED
  BY <1>1, <1>2, Zenon

\* Moving the first element of the queue to the end of the cache.
LEMMA SkipKeepsOrder ==
  ASSUME NEW S, NEW p \in Seq(S), NEW q \in Seq(S), q # <<>>
  PROVE  Append(p, Head(q)) \o Tail(q) = p \o q
OBVIOUS

\* Putting the cache back in front of the queue without its first element.
LEMMA FlushRemoves ==
  ASSUME NEW S, NEW p \in Seq(S), NEW q \in Seq(S), NEW r \in Seq(S), q # <<>>
  PROVE  /\ (p \o Tail(q)) \o r = Removed((p \o q) \o r, Len(p) + 1)
         /\ Len(p) + 1 \in 1..Len((p \o q) \o r)
         /\ ((p \o q) \o r)[Len(p) + 1] = Head(q)
<1> DEFINE l == (p \o Tail(q)) \o r
           a == (p \o q) \o r
           n == Len(p) + Len(q) + Len(r)
<1>1. /\ Tail(q) \in Seq(S) /\ Len(Tail(q)) = Len(q) - 1 /\ Len(q) > 0
      /\ \A i \in 1..Len(q) - 1 : Tail(q)[i] = q[i + 1]
      /\ Head(q) = q[1]
  OBVIOUS
<1>2. a \in Seq(S) /\ Len(a) = n
  OBVIOUS
<1>3. l \in Seq(S) /\ Len(l) = n - 1
  BY <1>1
<1>4. ASSUME NEW i \in 1..n - 1
      PROVE  l[i] = IF i < Len(p) + 1 THEN a[i] ELSE a[i + 1]
  BY <1>1
<1>5. Removed(a, Len(p) + 1) \in Seq(S) /\ Len(Removed(a, Len(p) + 1)) = n - 1
  BY <1>1, <1>2 DEF Removed
<1>6. \A i \in 1..n - 1 : l[i] = Removed(a, Len(p) + 1)[i]
  BY <1>2, <1>4, Zenon DEF Removed
<1>7. l = Removed(a, Len(p) + 1)
  BY <1>3, <1>5, <1>6, SeqEqual, ZenonT(30)
<1> QED
  BY <1>1, <1>2, <1>7

\* Moving the inbox to the end of the queue.
LEMMA FetchKeepsOrder ==
  ASSUME NEW S, NEW p \in Seq(S), NEW q \in Seq(S), NEW r \in Seq(S)
  PROVE  p \o (q \o r) \o <<>> = p \o q \o r
<1>0. p \o q \in Seq(S) /\ q \o r \in Seq(S)
  OBVIOUS
<1>1. PICK qr \in Seq(S) : qr = q \o r
  BY <1>0, Zenon
<1>2. p \o qr \in Seq(S) /\ p \o qr \o <<>> = p \o qr
  OBVIOUS
<1>3. p \o (q \o r) = p \o q \o r
  OBVIOUS
<1> QED
  BY <1>1, <1>2, <1>3, Zenon

-----------------------------------------------------------------------------
(* The mailbox as one list per priority. *)

Box == [c \in Category |-> InOrder(c)]

\* A message that sender s sends now.
Fresh(s, m) == /\ m \in Msg /\ m.src = s /\ m.seq = sent[s] + 1
               /\ m.kind = "resp" => ~m.request
               /\ sent' = [sent EXCEPT ![s] = @ + 1]

\* The mailbox and the fate of its messages do not change.
Same == Box' = Box /\ UNCHANGED <<sent, handled, bounced, dropped>>

\* A new message goes to the end of its list.
Arrive == \E s \in Senders, m \in Msg :
            /\ Fresh(s, m)
            /\ Box' = [Box EXCEPT ![m.cat] = Append(@, m)]
            /\ UNCHANGED <<handled, bounced, dropped>>

\* A new message meets a closed mailbox.
Reject == \E s \in Senders, m \in Msg :
            /\ Fresh(s, m)
            /\ Discard({m})
            /\ Box' = Box /\ handled' = handled

\* One message leaves its list and is handled, or is an unexpected response.
Leave == \E c \in Category : \E k \in 1..Len(Box[c]) :
           /\ Box' = [Box EXCEPT ![c] = Removed(@, k)]
           /\ \/ /\ handled' = handled \cup {Box[c][k]}
                 /\ UNCHANGED dropped
              \/ /\ Box[c][k].kind = "resp"
                 /\ dropped' = dropped \cup {Box[c][k]}
                 /\ UNCHANGED handled
           /\ UNCHANGED <<sent, bounced>>

\* All messages are bounced or dropped.
Drain == Box' = NoMsgs /\ Discard(Unread) /\ UNCHANGED <<sent, handled>>

MailboxStep == Same \/ Arrive \/ Reject \/ Leave \/ Drain

\* What the mailbox holds is in one of its lists.
LEMMA UnreadIsBox ==
  ASSUME TypeOK
  PROVE  /\ Box \in [Category -> Seq(Msg)]
         /\ Unread = UNION {Range(Box[c]) : c \in Category}
<1>1. ASSUME NEW c \in Category
      PROVE  /\ InOrder(c) \in Seq(Msg)
             /\ Range(InOrder(c)) = Range(cache[c]) \cup Range(queue[c]) \cup Range(stack[c])
  <2>1. /\ cache[c] \in Seq(Msg) /\ queue[c] \in Seq(Msg) /\ stack[c] \in Seq(Msg)
        /\ OldestFirst(stack[c]) \in Seq(Msg)
    BY OldestFirstType, Zenon DEF TypeOK
  <2>2. Range(OldestFirst(stack[c])) = Range(stack[c])
    BY <2>1, ReverseRange, Zenon
  <2> QED
    BY <2>1, <2>2, RangeOfThree DEF InOrder
<1>2. Box \in [Category -> Seq(Msg)]
  BY <1>1, Zenon DEF Box
<1>3. \A c \in Category : Box[c] = InOrder(c)
  BY Zenon DEF Box
<1> QED
  BY <1>1, <1>2, <1>3 DEF Unread, MsgsOf

\* Parts that do not change make up the same lists.
LEMMA BoxUnchanged ==
  ASSUME UNCHANGED <<stack, queue, cache>>
  PROVE  Box' = Box
BY Zenon DEF Box, InOrder

\* Nothing is left in any part.
LEMMA BoxEmptied ==
  ASSUME stack' = NoMsgs, queue' = NoMsgs, cache' = NoMsgs
  PROVE  Box' = NoMsgs
<1>1. ASSUME NEW c \in Category PROVE InOrder(c)' = <<>>
  <2>1. stack'[c] = <<>> /\ queue'[c] = <<>> /\ cache'[c] = <<>>
    BY Zenon DEF NoMsgs
  <2>2. OldestFirst(stack'[c]) = <<>>
    BY <2>1, EmptyReversed, Zenon
  <2>3. InOrder(c)' = cache'[c] \o queue'[c] \o OldestFirst(stack'[c])
    BY Zenon DEF InOrder
  <2>4. InOrder(c)' = <<>> \o <<>> \o <<>>
    BY <2>1, <2>2, <2>3, Zenon
  <2> QED
    BY <2>4
<1> QED
  BY <1>1, Zenon DEF Box, NoMsgs

\* The lists of c and of all other priorities, part by part.
LEMMA BoxParts ==
  ASSUME TypeOK, NEW c \in Category
  PROVE  /\ Box[c] = cache[c] \o queue[c] \o OldestFirst(stack[c])
         /\ cache[c] \in Seq(Msg) /\ queue[c] \in Seq(Msg) /\ stack[c] \in Seq(Msg)
         /\ OldestFirst(stack[c]) \in Seq(Msg)
BY OldestFirstType, Zenon DEF Box, InOrder, TypeOK

\* enqueue appends to the mailbox or bounces.
LEMMA EnqueueStep ==
  ASSUME TypeOK, NEW s \in Senders, NEW p \in Payloads, Enqueue(s, p)
  PROVE  Arrive \/ Reject
<1> DEFINE m == [src |-> s, seq |-> sent[s] + 1, cat |-> p.cat, kind |-> p.kind,
                 request |-> p.request]
<1>1. m \in Msg /\ Fresh(s, m) /\ m.cat \in Category
  BY PayloadsTyped, MaxSendsNat DEF TypeOK, Msg, Fresh, Enqueue
<1> HIDE DEF m
<1>2. CASE PushFront(m) /\ UNCHANGED <<bounced, dropped>>
  <2>1. UNCHANGED <<queue, cache, handled, bounced, dropped>>
    BY <1>2, Zenon DEF Enqueue
  <2>2. ASSUME NEW c \in Category
        PROVE  InOrder(c)' = IF c = m.cat THEN Append(InOrder(c), m) ELSE InOrder(c)
    <3>1. stack'[c] = IF c = m.cat THEN <<m>> \o stack[c] ELSE stack[c]
      BY <1>1, <1>2, Zenon DEF PushFront, TypeOK
    <3>2. CASE c # m.cat
      BY <2>1, <3>1, <3>2, ZenonT(30) DEF InOrder
    <3>3. CASE c = m.cat
      <4>0. /\ cache[c] \in Seq(Msg) /\ queue[c] \in Seq(Msg)
            /\ stack[c] \in Seq(Msg) /\ OldestFirst(stack[c]) \in Seq(Msg)
        BY BoxParts, ZenonT(30)
      <4>1. OldestFirst(stack'[c]) = Append(OldestFirst(stack[c]), m)
        BY <1>1, <3>1, <3>3, <4>0, PushAppends, Zenon
      <4>2. InOrder(c)' = cache'[c] \o queue'[c] \o OldestFirst(stack'[c])
        BY Zenon DEF InOrder
      <4>3. cache'[c] = cache[c] /\ queue'[c] = queue[c]
        BY <2>1, Zenon
      <4>4. cache[c] \o queue[c] \o Append(OldestFirst(stack[c]), m)
              = Append(cache[c] \o queue[c] \o OldestFirst(stack[c]), m)
        <5>1. \A x, y, z \in Seq(Msg) : x \o y \o Append(z, m) = Append(x \o y \o z, m)
          BY <1>1, AppendToThird
        <5> QED
          BY <4>0, <5>1, Zenon
      <4>5. InOrder(c) = cache[c] \o queue[c] \o OldestFirst(stack[c])
        BY Zenon DEF InOrder
      <4>6. InOrder(c)' = Append(InOrder(c), m)
        BY <4>1, <4>2, <4>3, <4>4, <4>5, Zenon
      <4> QED
        BY <3>3, <4>6, Zenon
    <3> QED
      BY <3>2, <3>3, Zenon
  <2>3. Box' = [Box EXCEPT ![m.cat] = Append(@, m)]
    BY <1>1, <2>2, ZenonT(30) DEF Box
  <2> QED
    BY <1>1, <2>1, <2>3, ZenonT(30) DEF Arrive
<1>3. CASE tag = "closed" /\ Discard({m}) /\ UNCHANGED <<tag, stack, spc>>
  <2>1. Box' = Box
    BY <1>3, BoxUnchanged, Zenon DEF Enqueue
  <2> QED
    BY <1>1, <1>3, <2>1, ZenonT(30) DEF Reject, Enqueue
<1> QED
  BY <1>2, <1>3, Zenon DEF Enqueue, m

\* The last reference may drain the mailbox.
LEMMA ReleaseRefStep ==
  ASSUME TypeOK, ReleaseRef, UNCHANGED <<sent, handled>>
  PROVE  Same \/ Drain
<1>1. CASE strong = 1 /\ ~terminated
  BY <1>1, BoxEmptied, Zenon DEF ReleaseRef, Drain
<1>2. CASE ~(strong = 1 /\ ~terminated)
  <2>1. UNCHANGED <<stack, queue, cache, bounced, dropped>>
    BY <1>2, Zenon DEF ReleaseRef
  <2> QED
    BY <2>1, BoxUnchanged, Zenon DEF Same
<1> QED
  BY <1>1, <1>2, Zenon

\* fetch_more keeps the order of the mailbox.
LEMMA FetchStep ==
  ASSUME TypeOK, NEW w \in Workers, Fetch(w)
  PROVE  Same
<1>1. ASSUME NEW c \in Category PROVE InOrder(c)' = InOrder(c)
  <2>1. /\ cache'[c] = cache[c]
        /\ queue'[c] = queue[c] \o OldestFirst(stack[c])
        /\ stack'[c] = <<>>
    BY ZenonT(30) DEF Fetch, TakeHead, NoMsgs
  <2>2. OldestFirst(stack'[c]) = <<>>
    BY <2>1, EmptyReversed, Zenon
  <2>3. InOrder(c)' = cache[c] \o (queue[c] \o OldestFirst(stack[c])) \o <<>>
    BY <2>1, <2>2, Zenon DEF InOrder
  <2>4. /\ cache[c] \in Seq(Msg) /\ queue[c] \in Seq(Msg)
        /\ OldestFirst(stack[c]) \in Seq(Msg)
    BY BoxParts, ZenonT(30)
  <2>5. \A x, y, z \in Seq(Msg) : x \o (y \o z) \o <<>> = x \o y \o z
    BY FetchKeepsOrder
  <2> QED
    BY <2>3, <2>4, <2>5, ZenonT(60) DEF InOrder
<1>2. Box' = Box
  BY <1>1, Zenon DEF Box
<1> QED
  BY <1>2, Zenon DEF Same, Fetch, senderVars, outVars

\* Skipping keeps the order of the mailbox.
LEMMA SkipStep ==
  ASSUME TypeOK, NEW w \in Workers, NEW c \in Category, Skip(w, c)
  PROVE  Same
<1>1. ASSUME NEW d \in Category PROVE InOrder(d)' = InOrder(d)
  <2>1. stack' = stack
    BY Zenon DEF Skip
  <2>2. CASE d # c
    <3>1. queue'[d] = queue[d] /\ cache'[d] = cache[d]
      BY <2>2, Zenon DEF Skip, TypeOK
    <3> QED
      BY <2>1, <3>1, Zenon DEF InOrder
  <2>3. CASE d = c
    <3>1. queue'[c] = Tail(queue[c]) /\ cache'[c] = Append(cache[c], Head(queue[c]))
      BY Zenon DEF Skip, TypeOK
    <3>2. queue[c] # <<>> /\ cache[c] \in Seq(Msg) /\ queue[c] \in Seq(Msg)
      BY BoxParts, ZenonT(30) DEF Skip, HasNext
    <3>3. Append(cache[c], Head(queue[c])) \o Tail(queue[c]) = cache[c] \o queue[c]
      BY <3>2, SkipKeepsOrder, ZenonT(30)
    <3> QED
      BY <2>1, <2>3, <3>1, <3>3, Zenon DEF InOrder
  <2> QED
    BY <2>2, <2>3, Zenon
<1>2. Box' = Box
  BY <1>1, Zenon DEF Box
<1> QED
  BY <1>2, Zenon DEF Same, Skip, senderVars, outVars

\* The position of the message that the round of queue c looks at.
Position(c) == Len(cache[c]) + 1

\* Taking the first message of queue c, with its cache flushed or left alone,
\* removes one message from the mailbox.
LEMMA HeadRemoved ==
  ASSUME TypeOK, NEW c \in Category, queue[c] # <<>>, stack' = stack,
         \/ /\ queue' = [queue EXCEPT ![c] = cache[c] \o Tail(@)]
            /\ cache' = [cache EXCEPT ![c] = <<>>]
         \/ /\ queue' = [queue EXCEPT ![c] = Tail(@)]
            /\ cache' = cache
  PROVE  /\ Box' = [Box EXCEPT ![c] = Removed(@, Position(c))]
         /\ Position(c) \in 1..Len(Box[c])
         /\ Box[c][Position(c)] = Head(queue[c])
<1>1. /\ cache[c] \in Seq(Msg) /\ queue[c] \in Seq(Msg)
      /\ OldestFirst(stack[c]) \in Seq(Msg)
      /\ Box[c] = cache[c] \o queue[c] \o OldestFirst(stack[c])
  BY BoxParts, ZenonT(30)
<1>2. \A p, q, r \in Seq(Msg) : q # <<>>
         => /\ (p \o Tail(q)) \o r = Removed((p \o q) \o r, Len(p) + 1)
            /\ Len(p) + 1 \in 1..Len((p \o q) \o r)
            /\ ((p \o q) \o r)[Len(p) + 1] = Head(q)
  BY FlushRemoves, ZenonT(30)
<1>3. /\ cache[c] \o Tail(queue[c]) \o OldestFirst(stack[c]) = Removed(Box[c], Position(c))
      /\ Position(c) \in 1..Len(Box[c])
      /\ Box[c][Position(c)] = Head(queue[c])
  <2>1. PICK p, q, r \in Seq(Msg) :
          p = cache[c] /\ q = queue[c] /\ r = OldestFirst(stack[c])
    BY <1>1, Zenon
  <2>2. Box[c] = (p \o q) \o r /\ Position(c) = Len(p) + 1 /\ q # <<>>
    BY <1>1, <2>1, Zenon DEF Position
  <2>3. /\ (p \o Tail(q)) \o r = Removed((p \o q) \o r, Len(p) + 1)
        /\ Len(p) + 1 \in 1..Len((p \o q) \o r)
        /\ ((p \o q) \o r)[Len(p) + 1] = Head(q)
    BY <1>2, <2>2, Zenon
  <2>4. (p \o Tail(q)) \o r = Removed(Box[c], Position(c))
    BY <2>2, <2>3, Zenon
  <2>5. cache[c] \o Tail(queue[c]) \o OldestFirst(stack[c]) = (p \o Tail(q)) \o r
    BY <2>1, Zenon
  <2>6. /\ Position(c) \in 1..Len(Box[c])
        /\ Box[c][Position(c)] = Head(q)
    BY <2>2, <2>3, Zenon
  <2> QED
    BY <2>1, <2>4, <2>5, <2>6, Zenon
<1>4. InOrder(c)' = Removed(Box[c], Position(c))
  <2>1. CASE /\ queue' = [queue EXCEPT ![c] = cache[c] \o Tail(@)]
             /\ cache' = [cache EXCEPT ![c] = <<>>]
    <3>1. queue'[c] = cache[c] \o Tail(queue[c]) /\ cache'[c] = <<>>
      BY <2>1, Zenon DEF TypeOK
    <3>2. cache[c] \o Tail(queue[c]) \in Seq(Msg)
      BY <1>1
    <3>3. \A x \in Seq(Msg) : <<>> \o x = x
      OBVIOUS
    <3>4. <<>> \o (cache[c] \o Tail(queue[c])) = cache[c] \o Tail(queue[c])
      BY <3>2, <3>3, Zenon
    <3> QED
      BY <1>3, <3>1, <3>4, Zenon DEF InOrder
  <2>2. CASE /\ queue' = [queue EXCEPT ![c] = Tail(@)]
             /\ cache' = cache
    <3>1. queue'[c] = Tail(queue[c])
      BY <2>2, Zenon DEF TypeOK
    <3> QED
      BY <1>3, <2>2, <3>1, Zenon DEF InOrder
  <2> QED
    BY <2>1, <2>2, ZenonT(30)
<1>5. ASSUME NEW d \in Category, d # c PROVE InOrder(d)' = InOrder(d)
  <2>1. queue'[d] = queue[d] /\ cache'[d] = cache[d]
    BY <1>5, Zenon DEF TypeOK
  <2> QED
    BY <2>1, Zenon DEF InOrder
<1>6. Box' = [Box EXCEPT ![c] = Removed(@, Position(c))]
  <2>1. Box[c] = InOrder(c)
    BY Zenon DEF Box
  <2>2. PICK r : r = Removed(Box[c], Position(c))
    BY Zenon
  <2>3. Box' = [Box EXCEPT ![c] = r]
    BY <1>4, <1>5, <2>2, ZenonT(30) DEF Box
  <2> QED
    BY <2>2, <2>3, Zenon
<1> QED
  BY <1>3, <1>6, Zenon

\* A message that was read leaves the mailbox.
LEMMA ReadStep ==
  ASSUME TypeOK, NEW w \in Workers, NEW c \in Category,
         Consume(w, c) \/ Drop(w, c) \/ Quit(w, c)
  PROVE  Leave
<1>1. /\ queue[c] # <<>> /\ stack' = stack /\ UNCHANGED <<sent, bounced>>
      /\ \/ /\ queue' = [queue EXCEPT ![c] = cache[c] \o Tail(@)]
            /\ cache' = [cache EXCEPT ![c] = <<>>]
         \/ /\ queue' = [queue EXCEPT ![c] = Tail(@)]
            /\ cache' = cache
  BY ZenonT(30) DEF Consume, Drop, Quit, FlushAfter, HasNext, senderVars
<1>2. \/ handled' = handled \cup {Head(queue[c])} /\ UNCHANGED dropped
      \/ /\ Head(queue[c]).kind = "resp"
         /\ dropped' = dropped \cup {Head(queue[c])}
         /\ UNCHANGED handled
  BY Zenon DEF Consume, Drop, Quit, Drops
<1>3. /\ Box' = [Box EXCEPT ![c] = Removed(@, Position(c))]
      /\ Position(c) \in 1..Len(Box[c])
      /\ Box[c][Position(c)] = Head(queue[c])
  BY <1>1, HeadRemoved, ZenonT(30)
<1> QED
  BY <1>1, <1>2, <1>3, ZenonT(30) DEF Leave

\* Every step of the actor, of its senders and of the workers is a step of the
\* mailbox, and most of them leave it alone.
LEMMA StepOfMailbox ==
  ASSUME TypeOK, [Next]_vars
  PROVE  MailboxStep
<1> USE DEF MailboxStep
<1>1. CASE UNCHANGED vars
  BY <1>1, BoxUnchanged, Zenon DEF vars, Same
<1>2. ASSUME NEW s \in Senders, SenderStep(s) PROVE MailboxStep
  <2>1. CASE \E p \in Payloads : Enqueue(s, p)
    BY <2>1, EnqueueStep, Zenon
  <2>2. CASE Wake(s)
    BY <2>2, BoxUnchanged, Zenon DEF Wake, Same, actorVars, outVars
  <2>3. CASE DropHandle(s)
    BY <2>3, ReleaseRefStep, Zenon DEF DropHandle
  <2> QED
    BY <1>2, <2>1, <2>2, <2>3, Zenon DEF SenderStep
<1>3. ASSUME NEW w \in Workers, WorkerStep(w) PROVE MailboxStep
  <2>1. CASE \/ Dequeue(w) \/ Activate(w) \/ Exhausted(w) \/ BeginNormal(w)
             \/ (\E c \in Category : EndRound(w, c)) \/ Terminate(w) \/ Check(w)
             \/ Block(w) \/ Finalize(w) \/ BlockLate(w)
    <3>1. UNCHANGED <<stack, queue, cache, sent, handled, bounced, dropped>>
      BY <2>1, ZenonT(30) DEF Dequeue, Activate, Exhausted, BeginNormal, EndRound, Terminate,
                  Check, Block, Finalize, BlockLate, TryBlock, actorVars,
                  senderVars, outVars
    <3> QED
      BY <3>1, BoxUnchanged, Zenon DEF Same
  <2>2. CASE Fetch(w)
    BY <2>2, FetchStep, Zenon
  <2>3. ASSUME NEW c \in Category, Consume(w, c) \/ Drop(w, c) \/ Quit(w, c)
        PROVE  MailboxStep
    BY <2>3, ReadStep, Zenon
  <2>4. ASSUME NEW c \in Category, Skip(w, c) PROVE MailboxStep
    BY <2>4, SkipStep, Zenon
  <2>5. CASE Close(w)
    BY <2>5, BoxEmptied, Zenon DEF Close, CloseInbox, Drain, senderVars
  <2>6. CASE Release(w)
    BY <2>6, ReleaseRefStep, Zenon DEF Release, senderVars
  <2> QED
    BY <1>3, <2>1, <2>2, <2>3, <2>4, <2>5, <2>6, Zenon DEF WorkerStep, RoundStep
<1> QED
  BY <1>1, <1>2, <1>3, Zenon DEF Next

\* Whatever the threads do, the mailbox behaves like one list per priority that
\* only grows at its end: enqueue appends, the rounds take out one message at a
\* time, moving messages from the inbox to the queues and to the caches of
\* skipped ones and back changes nothing, and cleanup takes out everything.
THEOREM OrderedMailbox == Spec => [][MailboxStep]_vars
<1>1. TypeOK /\ [Next]_vars => [MailboxStep]_vars
  BY StepOfMailbox, Zenon
<1> QED
  BY <1>1, TypeCorrect, PTL DEF Spec

-----------------------------------------------------------------------------
(* What the steps of the mailbox keep true of its lists (box), of how many    *)
(* messages each sender sent (sn), and of the messages that were handled (h), *)
(* bounced (b) and dropped (d).                                               *)

\* Each list has the messages of a sender in the order in which it sent them.
Ordered(box) ==
  \A c \in Category : \A i, j \in 1..Len(box[c]) :
    i < j /\ box[c][i].src = box[c][j].src => box[c][i].seq < box[c][j].seq

\* Messages are in the list of their priority, were sent, and have not been
\* handled or discarded; responses are no requests.
Placed(box, sn, out) ==
  \A c \in Category : \A i \in 1..Len(box[c]) :
    LET m == box[c][i] IN
    /\ m.cat = c
    /\ m.seq <= sn[m.src]
    /\ m.kind = "resp" => ~m.request
    /\ m \notin out

\* Messages leave the mailbox once: requests are bounced, others dropped.
Settled(sn, h, b, d) ==
  /\ \A m \in h \cup b \cup d : m.seq <= sn[m.src]
  /\ h \cap (b \cup d) = {}
  /\ \A m \in b : m.request
  /\ \A m \in d : ~m.request

\* Every message that was sent is in the mailbox or left it.
Found(box, sn, out) ==
  \A s \in Senders : \A n \in 1..sn[s] :
    \/ \E m \in out : m.src = s /\ m.seq = n
    \/ \E c \in Category : \E i \in 1..Len(box[c]) :
         box[c][i].src = s /\ box[c][i].seq = n

Good(box, sn, h, b, d) == /\ Ordered(box)
                          /\ Placed(box, sn, h \cup b \cup d)
                          /\ Settled(sn, h, b, d)
                          /\ Found(box, sn, h \cup b \cup d)

\* Taking out the element at position k.
LEMMA RemovedParts ==
  ASSUME NEW S, NEW q \in Seq(S), NEW k \in 1..Len(q)
  PROVE  /\ Removed(q, k) \in Seq(S)
         /\ Len(Removed(q, k)) = Len(q) - 1
         /\ \A i \in 1..Len(q) - 1 :
              Removed(q, k)[i] = IF i < k THEN q[i] ELSE q[i + 1]
         /\ \A i \in 1..Len(q) : i # k =>
              \E j \in 1..Len(q) - 1 : Removed(q, k)[j] = q[i]
<1>1. /\ Removed(q, k) \in Seq(S)
      /\ Len(Removed(q, k)) = Len(q) - 1
      /\ \A i \in 1..Len(q) - 1 :
           Removed(q, k)[i] = IF i < k THEN q[i] ELSE q[i + 1]
  BY DEF Removed
<1>2. ASSUME NEW i \in 1..Len(q), i # k
      PROVE  \E j \in 1..Len(q) - 1 : Removed(q, k)[j] = q[i]
  <2>1. CASE i < k
    <3>1. i \in 1..Len(q) - 1
      BY <2>1
    <3> QED
      BY <1>1, <2>1, <3>1, Zenon
  <2>2. CASE i > k
    <3>1. i - 1 \in 1..Len(q) - 1 /\ ~(i - 1 < k) /\ (i - 1) + 1 = i
      BY <2>2
    <3> QED
      BY <1>1, <3>1, ZenonT(30)
  <2> QED
    BY <1>2, <2>1, <2>2
<1> QED
  BY <1>1, <1>2, Zenon

\* An arriving message keeps the mailbox in order.
LEMMA GoodArrive ==
  ASSUME NEW box \in [Category -> Seq(Msg)], NEW sn \in [Senders -> 0..MaxSends],
         NEW h \in SUBSET Msg, NEW b \in SUBSET Msg, NEW d \in SUBSET Msg,
         Good(box, sn, h, b, d),
         NEW m \in Msg, m.seq = sn[m.src] + 1, m.kind = "resp" => ~m.request
  PROVE  Good([box EXCEPT ![m.cat] = Append(@, m)],
              [sn EXCEPT ![m.src] = @ + 1], h, b, d)
<1> DEFINE box2 == [box EXCEPT ![m.cat] = Append(@, m)]
           sn2 == [sn EXCEPT ![m.src] = @ + 1]
           out == h \cup b \cup d
<1>0. m.src \in Senders /\ m.cat \in Category /\ out \subseteq Msg
  BY Zenon DEF Msg
<1>1. ASSUME NEW s \in Senders
      PROVE  /\ sn2[s] = IF s = m.src THEN sn[s] + 1 ELSE sn[s]
             /\ sn[s] \in Nat
  BY MaxSendsNat
<1>2. ASSUME NEW c \in Category
      PROVE  /\ box[c] \in Seq(Msg)
             /\ Len(box2[c]) = IF c = m.cat THEN Len(box[c]) + 1 ELSE Len(box[c])
             /\ \A i \in 1..Len(box[c]) : i \in 1..Len(box2[c]) /\ box2[c][i] = box[c][i]
             /\ c = m.cat => /\ Len(box[c]) + 1 \in 1..Len(box2[c])
                            /\ box2[c][Len(box[c]) + 1] = m
  <2>1. /\ box[c] \in Seq(Msg) /\ Len(box[c]) \in Nat
        /\ Len(box2[c]) = IF c = m.cat THEN Len(box[c]) + 1 ELSE Len(box[c])
        /\ \A i \in 1..Len(box[c]) : box2[c][i] = box[c][i]
        /\ c = m.cat => box2[c][Len(box[c]) + 1] = m
    BY <1>0
  <2> HIDE DEF box2, sn2, out
  <2> QED
    BY <2>1
<1>3. ASSUME NEW x \in Msg PROVE x.src \in Senders /\ x.seq \in Nat
  BY MaxSendsNat DEF Msg
<1>4. \A x \in Msg : x.seq <= sn[x.src] => x.seq <= sn2[x.src] /\ x # m
  BY <1>1, <1>3
<1> HIDE DEF box2, sn2, out
<1>5. Ordered(box2)
  <2> SUFFICES ASSUME NEW c \in Category, NEW i \in 1..Len(box2[c]),
                      NEW j \in 1..Len(box2[c]), i < j,
                      box2[c][i].src = box2[c][j].src
               PROVE  box2[c][i].seq < box2[c][j].seq
    BY Zenon DEF Ordered
  <2>1. CASE j \in 1..Len(box[c])
    <3>1. i \in 1..Len(box[c])
      BY <2>1
    <3> QED
      BY <1>2, <2>1, <3>1 DEF Good, Ordered
  <2>2. CASE j \notin 1..Len(box[c])
    <3>1. c = m.cat /\ j = Len(box[c]) + 1 /\ i \in 1..Len(box[c])
      BY <1>2, <2>2
    <3>2. box2[c][j] = m /\ box2[c][i] = box[c][i] /\ box[c][i] \in Msg
      BY <1>2, <3>1
    <3>3. box[c][i].seq <= sn[box[c][i].src]
      BY <3>1, Zenon DEF Good, Placed
    <3> QED
      BY <1>0, <1>1, <1>3, <3>2, <3>3
  <2> QED
    BY <2>1, <2>2, Zenon
<1>6. Placed(box2, sn2, out)
  <2> SUFFICES ASSUME NEW c \in Category, NEW i \in 1..Len(box2[c])
               PROVE  /\ box2[c][i].cat = c
                      /\ box2[c][i].seq <= sn2[box2[c][i].src]
                      /\ box2[c][i].kind = "resp" => ~box2[c][i].request
                      /\ box2[c][i] \notin out
    BY Zenon DEF Placed
  <2>1. CASE i \in 1..Len(box[c])
    <3>1. box2[c][i] = box[c][i] /\ box[c][i] \in Msg
      BY <1>2, <2>1
    <3>2. /\ box[c][i].cat = c /\ box[c][i].seq <= sn[box[c][i].src]
          /\ box[c][i].kind = "resp" => ~box[c][i].request
          /\ box[c][i] \notin out
      BY <2>1, Zenon DEF Good, Placed, out
    <3> QED
      BY <1>4, <3>1, <3>2, Zenon
  <2>2. CASE i \notin 1..Len(box[c])
    <3>1. c = m.cat /\ box2[c][i] = m
      BY <1>2, <2>2
    <3>2. m \notin out
      BY <1>4, Zenon DEF Good, Settled, out
    <3> QED
      BY <1>0, <1>1, <1>3, <3>1, <3>2
  <2> QED
    BY <2>1, <2>2, Zenon
<1>7. Settled(sn2, h, b, d)
  BY <1>4, Zenon DEF Good, Settled
<1>8. Found(box2, sn2, out)
  <2> SUFFICES ASSUME NEW s \in Senders, NEW n \in 1..sn2[s]
               PROVE  \/ \E x \in out : x.src = s /\ x.seq = n
                      \/ \E c \in Category : \E i \in 1..Len(box2[c]) :
                           box2[c][i].src = s /\ box2[c][i].seq = n
    BY Zenon DEF Found
  <2>1. CASE n \in 1..sn[s]
    <3>1. ASSUME NEW c \in Category, NEW i \in 1..Len(box[c]),
                 box[c][i].src = s, box[c][i].seq = n
          PROVE  i \in 1..Len(box2[c]) /\ box2[c][i].src = s /\ box2[c][i].seq = n
      BY <1>2, <3>1, Zenon
    <3> QED
      BY <2>1, <3>1 DEF Good, Found, out
  <2>2. CASE n \notin 1..sn[s]
    <3>1. s = m.src /\ n = m.seq
      BY <1>0, <1>1, <2>2
    <3>2. /\ Len(box[m.cat]) + 1 \in 1..Len(box2[m.cat])
          /\ box2[m.cat][Len(box[m.cat]) + 1] = m
      BY <1>0, <1>2, Zenon
    <3> QED
      BY <1>0, <3>1, <3>2, ZenonT(30)
  <2> QED
    BY <2>1, <2>2, Zenon
<1> QED
  BY <1>5, <1>6, <1>7, <1>8, Zenon DEF Good, box2, sn2, out

\* A message that a closed mailbox rejects was sent and discarded.
LEMMA GoodReject ==
  ASSUME NEW box \in [Category -> Seq(Msg)], NEW sn \in [Senders -> 0..MaxSends],
         NEW h \in SUBSET Msg, NEW b \in SUBSET Msg, NEW d \in SUBSET Msg,
         Good(box, sn, h, b, d),
         NEW m \in Msg, m.seq = sn[m.src] + 1,
         NEW b2 \in SUBSET Msg, NEW d2 \in SUBSET Msg,
         b2 = b \cup {x \in {m} : x.request},
         d2 = d \cup {x \in {m} : ~x.request}
  PROVE  Good(box, [sn EXCEPT ![m.src] = @ + 1], h, b2, d2)
<1> DEFINE sn2 == [sn EXCEPT ![m.src] = @ + 1]
           out == h \cup b \cup d
           out2 == h \cup b2 \cup d2
<1>0. m.src \in Senders /\ out2 = out \cup {m}
  BY Zenon DEF Msg
<1>1. ASSUME NEW s \in Senders
      PROVE  /\ sn2[s] = IF s = m.src THEN sn[s] + 1 ELSE sn[s]
             /\ sn[s] \in Nat
  BY MaxSendsNat
<1>2. ASSUME NEW x \in Msg PROVE x.src \in Senders /\ x.seq \in Nat
  BY MaxSendsNat DEF Msg
<1>3. \A x \in Msg : x.seq <= sn[x.src] => x.seq <= sn2[x.src] /\ x # m
  BY <1>1, <1>2
<1>4. m.seq <= sn2[m.src]
  BY <1>0, <1>1, <1>2
<1> HIDE DEF sn2, out, out2
<1>5. Placed(box, sn2, out2)
  <2> SUFFICES ASSUME NEW c \in Category, NEW i \in 1..Len(box[c])
               PROVE  /\ box[c][i].cat = c
                      /\ box[c][i].seq <= sn2[box[c][i].src]
                      /\ box[c][i].kind = "resp" => ~box[c][i].request
                      /\ box[c][i] \notin out2
    BY Zenon DEF Placed
  <2>1. box[c][i] \in Msg
    OBVIOUS
  <2> QED
    BY <1>0, <1>3, <2>1, Zenon DEF Good, Placed, out
<1>6. Settled(sn2, h, b2, d2)
  <2>1. \A x \in h \cup b \cup d : x.seq <= sn2[x.src] /\ x # m
    BY <1>3, Zenon DEF Good, Settled
  <2> QED
    BY <1>4, <2>1, Zenon DEF Good, Settled
<1>7. Found(box, sn2, out2)
  <2> SUFFICES ASSUME NEW s \in Senders, NEW n \in 1..sn2[s]
               PROVE  \/ \E x \in out2 : x.src = s /\ x.seq = n
                      \/ \E c \in Category : \E i \in 1..Len(box[c]) :
                           box[c][i].src = s /\ box[c][i].seq = n
    BY Zenon DEF Found
  <2>1. CASE n \in 1..sn[s]
    BY <1>0, <2>1 DEF Good, Found, out
  <2>2. CASE n \notin 1..sn[s]
    <3>1. s = m.src /\ n = m.seq
      BY <1>0, <1>1, <2>2
    <3> QED
      BY <1>0, <3>1, Zenon
  <2> QED
    BY <2>1, <2>2, Zenon
<1> QED
  BY <1>5, <1>6, <1>7, Zenon DEF Good, sn2, out2

\* A message that leaves its list, to be handled or dropped.
LEMMA GoodLeave ==
  ASSUME NEW box \in [Category -> Seq(Msg)], NEW sn \in [Senders -> 0..MaxSends],
         NEW h \in SUBSET Msg, NEW b \in SUBSET Msg, NEW d \in SUBSET Msg,
         Good(box, sn, h, b, d),
         NEW c \in Category, NEW k \in 1..Len(box[c]),
         NEW h2 \in SUBSET Msg, NEW d2 \in SUBSET Msg,
         \/ h2 = h \cup {box[c][k]} /\ d2 = d
         \/ h2 = h /\ d2 = d \cup {box[c][k]} /\ box[c][k].kind = "resp"
  PROVE  Good([box EXCEPT ![c] = Removed(@, k)], sn, h2, b, d2)
<1> DEFINE box2 == [box EXCEPT ![c] = Removed(@, k)]
           out == h \cup b \cup d
           out2 == h2 \cup b \cup d2
<1>1. PICK m \in Msg : m = box[c][k]
  BY Zenon
<1>2. out2 = out \cup {m}
  BY <1>1, Zenon
<1>3. ASSUME NEW e \in Category
      PROVE  /\ box[e] \in Seq(Msg) /\ Len(box[e]) \in Nat
             /\ e # c => box2[e] = box[e]
             /\ box2[c] = Removed(box[c], k)
  OBVIOUS
<1>4. /\ Len(box2[c]) = Len(box[c]) - 1
      /\ \A i \in 1..Len(box[c]) - 1 :
           box2[c][i] = IF i < k THEN box[c][i] ELSE box[c][i + 1]
      /\ \A i \in 1..Len(box[c]) : i # k =>
           \E j \in 1..Len(box[c]) - 1 : box2[c][j] = box[c][i]
  <2>1. box[c] \in Seq(Msg) /\ box2[c] = Removed(box[c], k)
    BY <1>3, Zenon
  <2> HIDE DEF box2, out, out2
  <2> DEFINE q == box[c]
  <2>2. q \in Seq(Msg) /\ k \in 1..Len(q) /\ box2[c] = Removed(q, k)
    BY <2>1, Zenon
  <2> SUFFICES /\ Len(box2[c]) = Len(q) - 1
               /\ \A i \in 1..Len(q) - 1 : box2[c][i] = IF i < k THEN q[i] ELSE q[i + 1]
               /\ \A i \in 1..Len(q) : i # k => \E j \in 1..Len(q) - 1 : box2[c][j] = q[i]
    BY Zenon
  <2> HIDE DEF q
  <2> QED
    BY <2>2, RemovedParts
<1> HIDE DEF box2, out, out2
<1>5. ASSUME NEW e \in Category, NEW i \in 1..Len(box2[e])
      PROVE  \E n \in 1..Len(box[e]) :
               /\ box2[e][i] = box[e][n]
               /\ e = c => n = IF i < k THEN i ELSE i + 1
               /\ e # c => n = i
  <2>1. CASE e # c
    BY <1>3, <2>1, Zenon
  <2>2. CASE e = c
    <3>1. i \in 1..Len(box[c]) - 1
      BY <1>4, <2>2, Zenon
    <3>2. i \in 1..Len(box[c]) /\ i + 1 \in 1..Len(box[c])
      BY <1>3, <3>1
    <3>3. box2[c][i] = IF i < k THEN box[c][i] ELSE box[c][i + 1]
      BY <1>4, <3>1, ZenonT(30)
    <3>4. CASE i < k
      BY <2>2, <3>2, <3>3, <3>4, Zenon
    <3>5. CASE ~(i < k)
      BY <2>2, <3>2, <3>3, <3>5, Zenon
    <3> QED
      BY <3>4, <3>5, Zenon
  <2> QED
    BY <2>1, <2>2, Zenon
<1>6. Ordered(box2)
  <2> SUFFICES ASSUME NEW e \in Category, NEW i \in 1..Len(box2[e]),
                      NEW j \in 1..Len(box2[e]), i < j,
                      box2[e][i].src = box2[e][j].src
               PROVE  box2[e][i].seq < box2[e][j].seq
    BY ZenonT(30) DEF Ordered
  <2>1. PICK x \in 1..Len(box[e]) :
          /\ box2[e][i] = box[e][x]
          /\ e = c => x = IF i < k THEN i ELSE i + 1
          /\ e # c => x = i
    BY <1>5, Zenon
  <2>2. PICK y \in 1..Len(box[e]) :
          /\ box2[e][j] = box[e][y]
          /\ e = c => y = IF j < k THEN j ELSE j + 1
          /\ e # c => y = j
    BY <1>5, Zenon
  <2>3. x < y
    BY <2>1, <2>2
  <2> QED
    BY <2>1, <2>2, <2>3, Zenon DEF Good, Ordered
<1>7. ASSUME NEW e \in Category, NEW n \in 1..Len(box[e]), e # c \/ n # k
      PROVE  box[e][n] # m
  <2>1. CASE e # c
    BY <1>1, <2>1 DEF Good, Placed
  <2>2. CASE e = c
    <3>0. \A x \in Msg : x.seq \in Nat
      BY MaxSendsNat DEF Msg
    <3>1. box[c][n] \in Msg /\ box[c][n].seq \in Nat /\ m.seq \in Nat
      BY <2>2, <3>0
    <3>2. n < k \/ k < n
      BY <1>3, <1>7, <2>2
    <3> QED
      BY <1>1, <2>2, <3>1, <3>2 DEF Good, Ordered
  <2> QED
    BY <2>1, <2>2, Zenon
<1>8. Placed(box2, sn, out2)
  <2> SUFFICES ASSUME NEW e \in Category, NEW i \in 1..Len(box2[e])
               PROVE  /\ box2[e][i].cat = e
                      /\ box2[e][i].seq <= sn[box2[e][i].src]
                      /\ box2[e][i].kind = "resp" => ~box2[e][i].request
                      /\ box2[e][i] \notin out2
    BY Zenon DEF Placed
  <2>1. PICK x \in 1..Len(box[e]) :
          /\ box2[e][i] = box[e][x]
          /\ e = c => x = IF i < k THEN i ELSE i + 1
          /\ e # c => x = i
    BY <1>5, ZenonT(30)
  <2>2. e # c \/ x # k
    BY <2>1
  <2>3. box[e][x] # m
    BY <1>7, <2>2, Zenon
  <2> QED
    BY <1>2, <2>1, <2>3 DEF Good, Placed, out
<1>9. Settled(sn, h2, b, d2)
  <2>1. /\ m.seq <= sn[m.src] /\ m \notin out
        /\ m.kind = "resp" => ~m.request
    BY <1>1, Zenon DEF Good, Placed, out
  <2>2. CASE h2 = h \cup {m} /\ d2 = d
    BY <2>1, <2>2, Zenon DEF Good, Settled, out
  <2>3. CASE h2 = h /\ d2 = d \cup {m} /\ m.kind = "resp"
    BY <2>1, <2>3 DEF Good, Settled, out
  <2> QED
    BY <1>1, <2>2, <2>3, Zenon
<1>10. Found(box2, sn, out2)
  <2> SUFFICES ASSUME NEW s \in Senders, NEW n \in 1..sn[s]
               PROVE  \/ \E x \in out2 : x.src = s /\ x.seq = n
                      \/ \E e \in Category : \E i \in 1..Len(box2[e]) :
                           box2[e][i].src = s /\ box2[e][i].seq = n
    BY Zenon DEF Found
  <2>1. CASE \E x \in out : x.src = s /\ x.seq = n
    BY <1>2, <2>1, Zenon
  <2>2. ASSUME NEW e \in Category, NEW i \in 1..Len(box[e]),
               box[e][i].src = s, box[e][i].seq = n
        PROVE  \/ \E x \in out2 : x.src = s /\ x.seq = n
               \/ \E j \in 1..Len(box2[e]) :
                    box2[e][j].src = s /\ box2[e][j].seq = n
    <3>1. CASE e = c /\ i = k
      BY <1>1, <1>2, <2>2, <3>1, Zenon
    <3>2. CASE e = c /\ i # k
      BY <1>4, <2>2, <3>2, ZenonT(30)
    <3>3. CASE e # c
      BY <1>3, <2>2, <3>3, Zenon
    <3> QED
      BY <3>1, <3>2, <3>3, Zenon
  <2>3. \/ \E x \in out : x.src = s /\ x.seq = n
        \/ \E e \in Category : \E i \in 1..Len(box[e]) :
             box[e][i].src = s /\ box[e][i].seq = n
    BY DEF Good, Found, out
  <2> QED
    BY <2>1, <2>2, <2>3, Zenon
<1> QED
  BY <1>6, <1>8, <1>9, <1>10, Zenon DEF Good, box2, out2

\* Everything left in the mailbox is discarded at once.
LEMMA GoodDrain ==
  ASSUME NEW box \in [Category -> Seq(Msg)], NEW sn \in [Senders -> 0..MaxSends],
         NEW h \in SUBSET Msg, NEW b \in SUBSET Msg, NEW d \in SUBSET Msg,
         Good(box, sn, h, b, d),
         NEW ms, ms = UNION {Range(box[c]) : c \in Category},
         NEW b2 \in SUBSET Msg, NEW d2 \in SUBSET Msg,
         b2 = b \cup {m \in ms : m.request},
         d2 = d \cup {m \in ms : ~m.request}
  PROVE  Good(NoMsgs, sn, h, b2, d2)
<1> DEFINE out == h \cup b \cup d
           out2 == h \cup b2 \cup d2
<1>1. \A c \in Category : NoMsgs[c] = <<>> /\ Len(<<>>) = 0
  BY Zenon DEF NoMsgs
<1>2. out2 = out \cup ms
  BY Zenon
<1>3. ASSUME NEW m \in ms
      PROVE  \E c \in Category : \E i \in 1..Len(box[c]) : box[c][i] = m
  BY DEF Range
<1>4. ASSUME NEW c \in Category, NEW i \in 1..Len(box[c])
      PROVE  box[c][i] \in ms
  BY DEF Range
<1> HIDE DEF out, out2
<1>5. ASSUME NEW m \in ms PROVE m.seq <= sn[m.src] /\ m \notin out
  <2>1. PICK c \in Category : \E i \in 1..Len(box[c]) : box[c][i] = m
    BY <1>3, ZenonT(30)
  <2>2. PICK i \in 1..Len(box[c]) : box[c][i] = m
    BY <2>1, Zenon
  <2>3. box[c][i].seq <= sn[box[c][i].src] /\ box[c][i] \notin out
    BY Zenon DEF Good, Placed, out
  <2> QED
    BY <2>2, <2>3, Zenon
<1>6. Ordered(NoMsgs) /\ Placed(NoMsgs, sn, out2)
  <2>1. 1..0 = {}
    OBVIOUS
  <2>2. \A c \in Category : 1..Len(NoMsgs[c]) = {}
    BY <1>1, <2>1, ZenonT(30)
  <2> QED
    BY <2>2, ZenonT(30) DEF Ordered, Placed
<1>7. Settled(sn, h, b2, d2)
  <2>1. /\ \A m \in h \cup b \cup d : m.seq <= sn[m.src]
        /\ h \cap (b \cup d) = {}
        /\ \A m \in b : m.request
        /\ \A m \in d : ~m.request
    BY Zenon DEF Good, Settled
  <2>2. /\ \A m \in h \cup b2 \cup d2 : m.seq <= sn[m.src]
        /\ h \cap (b2 \cup d2) = {}
    BY <1>5, <2>1, Zenon DEF out
  <2>3. (\A m \in b2 : m.request) /\ (\A m \in d2 : ~m.request)
    BY <2>1, Zenon
  <2> QED
    BY <2>2, <2>3, Zenon DEF Settled
<1>8. Found(NoMsgs, sn, out2)
  <2> SUFFICES ASSUME NEW s \in Senders, NEW n \in 1..sn[s]
               PROVE  \E x \in out2 : x.src = s /\ x.seq = n
    BY DEF Found
  <2>1. \/ \E x \in out : x.src = s /\ x.seq = n
        \/ \E e \in Category : \E i \in 1..Len(box[e]) :
             box[e][i].src = s /\ box[e][i].seq = n
    BY DEF Good, Found, out
  <2> QED
    BY <1>2, <1>4, <2>1, Zenon
<1> QED
  BY <1>6, <1>7, <1>8, Zenon DEF Good, out2

\* The lists and the fates of the messages of the actor.
MailInv == Good(Box, sent, handled, bounced, dropped)

\* It holds at first.
LEMMA MailInit == Init => MailInv
<1> SUFFICES ASSUME Init PROVE MailInv
  BY Zenon
<1>1. ASSUME NEW c \in Category PROVE Box[c] = <<>>
  <2>1. stack[c] = <<>> /\ queue[c] = <<>> /\ cache[c] = <<>>
    BY Zenon DEF Init, NoMsgs
  <2>2. OldestFirst(stack[c]) = <<>>
    BY <2>1, EmptyReversed, Zenon
  <2>3. Box[c] = <<>> \o <<>> \o <<>>
    BY <2>1, <2>2, Zenon DEF Box, InOrder
  <2> QED
    BY <2>3
<1>2. \A c \in Category : Len(Box[c]) = 0
  <2>1. Len(<<>>) = 0
    BY Zenon
  <2> QED
    BY <1>1, <2>1, Zenon
<1>3. Ordered(Box) /\ Placed(Box, sent, handled \cup bounced \cup dropped)
  BY <1>2 DEF Ordered, Placed
<1>4. /\ handled = {} /\ bounced = {} /\ dropped = {}
      /\ \A s \in Senders : sent[s] = 0
  BY Zenon DEF Init
<1>5. Settled(sent, handled, bounced, dropped)
  BY <1>4, Zenon DEF Settled
<1>6. Found(Box, sent, handled \cup bounced \cup dropped)
  <2>1. \A s \in Senders : 1..sent[s] = {}
    BY <1>4
  <2> QED
    BY <2>1, Zenon DEF Found
<1> QED
  BY <1>3, <1>5, <1>6, Zenon DEF MailInv, Good

\* Every step of the mailbox keeps it.
LEMMA MailStep ==
  ASSUME TypeOK, TypeOK', MailInv, MailboxStep
  PROVE  MailInv'
<1>1. /\ Box \in [Category -> Seq(Msg)]
      /\ Unread = UNION {Range(Box[c]) : c \in Category}
  BY UnreadIsBox, Zenon
<1>2. /\ sent \in [Senders -> 0..MaxSends]
      /\ handled \in SUBSET Msg /\ bounced \in SUBSET Msg /\ dropped \in SUBSET Msg
      /\ handled' \in SUBSET Msg /\ bounced' \in SUBSET Msg /\ dropped' \in SUBSET Msg
  BY Zenon DEF TypeOK
<1>3. Good(Box, sent, handled, bounced, dropped)
  BY Zenon DEF MailInv
<1>4. SUFFICES Good(Box', sent', handled', bounced', dropped')
  BY Zenon DEF MailInv
<1>5. CASE Same
  BY <1>3, <1>5, Zenon DEF Same
<1>6. CASE Arrive
  <2>1. PICK s \in Senders, m \in Msg :
          /\ Fresh(s, m)
          /\ Box' = [Box EXCEPT ![m.cat] = Append(@, m)]
          /\ UNCHANGED <<handled, bounced, dropped>>
    BY <1>6, ZenonT(30) DEF Arrive
  <2>2. /\ m.seq = sent[m.src] + 1 /\ (m.kind = "resp" => ~m.request)
        /\ sent' = [sent EXCEPT ![m.src] = @ + 1]
    BY <2>1, Zenon DEF Fresh
  <2>3. Good([Box EXCEPT ![m.cat] = Append(@, m)], [sent EXCEPT ![m.src] = @ + 1],
             handled, bounced, dropped)
    BY <1>1, <1>2, <1>3, <2>2, GoodArrive, ZenonT(30)
  <2> QED
    BY <2>1, <2>2, <2>3, Zenon
<1>7. CASE Reject
  <2>1. PICK s \in Senders, m \in Msg :
          Fresh(s, m) /\ Discard({m}) /\ Box' = Box /\ handled' = handled
    BY <1>7, Zenon DEF Reject
  <2>2. /\ m.seq = sent[m.src] + 1
        /\ sent' = [sent EXCEPT ![m.src] = @ + 1]
    BY <2>1, Zenon DEF Fresh
  <2>3. /\ bounced' = bounced \cup {x \in {m} : x.request}
        /\ dropped' = dropped \cup {x \in {m} : ~x.request}
    BY <2>1, Zenon DEF Discard
  <2>4. Good(Box, [sent EXCEPT ![m.src] = @ + 1], handled, bounced', dropped')
    BY <1>1, <1>2, <1>3, <2>2, <2>3, GoodReject, ZenonT(30)
  <2> QED
    BY <2>1, <2>2, <2>4, Zenon
<1>8. CASE Leave
  <2>1. PICK c \in Category : \E k \in 1..Len(Box[c]) :
          /\ Box' = [Box EXCEPT ![c] = Removed(@, k)]
          /\ \/ /\ handled' = handled \cup {Box[c][k]}
                /\ UNCHANGED dropped
             \/ /\ Box[c][k].kind = "resp"
                /\ dropped' = dropped \cup {Box[c][k]}
                /\ UNCHANGED handled
          /\ UNCHANGED <<sent, bounced>>
    BY <1>8, ZenonT(30) DEF Leave
  <2>2. PICK k \in 1..Len(Box[c]) :
          /\ Box' = [Box EXCEPT ![c] = Removed(@, k)]
          /\ \/ /\ handled' = handled \cup {Box[c][k]}
                /\ UNCHANGED dropped
             \/ /\ Box[c][k].kind = "resp"
                /\ dropped' = dropped \cup {Box[c][k]}
                /\ UNCHANGED handled
          /\ UNCHANGED <<sent, bounced>>
    BY <2>1, ZenonT(30)
  <2>3. \/ handled' = handled \cup {Box[c][k]} /\ dropped' = dropped
        \/ /\ handled' = handled /\ dropped' = dropped \cup {Box[c][k]}
           /\ Box[c][k].kind = "resp"
    BY <2>2, Zenon
  <2>4. Good([Box EXCEPT ![c] = Removed(@, k)], sent, handled', bounced, dropped')
    BY <1>1, <1>2, <1>3, <2>3, GoodLeave, ZenonT(30)
  <2> QED
    BY <2>2, <2>4, Zenon
<1>9. CASE Drain
  <2>1. /\ Box' = NoMsgs /\ sent' = sent /\ handled' = handled
        /\ bounced' = bounced \cup {m \in Unread : m.request}
        /\ dropped' = dropped \cup {m \in Unread : ~m.request}
    BY <1>9, Zenon DEF Drain, Discard
  <2>2. Good(NoMsgs, sent, handled, bounced', dropped')
    BY <1>1, <1>2, <1>3, <2>1, GoodDrain, ZenonT(30)
  <2> QED
    BY <2>1, <2>2, Zenon
<1> QED
  BY <1>5, <1>6, <1>7, <1>8, <1>9, Zenon DEF MailboxStep

\* The mailbox is ordered and complete in every reachable state.
THEOREM MailboxInvariant == Spec => []MailInv
<1>1. TypeOK /\ TypeOK' /\ MailInv /\ [Next]_vars => MailInv'
  BY StepOfMailbox, MailStep, Zenon
<1> QED
  BY <1>1, MailInit, TypeCorrect, PTL DEF Spec

-----------------------------------------------------------------------------
(* What it means for senders and receivers. *)

\* Messages of one sender with the same priority are read in the order in which
\* they were sent, for every number of senders, workers and messages: the
\* LIFO inbox, the DRR queues and the caches of skipped messages of
\* scheduled_actor never reorder them.
THEOREM FifoDelivery == Spec => []FifoPerSender
<1>1. MailInv => FifoPerSender
  <2>1. \A c \in Category : Box[c] = InOrder(c)
    BY Zenon DEF Box
  <2> QED
    BY <2>1, ZenonT(30) DEF MailInv, Good, Ordered, FifoPerSender
<1> QED
  BY <1>1, MailboxInvariant, PTL

\* Elements that occur once in three lists in a row are in one of the lists.
LEMMA PartsDisjoint ==
  ASSUME NEW S, NEW p \in Seq(S), NEW q \in Seq(S), NEW r \in Seq(S),
         \A i, j \in 1..Len(p \o q \o r) :
           i < j => (p \o q \o r)[i] # (p \o q \o r)[j]
  PROVE  /\ Range(r) \cap (Range(q) \cup Range(p)) = {}
         /\ Range(q) \cap Range(p) = {}
<1> DEFINE a == p \o q \o r
<1>1. /\ Len(a) = Len(p) + Len(q) + Len(r)
      /\ \A i \in 1..Len(p) : a[i] = p[i]
      /\ \A i \in 1..Len(q) : a[Len(p) + i] = q[i]
      /\ \A i \in 1..Len(r) : a[Len(p) + Len(q) + i] = r[i]
      /\ Len(p) \in Nat /\ Len(q) \in Nat /\ Len(r) \in Nat
  <2>0. p \o q \in Seq(S)
    OBVIOUS
  <2>1. PICK pq \in Seq(S) : pq = p \o q
    BY <2>0, Zenon
  <2>2. /\ Len(pq) = Len(p) + Len(q)
        /\ \A i \in 1..Len(p) : pq[i] = p[i]
        /\ \A i \in 1..Len(q) : pq[Len(p) + i] = q[i]
        /\ Len(p) \in Nat /\ Len(q) \in Nat /\ Len(r) \in Nat
    BY <2>1
  <2>3. /\ Len(pq \o r) = Len(pq) + Len(r)
        /\ \A i \in 1..Len(pq) : (pq \o r)[i] = pq[i]
        /\ \A i \in 1..Len(r) : (pq \o r)[Len(pq) + i] = r[i]
    OBVIOUS
  <2>4. a = pq \o r
    BY <2>1, Zenon
  <2> HIDE DEF a
  <2>5. /\ Len(a) = Len(pq) + Len(r)
        /\ \A i \in 1..Len(pq) : a[i] = pq[i]
        /\ \A i \in 1..Len(r) : a[Len(pq) + i] = r[i]
    BY <2>3, <2>4, Zenon
  <2>6. \A i \in 1..Len(p) : i \in 1..Len(pq)
    BY <2>2
  <2>7. \A i \in 1..Len(q) : Len(p) + i \in 1..Len(pq)
    BY <2>2
  <2> QED
    BY <2>2, <2>5, <2>6, <2>7, Zenon
<1>2. \A i, j \in 1..Len(a) : i < j => a[i] # a[j]
  BY ZenonT(30)
<1> HIDE DEF a
<1>3. ASSUME NEW i \in 1..Len(p), NEW j \in 1..Len(q) PROVE p[i] # q[j]
  <2>1. i \in 1..Len(a) /\ Len(p) + j \in 1..Len(a) /\ i < Len(p) + j
    BY <1>1
  <2> QED
    BY <1>1, <1>2, <2>1
<1>4. ASSUME NEW i \in 1..Len(p), NEW j \in 1..Len(r) PROVE p[i] # r[j]
  <2>1. /\ i \in 1..Len(a) /\ Len(p) + Len(q) + j \in 1..Len(a)
        /\ i < Len(p) + Len(q) + j
    BY <1>1
  <2> QED
    BY <1>1, <1>2, <2>1
<1>5. ASSUME NEW i \in 1..Len(q), NEW j \in 1..Len(r) PROVE q[i] # r[j]
  <2>1. /\ Len(p) + i \in 1..Len(a) /\ Len(p) + Len(q) + j \in 1..Len(a)
        /\ Len(p) + i < Len(p) + Len(q) + j
    BY <1>1
  <2> QED
    BY <1>1, <1>2, <2>1
<1>6. \A x \in Range(p) : \E i \in 1..Len(p) : x = p[i]
  BY DEF Range
<1>7. \A x \in Range(q) : \E i \in 1..Len(q) : x = q[i]
  BY DEF Range
<1>8. \A x \in Range(r) : \E i \in 1..Len(r) : x = r[i]
  BY DEF Range
<1>9. ASSUME NEW x \in Range(p), x \in Range(q) PROVE FALSE
  <2>1. PICK i \in 1..Len(p) : x = p[i]
    BY <1>6, Zenon
  <2>2. PICK j \in 1..Len(q) : x = q[j]
    BY <1>9, <1>7, Zenon
  <2> QED
    BY <2>1, <2>2, <1>3, ZenonT(30)
<1>10. ASSUME NEW x \in Range(p), x \in Range(r) PROVE FALSE
  <2>1. PICK i \in 1..Len(p) : x = p[i]
    BY <1>6, Zenon
  <2>2. PICK j \in 1..Len(r) : x = r[j]
    BY <1>10, <1>8, Zenon
  <2> QED
    BY <2>1, <2>2, <1>4, ZenonT(30)
<1>11. ASSUME NEW x \in Range(q), x \in Range(r) PROVE FALSE
  <2>1. PICK i \in 1..Len(q) : x = q[i]
    BY <1>7, Zenon
  <2>2. PICK j \in 1..Len(r) : x = r[j]
    BY <1>11, <1>8, Zenon
  <2> QED
    BY <2>1, <2>2, <1>5, ZenonT(30)
<1> QED
  BY <1>9, <1>10, <1>11, Zenon

\* Messages in an ordered list are different from each other.
LEMMA ListHasNoDuplicates ==
  ASSUME TypeOK, MailInv, NEW c \in Category
  PROVE  \A i, j \in 1..Len(Box[c]) : i < j => Box[c][i] # Box[c][j]
<1> SUFFICES ASSUME NEW i \in 1..Len(Box[c]), NEW j \in 1..Len(Box[c]), i < j,
                    Box[c][i] = Box[c][j]
             PROVE  FALSE
  BY Zenon
<1>1. Box[c] \in Seq(Msg)
  BY UnreadIsBox, Zenon
<1>2. PICK m \in Msg : m = Box[c][i] /\ m = Box[c][j]
  BY <1>1
<1>3. m.seq \in Nat
  BY MaxSendsNat DEF Msg
<1>4. m.seq < m.seq
  <2>1. \A x, y \in 1..Len(Box[c]) :
          x < y /\ Box[c][x].src = Box[c][y].src => Box[c][x].seq < Box[c][y].seq
    BY Zenon DEF MailInv, Good, Ordered
  <2>2. Box[c][i].seq < Box[c][j].seq
    BY <2>1, Zenon
  <2> QED
    BY <1>2, <2>2, Zenon
<1> QED
  BY <1>3, <1>4

\* The messages of priority c, and of no other, are in the parts of list c.
LEMMA PartsPlaced ==
  ASSUME TypeOK, MailInv
  PROVE  \A c \in Category :
           /\ Range(stack[c]) \cap (Range(queue[c]) \cup Range(cache[c])) = {}
           /\ Range(queue[c]) \cap Range(cache[c]) = {}
           /\ \A m \in Range(stack[c]) \cup Range(queue[c]) \cup Range(cache[c]) :
                m.cat = c
<1> SUFFICES ASSUME NEW c \in Category
             PROVE  /\ Range(stack[c]) \cap (Range(queue[c]) \cup Range(cache[c])) = {}
                    /\ Range(queue[c]) \cap Range(cache[c]) = {}
                    /\ \A m \in Range(stack[c]) \cup Range(queue[c])
                                 \cup Range(cache[c]) : m.cat = c
  BY ZenonT(30)
<1>1. PICK p, q, r \in Seq(Msg) :
        p = cache[c] /\ q = queue[c] /\ r = OldestFirst(stack[c])
  BY BoxParts, ZenonT(30)
<1>2. Box[c] = p \o q \o r
  BY <1>1, BoxParts, Zenon
<1>3. \A i, j \in 1..Len(p \o q \o r) :
        i < j => (p \o q \o r)[i] # (p \o q \o r)[j]
  BY <1>2, ListHasNoDuplicates, Zenon
<1>4. /\ Range(r) \cap (Range(q) \cup Range(p)) = {}
      /\ Range(q) \cap Range(p) = {}
  BY <1>3, PartsDisjoint, ZenonT(30)
<1>5. Range(r) = Range(stack[c])
  BY <1>1, BoxParts, ReverseRange, ZenonT(30)
<1>6. Range(p \o q \o r) = Range(p) \cup Range(q) \cup Range(r)
  BY RangeOfThree
<1>7. \A m \in Range(Box[c]) : m.cat = c
  <2>1. \A m \in Range(Box[c]) : \E i \in 1..Len(Box[c]) : m = Box[c][i]
    <3>1. Box[c] \in Seq(Msg)
      BY UnreadIsBox, Zenon
    <3> QED
      BY <3>1, SMTT(40) DEF Range
  <2>2. \A i \in 1..Len(Box[c]) : Box[c][i].cat = c
    BY Zenon DEF MailInv, Good, Placed
  <2> QED
    BY <2>1, <2>2, Zenon
<1> QED
  BY <1>1, <1>2, <1>4, <1>5, <1>6, <1>7, Zenon

\* Parts whose lists are apart, and sorted by priority, hold nothing in common.
LEMMA PartsApart ==
  ASSUME NEW f, NEW g,
         \A c \in Category : /\ Range(f[c]) \cap Range(g[c]) = {}
                            /\ \A m \in Range(f[c]) \cup Range(g[c]) : m.cat = c
  PROVE  MsgsOf(f) \cap MsgsOf(g) = {}
<1> SUFFICES ASSUME NEW m, m \in MsgsOf(f), m \in MsgsOf(g) PROVE FALSE
  BY Zenon
<1>1. PICK c \in Category : m \in Range(f[c])
  BY Zenon DEF MsgsOf
<1>2. PICK d \in Category : m \in Range(g[d])
  BY Zenon DEF MsgsOf
<1>3. c = d
  BY <1>1, <1>2, Zenon
<1> QED
  BY <1>1, <1>2, <1>3, Zenon

\* Every message that was sent is unread, handled, bounced or dropped, and only
\* one of these: enqueue, the rounds of resume, the flushing of the caches and
\* cleanup lose no message and read none twice, however the threads interleave.
THEOREM DeliveredOnce == Spec => []ExactlyOnce
<1>1. ASSUME TypeOK, MailInv PROVE ExactlyOnce
  <2> DEFINE out == handled \cup bounced \cup dropped
  <2>1. ASSUME NEW m \in Unread
        PROVE  \E c \in Category : \E i \in 1..Len(Box[c]) : m = Box[c][i]
    <3>1. PICK c \in Category : m \in Range(Box[c])
      BY <1>1, UnreadIsBox, Zenon
    <3>2. Box[c] \in Seq(Msg)
      BY <1>1, UnreadIsBox, Zenon
    <3> QED
      BY <3>1, <3>2 DEF Range
  <2>2. ASSUME NEW c \in Category, NEW i \in 1..Len(Box[c])
        PROVE  Box[c][i] \in Unread
    <3>1. Box[c] \in Seq(Msg)
      BY <1>1, UnreadIsBox, Zenon
    <3>2. Box[c][i] \in Range(Box[c])
      BY <3>1 DEF Range
    <3> QED
      BY <1>1, <3>2, UnreadIsBox, Zenon
  <2>3. \A c \in Category : \A i \in 1..Len(Box[c]) : Box[c][i] \notin out
    BY <1>1, Zenon DEF MailInv, Good, Placed
  <2>4. ASSUME NEW m \in Unread PROVE m \notin out
    <3>1. PICK c \in Category : \E i \in 1..Len(Box[c]) : m = Box[c][i]
      BY <2>1, Zenon
    <3>2. PICK i \in 1..Len(Box[c]) : m = Box[c][i]
      BY <3>1, Zenon
    <3> QED
      BY <2>3, <3>2, Zenon
  <2>5. \A s \in Senders : \A n \in 1..sent[s] :
          \/ \E m \in out : m.src = s /\ m.seq = n
          \/ \E c \in Category : \E i \in 1..Len(Box[c]) :
               Box[c][i].src = s /\ Box[c][i].seq = n
    BY <1>1, Zenon DEF MailInv, Good, Found
  <2>6. \A s \in Senders : \A n \in 1..sent[s] :
          \E m \in Unread \cup handled \cup bounced \cup dropped :
            m.src = s /\ m.seq = n
    <3> SUFFICES ASSUME NEW s \in Senders, NEW n \in 1..sent[s]
                 PROVE  \E m \in Unread \cup handled \cup bounced \cup dropped :
                          m.src = s /\ m.seq = n
      BY Zenon
    <3>1. CASE \E m \in out : m.src = s /\ m.seq = n
      BY <3>1, Zenon
    <3>2. ASSUME NEW c \in Category, NEW i \in 1..Len(Box[c]),
                 Box[c][i].src = s, Box[c][i].seq = n
          PROVE  \E m \in Unread : m.src = s /\ m.seq = n
      BY <2>2, <3>2, Zenon
    <3> QED
      BY <2>5, <3>1, <3>2
  <2>7. /\ handled \cap (bounced \cup dropped) = {}
        /\ \A m \in bounced : m.request
        /\ \A m \in dropped : ~m.request
    BY <1>1, Zenon DEF MailInv, Good, Settled
  <2>8. /\ handled \cap (bounced \cup dropped \cup Unread) = {}
        /\ (bounced \cup dropped) \cap Unread = {}
        /\ bounced \cap dropped = {}
    BY <2>4, <2>7, Zenon
  <2>9. \A c \in Category :
          /\ Range(stack[c]) \cap (Range(queue[c]) \cup Range(cache[c])) = {}
          /\ Range(queue[c]) \cap Range(cache[c]) = {}
          /\ \A m \in Range(stack[c]) \cup Range(queue[c]) \cup Range(cache[c]) :
               m.cat = c
    BY <1>1, PartsPlaced, ZenonT(30)
  <2>10. MsgsOf(stack) \cap MsgsOf(queue) = {}
    BY <2>9, PartsApart, ZenonT(30)
  <2>11. MsgsOf(stack) \cap MsgsOf(cache) = {}
    BY <2>9, PartsApart, ZenonT(30)
  <2>12. MsgsOf(queue) \cap MsgsOf(cache) = {}
    BY <2>9, PartsApart, ZenonT(30)
  <2> QED
    BY <2>6, <2>8, <2>10, <2>11, <2>12, Zenon DEF ExactlyOnce
<1>2. TypeOK /\ MailInv => ExactlyOnce
  BY <1>1, Zenon
<1> QED
  BY <1>2, TypeCorrect, MailboxInvariant, PTL

\* Once cleanup or the destructor closed the mailbox it is empty, and every
\* request that reached it was handled or bounced: its sender gets an answer.
THEOREM ClosingDrains == Spec => []ClosedIsDrained
<1>1. ASSUME IInv, MailInv PROVE ClosedIsDrained
  <2> SUFFICES ASSUME tag = "closed"
               PROVE  Unread = {} /\ \A m \in dropped : ~m.request
    BY Zenon DEF ClosedIsDrained
  <2>1. stack = NoMsgs /\ queue = NoMsgs /\ cache = NoMsgs
    BY <1>1, Zenon DEF IInv, Control, Lifecycle
  <2>2. MsgsOf(stack) = {} /\ MsgsOf(queue) = {} /\ MsgsOf(cache) = {}
    BY <2>1, NoMsgsHoldsNothing, Zenon
  <2>3. \A m \in dropped : ~m.request
    BY <1>1, Zenon DEF MailInv, Good, Settled
  <2> QED
    BY <2>2, <2>3, Zenon DEF Unread
<1>2. IInv /\ MailInv => ClosedIsDrained
  BY <1>1, Zenon
<1> QED
  BY <1>2, Invariant, MailboxInvariant, PTL
=============================================================================
