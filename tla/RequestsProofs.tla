--------------------------- MODULE RequestsProofs ---------------------------
(***************************************************************************)
(* Proofs about Requests, for every number of servers, requests and        *)
(* delegations.  This part defines the inductive invariant, counts answers *)
(* and requests, and shows that every step of a server preserves it; the   *)
(* steps of the client and the theorems are in RequestsInvariant.          *)
(***************************************************************************)
EXTENDS Requests, ListLemmas

Msg == [r : 0..MaxRequests, cat : Category, timer : BOOLEAN]
Promise == [self : BOOLEAN, refs : Nat, cat : Category]

\* The messages that a queue keeps, the answers and the IDs of request r.
InQueue(c) == [r : 0..MaxRequests, cat : {c}, timer : BOOLEAN]
AnswersTo(r) == [r : {r}, cat : Category, timer : {FALSE}]
IdsOf(r) == [r : {r}, cat : Category]

TypeOK ==
  /\ pc \in {"handler", "idle", "dead"}
  /\ awaited \in Seq(Ids) /\ multiplexed \in SUBSET Ids
  /\ queue \in [Category -> Seq(Msg)] /\ cache \in [Category -> Seq(Msg)]
  /\ last \in 0..MaxRequests
  /\ timers \in SUBSET Ids
  /\ up \in [Servers -> BOOLEAN]
  /\ smail \in [Servers -> Seq(Ids)]
  /\ promise \in [Servers -> [Reqs -> Promise]]
  /\ nowhere \in SUBSET Reqs
  /\ answered \in [Reqs -> Nat]
  /\ handled \in [0..MaxRequests -> Nat]

\* The requests of a list of IDs that are r.
Mail(ids, r) == Occurrences(ids, IdsOf(r))

\* What a server has of request r: the request itself or a pending promise.
Due(s, r) == IF promise[s][r].self THEN 1 ELSE 0
Has(s, r) == Mail(smail[s], r) + Due(s, r)

\* What the client has of it: an answer, unread, skipped or read; or nobody
\* will ever have it again.
Unread(r) == Count(queue["normal"], r) + Count(queue["urgent"], r)
Skipped(r) == Count(cache["normal"], r) + Count(cache["urgent"], r)
Lost(r) == IF r \in nowhere THEN 1 ELSE 0
Got(r) == Unread(r) + Skipped(r) + answered[r] + Lost(r)

\* The client or one server has a request that was sent, nobody else does; and
\* nobody has one that was not sent yet.
Sent(r) == IF r <= last THEN 1 ELSE 0
HasOf(r) == [s \in Servers |-> Has(s, r)]
OneHolder(r) == Holders(Sent(r), Got(r), HasOf(r), Servers)
Held == \A r \in Reqs : OneHolder(r)

\* The handler of request r: registered for an awaited response, for another
\* one, or gone because it ran.
Multiplexed(r) == IF \E id \in multiplexed : id.r = r THEN 1 ELSE 0
Handlers(r) == Mail(awaited, r) + Multiplexed(r) + handled[r]

OneHandler ==
  /\ \A r \in Reqs : Handlers(r) <= IF r <= last THEN 1 ELSE 0
  /\ \A i, k \in multiplexed : i.r = k.r => i = k

IInv == TypeOK /\ (pc # "dead" => Held) /\ OneHandler

-----------------------------------------------------------------------------
(* Counting answers and requests. *)

\* The messages that Count counts.
IsAnswer(m, r) == m.r = r /\ m.timer = FALSE

\* What one ID or answer adds to the count of r.
One(id, r) == IF id.r = r THEN 1 ELSE 0

\* Answers to r are the messages with its number that the clock did not send.
LEMMA AnswerSet == \A m \in Msg : \A r : m \in AnswersTo(r) <=> IsAnswer(m, r)
BY Zenon DEF Msg, AnswersTo, IsAnswer

\* The IDs of request r are those with its number.
LEMMA IdSet == \A id \in Ids : \A r : id \in IdsOf(r) <=> id.r = r
BY Zenon DEF Ids, IdsOf

\* Counts are natural numbers, zero for an empty list.
LEMMA CountType == /\ \A q \in Seq(Msg) : \A r : Count(q, r) \in Nat
                   /\ \A r : Count(<<>>, r) = 0
BY OccType, OccEmpty, Zenon DEF Count

\* The same for the requests of a list of IDs.
LEMMA MailType == /\ \A q \in Seq(Ids) : \A r : Mail(q, r) \in Nat
                  /\ \A r : Mail(<<>>, r) = 0
BY OccType, OccEmpty, Zenon DEF Mail

\* Taking a message away takes its answer.
LEMMA CountTail ==
  ASSUME NEW q \in Seq(Msg), q # <<>>, NEW r
  PROVE  /\ Head(q) \in Msg /\ Tail(q) \in Seq(Msg)
         /\ Count(q, r) = Count(Tail(q), r) + (IF IsAnswer(Head(q), r) THEN 1 ELSE 0)
<1>1. Head(q) \in Msg /\ Tail(q) \in Seq(Msg)
  BY HeadTailProperties, Zenon
<1>2. Occurrences(q, AnswersTo(r)) = Occurrences(Tail(q), AnswersTo(r))
                                     + (IF Head(q) \in AnswersTo(r) THEN 1 ELSE 0)
  BY OccTail, Zenon
<1>3. Head(q) \in AnswersTo(r) <=> IsAnswer(Head(q), r)
  BY <1>1, AnswerSet, Zenon
<1> QED
  BY <1>1, <1>2, <1>3, Zenon DEF Count, AnswersTo

\* A message that is appended adds its answer.
LEMMA CountAppend ==
  ASSUME NEW q \in Seq(Msg), NEW m \in Msg, NEW r
  PROVE  /\ Append(q, m) \in Seq(Msg)
         /\ Count(Append(q, m), r) = Count(q, r) + (IF IsAnswer(m, r) THEN 1 ELSE 0)
<1>1. Occurrences(Append(q, m), AnswersTo(r)) = Occurrences(q, AnswersTo(r))
                                     + (IF m \in AnswersTo(r) THEN 1 ELSE 0)
  BY OccAppend, Zenon
<1>2. m \in AnswersTo(r) <=> IsAnswer(m, r)
  BY AnswerSet, Zenon
<1>3. Append(q, m) \in Seq(Msg)
  OBVIOUS
<1> QED
  BY <1>1, <1>2, <1>3, Zenon DEF Count, AnswersTo

\* The answers of two queues add up.
LEMMA CountConcat ==
  ASSUME NEW q \in Seq(Msg), NEW p \in Seq(Msg), NEW r
  PROVE  q \o p \in Seq(Msg) /\ Count(q \o p, r) = Count(q, r) + Count(p, r)
<1>1. q \o p \in Seq(Msg)
  OBVIOUS
<1>2. Occurrences(q \o p, AnswersTo(r))
        = Occurrences(q, AnswersTo(r)) + Occurrences(p, AnswersTo(r))
  BY OccConcat, Zenon
<1> QED
  BY <1>1, <1>2, Zenon DEF Count, AnswersTo

\* A server that takes a request has one less.
LEMMA MailTail ==
  ASSUME NEW q \in Seq(Ids), q # <<>>, NEW r
  PROVE  /\ Head(q) \in Ids /\ Tail(q) \in Seq(Ids)
         /\ Mail(q, r) = Mail(Tail(q), r) + One(Head(q), r)
<1>1. Head(q) \in Ids /\ Tail(q) \in Seq(Ids)
  BY HeadTailProperties, Zenon
<1>2. Mail(q, r) = Mail(Tail(q), r) + (IF Head(q) \in IdsOf(r) THEN 1 ELSE 0)
  BY OccTail, Zenon DEF Mail
<1>3. Head(q) \in IdsOf(r) <=> Head(q).r = r
  BY <1>1, IdSet, Zenon
<1> QED
  BY <1>1, <1>2, <1>3, Zenon DEF One

\* A server that receives a request has one more.
LEMMA MailAppend ==
  ASSUME NEW q \in Seq(Ids), NEW id \in Ids, NEW r
  PROVE  /\ Append(q, id) \in Seq(Ids)
         /\ Mail(Append(q, id), r) = Mail(q, r) + One(id, r)
<1>1. Append(q, id) \in Seq(Ids)
  OBVIOUS
<1>2. Mail(Append(q, id), r) = Mail(q, r) + (IF id \in IdsOf(r) THEN 1 ELSE 0)
  BY OccAppend, Zenon DEF Mail
<1>3. id \in IdsOf(r) <=> id.r = r
  BY IdSet, Zenon
<1> QED
  BY <1>1, <1>2, <1>3, Zenon DEF One

\* An answer is one message, for the request that its ID names.
LEMMA AnswerCounts ==
  ASSUME NEW id \in Ids, NEW r
  PROVE  /\ <<Answer(id)>> \in Seq(Msg)
         /\ Count(<<Answer(id)>>, r) = One(id, r)
<1>1. Answer(id) \in Msg /\ (IsAnswer(Answer(id), r) <=> id.r = r)
  BY RequestsConstants DEF Answer, Ids, Msg, Reqs, IsAnswer
<1>2. <<Answer(id)>> \in Seq(Msg)
  BY <1>1
<1>3. Occurrences(<<Answer(id)>>, AnswersTo(r))
        = IF Answer(id) \in AnswersTo(r) THEN 1 ELSE 0
  BY OccSingle, Zenon
<1>4. Answer(id) \in AnswersTo(r) <=> id.r = r
  BY <1>1, AnswerSet, Zenon
<1> QED
  BY <1>2, <1>3, <1>4, Zenon DEF Count, AnswersTo, One

\* A timeout is not an answer.
LEMMA TimeoutCounts ==
  ASSUME NEW id \in Ids, NEW r
  PROVE  LET m == [r |-> id.r, cat |-> id.cat, timer |-> TRUE]
         IN <<m>> \in Seq(Msg) /\ Count(<<m>>, r) = 0
<1> DEFINE m == [r |-> id.r, cat |-> id.cat, timer |-> TRUE]
<1>1. m \in Msg /\ ~IsAnswer(m, r)
  BY RequestsConstants DEF Ids, Msg, Reqs, IsAnswer
<1> HIDE DEF m
<1>2. <<m>> \in Seq(Msg)
  BY <1>1
<1>3. Occurrences(<<m>>, AnswersTo(r)) = IF m \in AnswersTo(r) THEN 1 ELSE 0
  BY OccSingle, Zenon
<1>4. m \notin AnswersTo(r)
  BY <1>1, AnswerSet, Zenon
<1>5. Count(<<m>>, r) = 0
  BY <1>3, <1>4, Zenon DEF Count, AnswersTo
<1> QED
  BY <1>2, <1>5, Zenon DEF m

\* Bouncing answers every request once.
LEMMA BouncedCounts ==
  ASSUME NEW ids \in Seq(Ids), NEW r
  PROVE  Bounced(ids) \in Seq(Msg) /\ Count(Bounced(ids), r) = Mail(ids, r)
<1>1. \A id \in Ids : Answer(id) \in Msg /\ (IsAnswer(Answer(id), r) <=> id.r = r)
  BY RequestsConstants DEF Answer, Ids, Msg, Reqs, IsAnswer
<1>2. /\ Len(ids) \in Nat /\ DOMAIN ids = 1..Len(ids)
      /\ \A i \in 1..Len(ids) : ids[i] \in Ids
  BY LenProperties, ElementOfSeq, Zenon
<1>3. /\ DOMAIN Bounced(ids) = DOMAIN ids
      /\ \A i \in DOMAIN ids : Bounced(ids)[i] = Answer(ids[i])
  BY <1>2, Zenon DEF Bounced
<1>4. Bounced(ids) \in Seq(Msg)
  BY <1>1, <1>2 DEF Bounced
<1>5. \A i \in DOMAIN ids : Bounced(ids)[i] \in AnswersTo(r) <=> ids[i] \in IdsOf(r)
  BY <1>1, <1>2, <1>3, AnswerSet, IdSet
<1>6. {i \in DOMAIN Bounced(ids) : Bounced(ids)[i] \in AnswersTo(r)}
        = {i \in DOMAIN ids : ids[i] \in IdsOf(r)}
  BY <1>3, <1>5, Zenon
<1> QED
  BY <1>4, <1>6, Zenon DEF Count, Mail, AnswersTo, Occurrences

\* Deliver puts every message into one of the two queues.
LEMMA DeliverAdds ==
  ASSUME TypeOK, pc # "dead", NEW ms \in Seq(Msg), Deliver(ms)
  PROVE  /\ queue' \in [Category -> Seq(Msg)]
         /\ \A r : Unread(r)' = Unread(r) + Count(ms, r)
<1>1. queue' = [c \in Category |-> queue[c] \o Sublist(ms, InQueue(c))]
  BY Zenon DEF Deliver, InQueue
<1>2. \A c \in Category : queue[c] \in Seq(Msg) /\ Sublist(ms, InQueue(c)) \in Seq(Msg)
  <2>1. \A c \in Category : queue[c] \in Seq(Msg)
    BY Zenon DEF TypeOK
  <2>2. \A c : Sublist(ms, InQueue(c)) \in Seq(Msg)
    BY SublistType, Zenon
  <2> QED
    BY <2>1, <2>2, Zenon
<1>3. queue' \in [Category -> Seq(Msg)]
  <2>1. \A c \in Category : queue[c] \o Sublist(ms, InQueue(c)) \in Seq(Msg)
    BY <1>2, CountConcat, Zenon
  <2> QED
    BY <1>1, <2>1, Zenon
<1>4. ASSUME NEW r PROVE Unread(r)' = Unread(r) + Count(ms, r)
  <2>1. PICK N, U : /\ N = [r : {r}, cat : {"normal"}, timer : {FALSE}]
                    /\ U = [r : {r}, cat : {"urgent"}, timer : {FALSE}]
    BY Zenon
  <2>2. /\ Meet(Msg, InQueue("normal"), AnswersTo(r), N)
        /\ Meet(Msg, InQueue("urgent"), AnswersTo(r), U)
    BY <2>1, Zenon DEF Meet, Msg, InQueue, AnswersTo, Category
  <2>3. Split(Msg, N, U, AnswersTo(r))
    BY <2>1, Zenon DEF Split, Msg, AnswersTo, Category
  <2>4. /\ Count(Sublist(ms, InQueue("normal")), r) = Occurrences(ms, N)
        /\ Count(Sublist(ms, InQueue("urgent")), r) = Occurrences(ms, U)
    <3>1. Occurrences(Sublist(ms, InQueue("normal")), AnswersTo(r)) = Occurrences(ms, N)
      BY <2>2, SublistOcc
    <3>2. Occurrences(Sublist(ms, InQueue("urgent")), AnswersTo(r)) = Occurrences(ms, U)
      BY <2>2, SublistOcc
    <3> QED
      BY <3>1, <3>2, Zenon DEF Count, AnswersTo
  <2>5. Count(ms, r) = Occurrences(ms, N) + Occurrences(ms, U)
    <3>1. Occurrences(ms, AnswersTo(r)) = Occurrences(ms, N) + Occurrences(ms, U)
      BY <2>3, OccSplit
    <3> QED
      BY <3>1, Zenon DEF Count, AnswersTo
  <2>6. "normal" \in Category /\ "urgent" \in Category
    BY Zenon DEF Category
  <2>7. ASSUME NEW c \in Category
        PROVE  /\ queue'[c] = queue[c] \o Sublist(ms, InQueue(c))
               /\ Count(queue[c] \o Sublist(ms, InQueue(c)), r)
                    = Count(queue[c], r) + Count(Sublist(ms, InQueue(c)), r)
               /\ Count(queue[c], r) \in Nat
    <3>1. Count(queue[c] \o Sublist(ms, InQueue(c)), r)
            = Count(queue[c], r) + Count(Sublist(ms, InQueue(c)), r)
      BY <1>2, CountConcat
    <3> QED
      BY <1>1, <1>2, <3>1, CountType, Zenon
  <2>8. Occurrences(ms, N) \in Nat /\ Occurrences(ms, U) \in Nat
    BY OccType, Zenon
  <2>9. /\ Count(queue'["normal"], r) = Count(queue["normal"], r) + Occurrences(ms, N)
        /\ Count(queue'["urgent"], r) = Count(queue["urgent"], r) + Occurrences(ms, U)
    BY <2>4, <2>6, <2>7, Zenon
  <2> QED
    BY <2>5, <2>6, <2>7, <2>8, <2>9 DEF Unread
<1> QED
  BY <1>3, <1>4, Zenon

\* An answer that is delivered counts for the request that its ID names.
LEMMA AnswerAdds ==
  ASSUME TypeOK, pc # "dead", NEW id \in Ids, Deliver(<<Answer(id)>>)
  PROVE  /\ queue' \in [Category -> Seq(Msg)]
         /\ \A r : Unread(r)' = Unread(r) + One(id, r)
<1>1. <<Answer(id)>> \in Seq(Msg) /\ \A r : Count(<<Answer(id)>>, r) = One(id, r)
  BY AnswerCounts, Zenon
<1> QED
  BY <1>1, DeliverAdds, Zenon

\* Everything that is counted is a natural number.
LEMMA CountsAreNat ==
  ASSUME TypeOK, NEW r \in Reqs
  PROVE  /\ Unread(r) \in Nat /\ Skipped(r) \in Nat /\ Lost(r) \in {0, 1}
         /\ answered[r] \in Nat /\ Got(r) \in Nat
         /\ \A s \in Servers : /\ Mail(smail[s], r) \in Nat /\ Due(s, r) \in {0, 1}
                               /\ Has(s, r) \in Nat
<1>1. "normal" \in Category /\ "urgent" \in Category
  BY Zenon DEF Category
<1>2. /\ Count(queue["normal"], r) \in Nat /\ Count(queue["urgent"], r) \in Nat
      /\ Count(cache["normal"], r) \in Nat /\ Count(cache["urgent"], r) \in Nat
  BY <1>1, CountType, Zenon DEF TypeOK
<1>3. \A s \in Servers : Mail(smail[s], r) \in Nat
  BY MailType, Zenon DEF TypeOK
<1>4. answered[r] \in Nat
  BY Zenon DEF TypeOK
<1> QED
  BY <1>2, <1>3, <1>4 DEF Unread, Skipped, Lost, Got, Due, Has

\* So it is after a step.
LEMMA CountsAreNatNext ==
  ASSUME TypeOK', NEW r \in Reqs
  PROVE  /\ Unread(r)' \in Nat /\ Skipped(r)' \in Nat /\ Lost(r)' \in {0, 1}
         /\ answered'[r] \in Nat /\ Got(r)' \in Nat
         /\ \A s \in Servers : /\ Mail(smail'[s], r) \in Nat /\ Due(s, r)' \in {0, 1}
                               /\ Has(s, r)' \in Nat
<1>1. "normal" \in Category /\ "urgent" \in Category
  BY Zenon DEF Category
<1>2. /\ Count(queue'["normal"], r) \in Nat /\ Count(queue'["urgent"], r) \in Nat
      /\ Count(cache'["normal"], r) \in Nat /\ Count(cache'["urgent"], r) \in Nat
  BY <1>1, CountType, Zenon DEF TypeOK
<1>3. \A s \in Servers : Mail(smail'[s], r) \in Nat
  BY MailType, Zenon DEF TypeOK
<1>4. answered'[r] \in Nat
  BY Zenon DEF TypeOK
<1> QED
  BY <1>2, <1>3, <1>4 DEF Unread, Skipped, Lost, Got, Due, Has

-----------------------------------------------------------------------------
(* One holder. *)

\* What the servers have, as a function.
LEMMA HasOfType ==
  ASSUME TypeOK, NEW r \in Reqs
  PROVE  HasOf(r) \in [Servers -> Nat] /\ Sent(r) \in {0, 1}
BY CountsAreNat, Zenon DEF HasOf, Sent

\* Whoever has a request is the only one who has it.
LEMMA AtMostOne ==
  ASSUME TypeOK, Held, NEW r \in Reqs, NEW s \in Servers
  PROVE  Got(r) + Has(s, r) <= 1
<1>1. Got(r) \in Nat /\ Has(s, r) \in Nat /\ Sent(r) \in {0, 1}
  BY CountsAreNat, HasOfType, Zenon
<1>2. Holders(Sent(r), Got(r), HasOf(r), Servers) /\ HasOf(r)[s] = Has(s, r)
  BY Zenon DEF Held, OneHolder, HasOf
<1> QED
  BY <1>1, <1>2 DEF Holders, Alone

\* A step in which server s hands something to server d, possibly itself, or to
\* the client, or nothing moves.
LEMMA Moves ==
  ASSUME TypeOK, TypeOK', Held, last' = last, NEW s \in Servers, NEW d \in Servers,
         \A r \in Reqs : s = d => Got(r)' + Has(s, r)' = Got(r) + Has(s, r),
         \A r \in Reqs : s # d => Got(r)' + Has(s, r)' + Has(d, r)'
                                    = Got(r) + Has(s, r) + Has(d, r),
         \A t \in Servers \ {s, d} : smail'[t] = smail[t] /\ promise'[t] = promise[t]
  PROVE  Held'
<1>1. ASSUME NEW r \in Reqs PROVE OneHolder(r)'
  <2>1. PICK h, f : h = HasOf(r) /\ f = HasOf(r)'
    BY Zenon
  <2>2. /\ h \in [Servers -> Nat] /\ f \in [Servers -> Nat] /\ Sent(r) \in {0, 1}
        /\ Got(r) \in Nat /\ Got(r)' \in Nat
    BY <2>1, HasOfType, CountsAreNat, CountsAreNatNext, Zenon DEF HasOf
  <2>3. /\ \A t \in Servers : h[t] = Has(t, r) /\ f[t] = Has(t, r)'
        /\ \A t \in Servers \ {s, d} : Has(t, r)' = Has(t, r)
    BY <2>1, Zenon DEF HasOf, Has, Due
  <2>4. Holders(Sent(r), Got(r), h, Servers) /\ Sent(r)' = Sent(r)
    BY <2>1, Zenon DEF Held, OneHolder, Sent
  <2>5. Holders(Sent(r), Got(r)', f, Servers)
    BY <2>2, <2>3, <2>4, HandOver
  <2> QED
    BY <2>1, <2>4, <2>5, Zenon DEF OneHolder
<1> QED
  BY <1>1, Zenon DEF Held

\* A step of the client that moves no answer but within its own mailbox.
LEMMA ClientStep ==
  ASSUME Held, last' = last,
         \A r \in Reqs : Got(r)' = Got(r),
         \A r \in Reqs : \A s \in Servers : Has(s, r)' = Has(s, r)
  PROVE  Held'
BY Zenon DEF Held, OneHolder, Sent, HasOf

\* The handlers only change with the client.
LEMMA KeepHandlers ==
  ASSUME OneHandler, UNCHANGED <<awaited, multiplexed, last, handled>>
  PROVE  OneHandler'
BY Zenon DEF OneHandler, Handlers, Multiplexed

\* A request lands in the mailbox of the server or bounces at once.
LEMMA SendRequestAdds ==
  ASSUME TypeOK, pc # "dead", NEW d \in Servers, NEW id \in Ids, SendRequest(d, id)
  PROVE  /\ queue' \in [Category -> Seq(Msg)] /\ smail' \in [Servers -> Seq(Ids)]
         /\ \A t \in Servers \ {d} : smail'[t] = smail[t]
         /\ \A r : Unread(r)' + Mail(smail'[d], r)
                     = Unread(r) + Mail(smail[d], r) + One(id, r)
<1>1. smail[d] \in Seq(Ids)
  BY Zenon DEF TypeOK
<1>2. \A r : Unread(r) \in Nat /\ Mail(smail[d], r) \in Nat /\ One(id, r) \in {0, 1}
  BY <1>1, CountType, MailType DEF TypeOK, Unread, Category, One
<1>3. CASE up[d]
  <2>1. smail' = [smail EXCEPT ![d] = Append(smail[d], id)] /\ queue' = queue
    BY <1>3, Zenon DEF SendRequest
  <2>2. /\ Append(smail[d], id) \in Seq(Ids)
        /\ \A r : Mail(Append(smail[d], id), r) = Mail(smail[d], r) + One(id, r)
    BY <1>1, MailAppend, Zenon
  <2>3. /\ smail'[d] = Append(smail[d], id) /\ smail' \in [Servers -> Seq(Ids)]
        /\ \A t \in Servers \ {d} : smail'[t] = smail[t]
    BY <2>1, <2>2, Zenon DEF TypeOK
  <2>4. \A r : /\ Unread(r)' = Unread(r)
               /\ Mail(smail'[d], r) = Mail(smail[d], r) + One(id, r)
    BY <2>1, <2>2, <2>3, Zenon DEF Unread
  <2> QED
    <3>1. \A r : Unread(r)' + Mail(smail'[d], r) = Unread(r) + Mail(smail[d], r) + One(id, r)
      BY <1>2, <2>4
    <3> QED
      BY <2>1, <2>3, <3>1, Zenon DEF TypeOK
<1>4. CASE ~up[d]
  <2>1. Deliver(<<Answer(id)>>) /\ smail' = smail
    BY <1>4, Zenon DEF SendRequest
  <2>2. queue' \in [Category -> Seq(Msg)] /\ \A r : Unread(r)' = Unread(r) + One(id, r)
    BY <2>1, AnswerAdds, Zenon
  <2> QED
    <3>1. \A r : Unread(r)' + Mail(smail'[d], r) = Unread(r) + Mail(smail[d], r) + One(id, r)
      BY <1>2, <2>1, <2>2
    <3> QED
      BY <2>1, <2>2, <3>1, Zenon DEF TypeOK
<1> QED
  BY <1>3, <1>4, Zenon

-----------------------------------------------------------------------------
(* The steps of a server. *)

\* What a server may change.
ServerTypes ==
  /\ queue \in [Category -> Seq(Msg)]
  /\ smail \in [Servers -> Seq(Ids)]
  /\ promise \in [Servers -> [Reqs -> Promise]]
  /\ up \in [Servers -> BOOLEAN]

\* A step of server s leaves the client alone and types intact.
LEMMA ServerTypeOK ==
  ASSUME TypeOK, ServerTypes', nowhere' \in SUBSET Reqs,
         UNCHANGED <<clientVars, cache, timers>>
  PROVE  TypeOK'
BY Zenon DEF TypeOK, ServerTypes, clientVars

\* What the client has only changes with its queues.
LEMMA GotWithQueue ==
  ASSUME TypeOK, TypeOK', UNCHANGED <<cache, answered, nowhere>>, NEW r \in Reqs
  PROVE  Got(r)' + Unread(r) = Got(r) + Unread(r)'
<1>1. /\ Unread(r) \in Nat /\ Skipped(r) \in Nat /\ Lost(r) \in {0, 1}
      /\ answered[r] \in Nat
  BY CountsAreNat, Zenon
<1>2. Unread(r)' \in Nat
  BY CountsAreNatNext, Zenon
<1>3. Skipped(r)' = Skipped(r) /\ Lost(r)' = Lost(r) /\ answered'[r] = answered[r]
  BY Zenon DEF Skipped, Lost
<1> QED
  BY <1>1, <1>2, <1>3 DEF Got

\* A step of server s preserves the invariant when it hands to the client, or to
\* server d, what it has no longer.
LEMMA ServerPasses ==
  ASSUME IInv, pc # "dead", NEW s \in Servers, NEW d \in Servers, ServerTypes',
         UNCHANGED <<clientVars, cache, timers, nowhere>>,
         \A r \in Reqs : s = d => Unread(r)' + Has(s, r)' = Unread(r) + Has(s, r),
         \A r \in Reqs : s # d => Unread(r)' + Has(s, r)' + Has(d, r)'
                                    = Unread(r) + Has(s, r) + Has(d, r),
         \A t \in Servers \ {s, d} : smail'[t] = smail[t] /\ promise'[t] = promise[t]
  PROVE  IInv'
<1>1. TypeOK'
  BY ServerTypeOK, Zenon DEF IInv, TypeOK
<1>2. ASSUME NEW r \in Reqs
      PROVE  /\ s = d => Got(r)' + Has(s, r)' = Got(r) + Has(s, r)
             /\ s # d => Got(r)' + Has(s, r)' + Has(d, r)' = Got(r) + Has(s, r) + Has(d, r)
  <2>1. Got(r)' + Unread(r) = Got(r) + Unread(r)'
    BY <1>1, GotWithQueue, Zenon DEF IInv, clientVars
  <2>2. /\ Unread(r) \in Nat /\ Got(r) \in Nat /\ Has(s, r) \in Nat /\ Has(d, r) \in Nat
        /\ Unread(r)' \in Nat /\ Got(r)' \in Nat /\ Has(s, r)' \in Nat /\ Has(d, r)' \in Nat
    BY <1>1, CountsAreNat, CountsAreNatNext, Zenon DEF IInv
  <2> QED
    BY <2>1, <2>2
<1>3. Held'
  BY <1>1, <1>2, Moves, Zenon DEF IInv, clientVars
<1>4. OneHandler'
  BY KeepHandlers, Zenon DEF IInv, clientVars
<1> QED
  BY <1>1, <1>3, <1>4, Zenon DEF IInv

\* The same for a step without a receiver.
LEMMA ServerHands ==
  ASSUME IInv, pc # "dead", NEW s \in Servers, ServerTypes',
         UNCHANGED <<clientVars, cache, timers, nowhere>>,
         \A r \in Reqs : Unread(r)' + Has(s, r)' = Unread(r) + Has(s, r),
         \A t \in Servers \ {s} : smail'[t] = smail[t] /\ promise'[t] = promise[t]
  PROVE  IInv'
BY ServerPasses, Zenon

\* respond_to: the request of the handler becomes an answer.
LEMMA RespondStep ==
  ASSUME IInv, pc # "dead", NEW s \in Servers, Respond(s)
  PROVE  IInv'
<1> DEFINE id == Head(smail[s])
<1>1. /\ smail[s] \in Seq(Ids) /\ smail[s] # <<>>
      /\ smail' = [smail EXCEPT ![s] = Tail(smail[s])]
      /\ UNCHANGED <<clientVars, cache, timers, up, promise, hops, nowhere>>
  BY Zenon DEF IInv, TypeOK, Respond, TakeRequest
<1>2. /\ id \in Ids /\ Tail(smail[s]) \in Seq(Ids)
      /\ \A r : Mail(smail[s], r) = Mail(Tail(smail[s]), r) + One(id, r)
  BY <1>1, MailTail, Zenon
<1>3. Deliver(<<Answer(id)>>)
  BY Zenon DEF Respond
<1> HIDE DEF id
<1>5. queue' \in [Category -> Seq(Msg)] /\ \A r : Unread(r)' = Unread(r) + One(id, r)
  BY <1>2, <1>3, AnswerAdds, Zenon DEF IInv
<1>6. ServerTypes'
  BY <1>1, <1>2, <1>5, Zenon DEF IInv, TypeOK, ServerTypes
<1>7. ASSUME NEW r \in Reqs
      PROVE  Unread(r)' + Has(s, r)' = Unread(r) + Has(s, r)
  <2>1. smail'[s] = Tail(smail[s]) /\ Due(s, r)' = Due(s, r)
    BY <1>1, Zenon DEF Due, IInv, TypeOK
  <2>2. /\ Unread(r) \in Nat /\ Due(s, r) \in {0, 1} /\ One(id, r) \in {0, 1}
        /\ Mail(Tail(smail[s]), r) \in Nat
    BY <1>2, CountsAreNat, MailType, Zenon DEF IInv, One
  <2>3. Has(s, r)' = Mail(Tail(smail[s]), r) + Due(s, r)
    BY <2>1, Zenon DEF Has
  <2>4. Has(s, r) = (Mail(Tail(smail[s]), r) + One(id, r)) + Due(s, r)
    BY <1>2, Zenon DEF Has
  <2>5. Unread(r)' = Unread(r) + One(id, r)
    BY <1>5, Zenon
  <2> QED
    BY <2>2, <2>3, <2>4, <2>5
<1>8. \A t \in Servers \ {s} : smail'[t] = smail[t] /\ promise'[t] = promise[t]
  BY <1>1, Zenon DEF IInv, TypeOK
<1> QED
  BY <1>1, <1>6, <1>7, <1>8, ServerHands, Zenon DEF clientVars

\* What cancel() and the destruction of a copy leave of a promise.
LEMMA PromiseShrinks ==
  ASSUME NEW p \in Promise, p.refs > 0
  PROVE  /\ Cancel(p) \in Promise /\ Cancel(p).self = FALSE
         /\ Forget(p) \in Promise
         /\ Forget(p).self = IF p.refs = 1 THEN FALSE ELSE p.self
BY DEF Promise, Cancel, Forget, NoPromise, Category

\* Changing the promise for r changes what the server owes for r only.
LEMMA DueChanges ==
  ASSUME TypeOK, NEW s \in Servers, NEW r \in Reqs, NEW p \in Promise,
         promise' = [promise EXCEPT ![s][r] = p]
  PROVE  /\ promise' \in [Servers -> [Reqs -> Promise]]
         /\ \A t \in Servers \ {s} : promise'[t] = promise[t]
         /\ \A q \in Reqs : q # r => Due(s, q)' = Due(s, q)
         /\ Due(s, r)' = IF p.self THEN 1 ELSE 0
<1>1. /\ promise' \in [Servers -> [Reqs -> Promise]]
      /\ \A t \in Servers \ {s} : promise'[t] = promise[t]
      /\ \A q \in Reqs : q # r => promise'[s][q] = promise[s][q]
      /\ promise'[s][r] = p
  BY Zenon DEF TypeOK
<1> QED
  BY <1>1, Zenon DEF Due

\* The ID of a promise names the request.
LEMMA PromiseIdType ==
  ASSUME TypeOK, NEW s \in Servers, NEW r \in Reqs
  PROVE  PromiseId(s, r) \in Ids /\ \A q : One(PromiseId(s, r), q) = IF q = r THEN 1 ELSE 0
<1>1. promise[s][r] \in Promise
  BY Zenon DEF TypeOK
<1> QED
  BY <1>1, Zenon DEF PromiseId, Promise, Ids, One

\* The server has the request of its handler once, so that no promise for it is
\* pending: a promise for it takes the place of the request.
LEMMA TakenPromise ==
  ASSUME TypeOK, Held, NEW s \in Servers, smail[s] # <<>>, NEW n \in Nat,
         promise' = [promise EXCEPT ![s][Head(smail[s]).r] =
                       [self |-> TRUE, refs |-> n, cat |-> Head(smail[s]).cat]]
  PROVE  /\ promise' \in [Servers -> [Reqs -> Promise]]
         /\ \A t \in Servers \ {s} : promise'[t] = promise[t]
         /\ \A r \in Reqs : Has(s, r) = Mail(Tail(smail[s]), r) + Due(s, r)'
<1>1. PICK id, p : id = Head(smail[s]) /\ p = [self |-> TRUE, refs |-> n, cat |-> id.cat]
  BY Zenon
<1>2. /\ id \in Ids /\ Tail(smail[s]) \in Seq(Ids)
      /\ \A r : Mail(smail[s], r) = Mail(Tail(smail[s]), r) + One(id, r)
  BY <1>1, MailTail, Zenon DEF TypeOK
<1>3. p \in Promise /\ p.self = TRUE /\ id.r \in Reqs
  BY <1>1, <1>2, Zenon DEF Promise, Ids
<1>4. /\ promise' \in [Servers -> [Reqs -> Promise]]
      /\ \A t \in Servers \ {s} : promise'[t] = promise[t]
      /\ \A r \in Reqs : r # id.r => Due(s, r)' = Due(s, r)
      /\ Due(s, id.r)' = 1
  BY <1>1, <1>3, DueChanges, Zenon
<1>5. ASSUME NEW r \in Reqs
      PROVE  Has(s, r) = Mail(Tail(smail[s]), r) + Due(s, r)'
  <2>1. /\ Due(s, r) \in {0, 1} /\ Got(r) \in Nat /\ Got(r) + Has(s, r) <= 1
        /\ Mail(Tail(smail[s]), r) \in Nat
    BY <1>2, CountsAreNat, AtMostOne, MailType, Zenon
  <2>2. Has(s, r) = (Mail(Tail(smail[s]), r) + One(id, r)) + Due(s, r)
    BY <1>2, Zenon DEF Has
  <2>3. One(id, r) = IF r = id.r THEN 1 ELSE 0
    BY Zenon DEF One
  <2> QED
    BY <1>4, <2>1, <2>2, <2>3
<1> QED
  BY <1>4, <1>5, Zenon

\* make_response_promise: the request of the handler becomes a promise.
LEMMA MakePromiseStep ==
  ASSUME IInv, pc # "dead", NEW s \in Servers, NEW n \in 1..2, MakePromise(s, n)
  PROVE  IInv'
<1>1. /\ smail[s] # <<>> /\ smail[s] \in Seq(Ids) /\ n \in Nat
      /\ smail' = [smail EXCEPT ![s] = Tail(smail[s])]
      /\ promise' = [promise EXCEPT ![s][Head(smail[s]).r] =
                       [self |-> TRUE, refs |-> n, cat |-> Head(smail[s]).cat]]
      /\ UNCHANGED <<clientVars, queue, cache, timers, up, hops, nowhere>>
  BY DEF IInv, TypeOK, MakePromise, TakeRequest
<1>2. /\ promise' \in [Servers -> [Reqs -> Promise]]
      /\ \A t \in Servers \ {s} : promise'[t] = promise[t]
      /\ \A r \in Reqs : Has(s, r) = Mail(Tail(smail[s]), r) + Due(s, r)'
  BY <1>1, TakenPromise, Zenon DEF IInv
<1>3. /\ smail'[s] = Tail(smail[s]) /\ smail' \in [Servers -> Seq(Ids)]
      /\ \A t \in Servers \ {s} : smail'[t] = smail[t]
  BY <1>1 DEF IInv, TypeOK
<1>4. ServerTypes'
  BY <1>1, <1>2, <1>3, Zenon DEF IInv, TypeOK, ServerTypes
<1>5. \A r \in Reqs : Unread(r)' + Has(s, r)' = Unread(r) + Has(s, r)
  BY <1>1, <1>2, <1>3, Zenon DEF Has, Unread
<1> QED
  BY <1>1, <1>2, <1>3, <1>4, <1>5, ServerHands, Zenon DEF clientVars

\* The unread requests of a server that bounce are answered once each.
LEMMA BouncedAdds ==
  ASSUME TypeOK, pc # "dead", NEW ids \in Seq(Ids), Deliver(Bounced(ids))
  PROVE  /\ queue' \in [Category -> Seq(Msg)]
         /\ \A r : Unread(r)' = Unread(r) + Mail(ids, r)
<1>1. Bounced(ids) \in Seq(Msg) /\ \A r : Count(Bounced(ids), r) = Mail(ids, r)
  BY BouncedCounts, Zenon
<1> QED
  BY <1>1, DeliverAdds, Zenon

\* close: every unread request bounces, promises remain.
LEMMA CloseStep ==
  ASSUME IInv, pc # "dead", NEW s \in Servers,
         smail' = [smail EXCEPT ![s] = <<>>], up' = [up EXCEPT ![s] = FALSE],
         Deliver(Bounced(smail[s])),
         UNCHANGED <<clientVars, cache, timers, promise, hops, nowhere>>
  PROVE  IInv'
<1>1. smail[s] \in Seq(Ids)
  BY Zenon DEF IInv, TypeOK
<1>2. /\ queue' \in [Category -> Seq(Msg)]
      /\ \A r : Unread(r)' = Unread(r) + Mail(smail[s], r)
  BY <1>1, BouncedAdds, Zenon DEF IInv
<1>3. /\ ServerTypes' /\ smail'[s] = <<>>
      /\ \A t \in Servers \ {s} : smail'[t] = smail[t] /\ promise'[t] = promise[t]
  BY <1>2 DEF IInv, TypeOK, ServerTypes
<1>4. ASSUME NEW r \in Reqs
      PROVE  Unread(r)' + Has(s, r)' = Unread(r) + Has(s, r)
  <2>1. Unread(r) \in Nat /\ Due(s, r) \in {0, 1} /\ Mail(smail[s], r) \in Nat
    BY CountsAreNat, Zenon DEF IInv
  <2>2. Has(s, r)' = 0 + Due(s, r) /\ Has(s, r) = Mail(smail[s], r) + Due(s, r)
    BY <1>3, MailType, Zenon DEF Has, Due
  <2> QED
    BY <1>2, <2>1, <2>2
<1> QED
  BY <1>3, <1>4, ServerHands, Zenon DEF clientVars

\* handle_exception: the request of the handler is answered like the unread ones
\* that bounce, or it stays with the promise.
LEMMA ThrowStep ==
  ASSUME IInv, pc # "dead", NEW s \in Servers, NEW made \in BOOLEAN, Throw(s, made)
  PROVE  IInv'
<1>1. CASE ~made
  BY <1>1, CloseStep, Zenon DEF Throw
<1>2. CASE made
  <2>1. /\ smail[s] # <<>> /\ smail[s] \in Seq(Ids)
        /\ smail' = [smail EXCEPT ![s] = <<>>] /\ up' = [up EXCEPT ![s] = FALSE]
        /\ promise' = [promise EXCEPT ![s][Head(smail[s]).r] =
                         [self |-> TRUE, refs |-> 1, cat |-> Head(smail[s]).cat]]
        /\ Deliver(Bounced(Tail(smail[s])))
        /\ UNCHANGED <<clientVars, cache, timers, hops, nowhere>>
    BY <1>2, Zenon DEF IInv, TypeOK, Throw, TakeRequest
  <2>2. /\ promise' \in [Servers -> [Reqs -> Promise]]
        /\ \A t \in Servers \ {s} : promise'[t] = promise[t]
        /\ \A r \in Reqs : Has(s, r) = Mail(Tail(smail[s]), r) + Due(s, r)'
    BY <2>1, TakenPromise, Zenon DEF IInv
  <2>3. /\ Tail(smail[s]) \in Seq(Ids) /\ queue' \in [Category -> Seq(Msg)]
        /\ \A r : Unread(r)' = Unread(r) + Mail(Tail(smail[s]), r)
    <3>1. Tail(smail[s]) \in Seq(Ids)
      BY <2>1, MailTail, Zenon
    <3> QED
      BY <2>1, <3>1, BouncedAdds, Zenon DEF IInv
  <2>4. /\ ServerTypes' /\ smail'[s] = <<>>
        /\ \A t \in Servers \ {s} : smail'[t] = smail[t]
    BY <2>1, <2>2, <2>3 DEF IInv, TypeOK, ServerTypes
  <2>5. ASSUME NEW r \in Reqs
        PROVE  Unread(r)' + Has(s, r)' = Unread(r) + Has(s, r)
    <3>1. Unread(r) \in Nat /\ Mail(Tail(smail[s]), r) \in Nat /\ Due(s, r)' \in {0, 1}
      BY <2>3, CountsAreNat, MailType, Zenon DEF IInv, Due
    <3>2. Has(s, r)' = 0 + Due(s, r)'
      BY <2>4, MailType, Zenon DEF Has
    <3> QED
      BY <2>2, <2>3, <3>1, <3>2
  <2> QED
    BY <2>1, <2>2, <2>4, <2>5, ServerHands, Zenon DEF clientVars
<1> QED
  BY <1>1, <1>2, Zenon

\* response_promise::deliver: the promise becomes an answer.
LEMMA FulfilStep ==
  ASSUME IInv, pc # "dead", NEW s \in Servers, NEW r \in Reqs, Fulfil(s, r)
  PROVE  IInv'
<1> DEFINE id == PromiseId(s, r)
           new == Cancel(promise[s][r])
<1>1. /\ promise[s][r] \in Promise /\ promise[s][r].self = TRUE /\ promise[s][r].refs > 0
      /\ promise' = [promise EXCEPT ![s][r] = new]
      /\ Deliver(<<Answer(id)>>)
      /\ UNCHANGED <<clientVars, cache, timers, up, smail, hops, nowhere>>
  <2>1. promise[s][r] \in Promise
    BY Zenon DEF IInv, TypeOK
  <2> QED
    BY <2>1, Zenon DEF Fulfil, Pending, Promise
<1>2. new \in Promise /\ new.self = FALSE
  BY <1>1, PromiseShrinks, Zenon
<1>3. id \in Ids /\ \A q : One(id, q) = IF q = r THEN 1 ELSE 0
  BY PromiseIdType, Zenon DEF IInv
<1> HIDE DEF id, new
<1>4. /\ promise' \in [Servers -> [Reqs -> Promise]]
      /\ \A t \in Servers \ {s} : promise'[t] = promise[t]
      /\ \A q \in Reqs : q # r => Due(s, q)' = Due(s, q)
      /\ Due(s, r)' = 0
  BY <1>1, <1>2, DueChanges, Zenon DEF IInv
<1>6. queue' \in [Category -> Seq(Msg)] /\ \A q : Unread(q)' = Unread(q) + One(id, q)
  BY <1>1, <1>3, AnswerAdds, Zenon DEF IInv
<1>7. ServerTypes'
  BY <1>1, <1>4, <1>6, Zenon DEF IInv, TypeOK, ServerTypes
<1>8. ASSUME NEW q \in Reqs
      PROVE  Unread(q)' + Has(s, q)' = Unread(q) + Has(s, q)
  <2>1. Unread(q) \in Nat /\ Mail(smail[s], q) \in Nat /\ Due(s, q) \in {0, 1}
    BY CountsAreNat, Zenon DEF IInv
  <2>2. Has(s, q)' = Mail(smail[s], q) + Due(s, q)' /\ Has(s, q) = Mail(smail[s], q) + Due(s, q)
    BY <1>1, Zenon DEF Has
  <2>3. Unread(q)' = Unread(q) + (IF q = r THEN 1 ELSE 0)
    BY <1>3, <1>6, Zenon
  <2>4. Due(s, r) = 1
    BY <1>1, Zenon DEF Due
  <2> QED
    BY <1>4, <2>1, <2>2, <2>3, <2>4
<1> QED
  BY <1>1, <1>4, <1>7, <1>8, ServerHands, Zenon DEF clientVars

\* ~state: the last copy of a pending promise answers.
LEMMA ReleaseStep ==
  ASSUME IInv, pc # "dead", NEW s \in Servers, NEW r \in Reqs, Release(s, r)
  PROVE  IInv'
<1> DEFINE id == PromiseId(s, r)
           new == Forget(promise[s][r])
           gone == promise[s][r].refs = 1 /\ promise[s][r].self
<1>1. /\ promise[s][r] \in Promise /\ promise[s][r].refs > 0
      /\ promise' = [promise EXCEPT ![s][r] = new]
      /\ IF gone THEN Deliver(<<Answer(id)>>) ELSE queue' = queue
      /\ UNCHANGED <<clientVars, cache, timers, up, smail, hops, nowhere>>
  <2>1. promise[s][r] \in Promise
    BY Zenon DEF IInv, TypeOK
  <2> QED
    BY <2>1, Zenon DEF Release
<1>2. new \in Promise /\ new.self = IF promise[s][r].refs = 1 THEN FALSE ELSE promise[s][r].self
  BY <1>1, PromiseShrinks, Zenon
<1>3. id \in Ids /\ \A q : One(id, q) = IF q = r THEN 1 ELSE 0
  BY PromiseIdType, Zenon DEF IInv
<1> HIDE DEF id, new
<1>4. /\ promise' \in [Servers -> [Reqs -> Promise]]
      /\ \A t \in Servers \ {s} : promise'[t] = promise[t]
      /\ \A q \in Reqs : q # r => Due(s, q)' = Due(s, q)
      /\ Due(s, r)' = IF new.self THEN 1 ELSE 0
  BY <1>1, <1>2, DueChanges, Zenon DEF IInv
<1>5. /\ queue' \in [Category -> Seq(Msg)]
      /\ \A q : Unread(q)' = IF gone THEN Unread(q) + One(id, q) ELSE Unread(q)
  <2>1. CASE gone
    BY <1>1, <1>3, <2>1, AnswerAdds, Zenon DEF IInv
  <2>2. CASE ~gone
    BY <1>1, <2>2, Zenon DEF IInv, TypeOK, Unread
  <2> QED
    BY <2>1, <2>2, Zenon
<1>6. ServerTypes'
  BY <1>1, <1>4, <1>5, Zenon DEF IInv, TypeOK, ServerTypes
<1>7. ASSUME NEW q \in Reqs
      PROVE  Unread(q)' + Has(s, q)' = Unread(q) + Has(s, q)
  <2>1. Unread(q) \in Nat /\ Mail(smail[s], q) \in Nat /\ Due(s, q) \in {0, 1}
    BY CountsAreNat, Zenon DEF IInv
  <2>2. Has(s, q)' = Mail(smail[s], q) + Due(s, q)' /\ Has(s, q) = Mail(smail[s], q) + Due(s, q)
    BY <1>1, Zenon DEF Has
  <2>3. Unread(q)' = IF gone /\ q = r THEN Unread(q) + 1 ELSE Unread(q)
    <3>1. CASE gone
      BY <1>3, <1>5, <2>1, <3>1
    <3>2. CASE ~gone
      BY <1>5, <3>2, Zenon
    <3> QED
      BY <3>1, <3>2, Zenon
  <2>4. CASE q # r
    BY <1>4, <2>1, <2>2, <2>3, <2>4, Zenon
  <2>5. CASE q = r /\ gone
    <3>1. Due(s, r) = 1 /\ Due(s, r)' = 0
      BY <1>2, <1>4, <2>5, Zenon DEF Due
    <3> QED
      BY <2>1, <2>2, <2>3, <2>5, <3>1
  <2>6. CASE q = r /\ ~gone
    <3>1. Due(s, r)' = Due(s, r)
      BY <1>1, <1>2, <1>4, <2>6, Zenon DEF Due, Promise
    <3> QED
      BY <2>1, <2>2, <2>3, <2>6, <3>1, Zenon
  <2> QED
    BY <2>4, <2>5, <2>6, Zenon
<1> QED
  BY <1>1, <1>4, <1>6, <1>7, ServerHands, Zenon DEF clientVars

\* A delegated request keeps its number.
LEMMA NewIdType ==
  ASSUME NEW id \in Ids, NEW cat
  PROVE  LET new == IF cat = "urgent" THEN [id EXCEPT !.cat = cat] ELSE id
         IN new \in Ids /\ new.r = id.r
BY Zenon DEF Ids, Category

\* response_promise::delegate: the promise becomes a request to another server,
\* to this server, an answer of a closed mailbox, or nothing at all.
LEMMA DelegateStep ==
  ASSUME IInv, pc # "dead", NEW s \in Servers, NEW r \in Reqs, NEW d \in Dest, NEW cat,
         Delegate(s, r, d, cat)
  PROVE  IInv'
<1> DEFINE id == PromiseId(s, r)
           moved == IF cat = "urgent" THEN [id EXCEPT !.cat = cat] ELSE id
           new == Cancel(promise[s][r])
<1>1. /\ promise[s][r] \in Promise /\ promise[s][r].self = TRUE /\ promise[s][r].refs > 0
      /\ promise' = [promise EXCEPT ![s][r] = new]
      /\ UNCHANGED <<clientVars, cache, timers, up>>
      /\ d = Invalid => /\ nowhere' = nowhere \cup {id.r}
                        /\ UNCHANGED <<queue, smail>>
      /\ d # Invalid => SendRequest(d, moved) /\ nowhere' = nowhere
  <2>1. promise[s][r] \in Promise
    BY Zenon DEF IInv, TypeOK
  <2> QED
    BY <2>1, Zenon DEF Delegate, Forward, Pending, Promise
<1>2. new \in Promise /\ new.self = FALSE
  BY <1>1, PromiseShrinks, Zenon
<1>3. id \in Ids /\ id.r = r
  BY PromiseIdType, Zenon DEF IInv, PromiseId
<1>4. moved \in Ids /\ moved.r = r
  <2> HIDE DEF id
  <2> QED BY <1>3, NewIdType, Zenon
<1> HIDE DEF id, new, moved
<1>5. /\ promise' \in [Servers -> [Reqs -> Promise]]
      /\ \A t \in Servers \ {s} : promise'[t] = promise[t]
      /\ \A q \in Reqs : q # r => Due(s, q)' = Due(s, q)
      /\ Due(s, r)' = 0
  BY <1>1, <1>2, DueChanges, Zenon DEF IInv
<1>6. Due(s, r) = 1 /\ \A q : One(moved, q) = IF q = r THEN 1 ELSE 0
  BY <1>1, <1>4, Zenon DEF Due, One
<1>7. OneHandler'
  BY <1>1, KeepHandlers, Zenon DEF IInv, clientVars
<1>8. CASE d = Invalid
  <2>1. nowhere' = nowhere \cup {r} /\ queue' = queue /\ smail' = smail
    BY <1>1, <1>3, <1>8, Zenon
  <2>2. TypeOK'
    BY <1>1, <1>5, <2>1, ServerTypeOK, Zenon DEF IInv, TypeOK, ServerTypes
  <2>3. ASSUME NEW q \in Reqs
        PROVE  Got(q)' + Has(s, q)' = Got(q) + Has(s, q)
    <3>1. /\ Unread(q) \in Nat /\ Skipped(q) \in Nat /\ Lost(q) \in {0, 1}
          /\ answered[q] \in Nat /\ Mail(smail[s], q) \in Nat /\ Due(s, q) \in {0, 1}
          /\ Got(q) + Has(s, q) <= 1
      BY CountsAreNat, AtMostOne, Zenon DEF IInv
    <3>2. /\ Unread(q)' = Unread(q) /\ Skipped(q)' = Skipped(q)
          /\ answered'[q] = answered[q] /\ Mail(smail'[s], q) = Mail(smail[s], q)
          /\ Lost(q)' = IF q = r THEN 1 ELSE Lost(q)
      BY <1>1, <2>1, Zenon DEF Unread, Skipped, Lost, clientVars
    <3> QED
      BY <1>5, <1>6, <3>1, <3>2 DEF Got, Has
  <2>4. Held'
    BY <1>1, <1>5, <2>1, <2>2, <2>3, Moves, Zenon DEF IInv, clientVars
  <2> QED
    BY <1>7, <2>2, <2>4, Zenon DEF IInv
<1>9. CASE d \in Servers
  <2>1. SendRequest(d, moved) /\ nowhere' = nowhere
    BY <1>1, <1>9, RequestsConstants, Zenon
  <2>2. /\ queue' \in [Category -> Seq(Msg)] /\ smail' \in [Servers -> Seq(Ids)]
        /\ \A t \in Servers \ {d} : smail'[t] = smail[t]
        /\ \A q : Unread(q)' + Mail(smail'[d], q) = Unread(q) + Mail(smail[d], q) + One(moved, q)
    BY <1>4, <1>9, <2>1, SendRequestAdds, Zenon DEF IInv
  <2>3. ServerTypes'
    BY <1>1, <1>5, <2>2, Zenon DEF IInv, TypeOK, ServerTypes
  <2>4. TypeOK'
    BY <1>1, <2>1, <2>3, ServerTypeOK, Zenon DEF IInv, TypeOK
  <2>5. ASSUME NEW q \in Reqs
        PROVE  /\ s = d => Unread(q)' + Has(s, q)' = Unread(q) + Has(s, q)
               /\ s # d => Unread(q)' + Has(s, q)' + Has(d, q)'
                             = Unread(q) + Has(s, q) + Has(d, q)
    <3>1. /\ Unread(q) \in Nat /\ Mail(smail[s], q) \in Nat /\ Due(s, q) \in {0, 1}
          /\ Mail(smail[d], q) \in Nat /\ Due(d, q) \in {0, 1}
          /\ Unread(q)' \in Nat /\ Mail(smail'[d], q) \in Nat
      BY <1>9, <2>4, CountsAreNat, CountsAreNatNext, Zenon DEF IInv
    <3>2. /\ s # d => smail'[s] = smail[s] /\ Due(d, q)' = Due(d, q)
          /\ Due(s, q) = Due(s, q)' + (IF q = r THEN 1 ELSE 0)
      BY <1>5, <1>6, <1>9, <2>2, <3>1 DEF Due
    <3>3. Unread(q)' + Mail(smail'[d], q)
            = Unread(q) + Mail(smail[d], q) + (IF q = r THEN 1 ELSE 0)
      BY <1>6, <2>2, Zenon
    <3>4. Due(s, q)' \in {0, 1}
      BY Zenon DEF Due
    <3> QED
      BY <3>1, <3>2, <3>3, <3>4 DEF Has
  <2> QED
    BY <1>1, <1>5, <1>9, <2>1, <2>2, <2>3, <2>5, ServerPasses DEF clientVars
<1> QED
  BY <1>8, <1>9, Zenon DEF Dest

-----------------------------------------------------------------------------
(* The handlers of a request. *)

\* The counts of handlers are natural numbers.
LEMMA HandlersAreNat ==
  ASSUME TypeOK, NEW r \in Reqs
  PROVE  Mail(awaited, r) \in Nat /\ Multiplexed(r) \in {0, 1} /\ handled[r] \in Nat
<1>1. Mail(awaited, r) \in Nat
  BY MailType, Zenon DEF TypeOK
<1>2. handled[r] \in Nat
  BY RequestsConstants DEF TypeOK, Reqs
<1> QED
  BY <1>1, <1>2, Zenon DEF Multiplexed

\* await() puts a handler in front of the others.
LEMMA MailCons ==
  ASSUME NEW q \in Seq(Ids), NEW id \in Ids, NEW r
  PROVE  /\ <<id>> \o q \in Seq(Ids)
         /\ Mail(<<id>> \o q, r) = Mail(q, r) + One(id, r)
<1>1. <<id>> \o q \in Seq(Ids)
  OBVIOUS
<1>2. Mail(<<id>> \o q, r) = Mail(q, r) + (IF id \in IdsOf(r) THEN 1 ELSE 0)
  BY OccCons, Zenon DEF Mail
<1>3. id \in IdsOf(r) <=> id.r = r
  BY IdSet, Zenon
<1> QED
  BY <1>1, <1>2, <1>3, Zenon DEF One

\* A new request has a handler, the others keep theirs.
LEMMA NewHandler ==
  ASSUME TypeOK, OneHandler, NEW id \in Ids, id.r = last + 1, last' = last + 1,
         handled' = handled,
         \/ awaited' = <<id>> \o awaited /\ multiplexed' = multiplexed
         \/ awaited' = awaited /\ multiplexed' = multiplexed \cup {id}
  PROVE  OneHandler'
<1>0. last \in Nat
  BY RequestsConstants DEF TypeOK
<1>1. ASSUME NEW r \in Reqs
      PROVE  Handlers(r)' = Handlers(r) + One(id, r)
  <2>1. Mail(awaited, r) \in Nat /\ Multiplexed(r) \in {0, 1} /\ handled[r] \in Nat
    BY HandlersAreNat, Zenon
  <2>2. CASE awaited' = <<id>> \o awaited /\ multiplexed' = multiplexed
    <3>1. Mail(awaited', r) = Mail(awaited, r) + One(id, r)
      BY <2>2, MailCons, Zenon DEF TypeOK
    <3>2. Multiplexed(r)' = Multiplexed(r)
      BY <2>2, Zenon DEF Multiplexed
    <3>3. One(id, r) \in {0, 1}
      BY Zenon DEF One
    <3> QED
      BY <2>1, <3>1, <3>2, <3>3 DEF Handlers
  <2>3. CASE awaited' = awaited /\ multiplexed' = multiplexed \cup {id}
    <3>1. Multiplexed(r)' = Multiplexed(r) + One(id, r)
      <4>1. CASE r = last + 1
        <5>1. Handlers(r) <= 0
          BY <1>0, <4>1 DEF OneHandler
        <5>2. Multiplexed(r) = 0
          BY <2>1, <5>1 DEF Handlers
        <5> QED
          BY <2>3, <4>1, <5>2 DEF Multiplexed, One
      <4>2. CASE r # last + 1
        BY <2>3, <4>2 DEF Multiplexed, One
      <4> QED
        BY <4>1, <4>2, Zenon
    <3>2. One(id, r) \in {0, 1}
      BY Zenon DEF One
    <3> QED
      BY <2>1, <2>3, <3>1, <3>2 DEF Handlers
  <2> QED
    BY <2>2, <2>3, Zenon
<1>2. ASSUME NEW r \in Reqs
      PROVE  Handlers(r)' <= IF r <= last' THEN 1 ELSE 0
  <2>1. Mail(awaited, r) \in Nat /\ Multiplexed(r) \in {0, 1} /\ handled[r] \in Nat
    BY HandlersAreNat, Zenon
  <2>2. Handlers(r) \in Nat
    BY <2>1 DEF Handlers
  <2>3. r \in Nat /\ Handlers(r) <= IF r <= last THEN 1 ELSE 0
    BY DEF OneHandler, Reqs
  <2>4. Handlers(r)' = Handlers(r) + (IF r = last + 1 THEN 1 ELSE 0)
    BY <1>1, Zenon DEF One
  <2> QED
    BY <1>0, <2>2, <2>3, <2>4
<1>3. \A i, k \in multiplexed' : i.r = k.r => i = k
  <2>1. \A i \in multiplexed : i.r # last + 1
    <3> SUFFICES ASSUME NEW i \in multiplexed, i.r = last + 1 PROVE FALSE
      BY Zenon
    <3>1. i.r \in Reqs
      BY Zenon DEF TypeOK, Ids
    <3>2. Mail(awaited, i.r) \in Nat /\ handled[i.r] \in Nat
      BY <3>1, HandlersAreNat, Zenon
    <3>3. Multiplexed(i.r) = 1
      BY Zenon DEF Multiplexed
    <3>4. Handlers(i.r) <= 0
      BY <1>0, <3>1 DEF OneHandler
    <3> QED
      BY <3>2, <3>3, <3>4 DEF Handlers
  <2> QED
    BY <2>1, Zenon DEF OneHandler
<1> QED
  BY <1>2, <1>3, Zenon DEF OneHandler

\* consume moves a handler to the ones that ran, or there was none.
LEMMA ConsumeHandlers ==
  ASSUME IInv, NEW c, NEW m \in Msg, NEW id, id = [r |-> m.r, cat |-> m.cat],
         Consume(c, m, id), last' = last
  PROVE  /\ OneHandler'
         /\ awaited' \in Seq(Ids) /\ multiplexed' \in SUBSET Ids
         /\ handled' \in [0..MaxRequests -> Nat]
<1>1. /\ awaited \in Seq(Ids) /\ multiplexed \in SUBSET Ids
      /\ handled \in [0..MaxRequests -> Nat] /\ m.r \in 0..MaxRequests /\ id.r = m.r
      /\ handled' = [handled EXCEPT ![m.r] = handled[m.r] + 1]
      /\ Reqs \subseteq 0..MaxRequests
  BY RequestsConstants, SMTT(40) DEF IInv, TypeOK, Consume, Msg, Reqs
<1>2. /\ handled' \in [0..MaxRequests -> Nat]
      /\ \A r \in Reqs : handled'[r] = handled[r] + One(id, r)
  <2>1. handled' \in [0..MaxRequests -> Nat]
    BY <1>1
  <2>2. \A r \in Reqs : handled[r] \in Nat /\ handled'[r] = IF r = m.r THEN handled[r] + 1 ELSE handled[r]
    BY <1>1, Zenon
  <2> QED
    BY <1>1, <2>1, <2>2 DEF One
<1>3. SUFFICES /\ \A r \in Reqs : Handlers(r)' = Handlers(r)
               /\ multiplexed' \subseteq multiplexed /\ awaited' \in Seq(Ids)
  BY <1>1, <1>2, Zenon DEF OneHandler, IInv
<1>4. CASE awaited # <<>> /\ Head(awaited) = id /\ awaited' = Tail(awaited) /\ multiplexed' = multiplexed
  <2>1. /\ Tail(awaited) \in Seq(Ids)
        /\ \A r : Mail(awaited, r) = Mail(Tail(awaited), r) + One(id, r)
    BY <1>1, <1>4, MailTail, Zenon
  <2>2. ASSUME NEW r \in Reqs
        PROVE  Handlers(r)' = Handlers(r)
    <3>1. Multiplexed(r)' = Multiplexed(r) /\ Multiplexed(r) \in {0, 1} /\ handled[r] \in Nat
      BY <1>4, HandlersAreNat, Zenon DEF Multiplexed, IInv
    <3>2. Mail(Tail(awaited), r) \in Nat /\ One(id, r) \in {0, 1}
      BY <2>1, MailType, Zenon DEF One
    <3>3. Handlers(r)' = Mail(Tail(awaited), r) + Multiplexed(r) + (handled[r] + One(id, r))
      BY <1>2, <1>4, <3>1, Zenon DEF Handlers
    <3>4. Handlers(r) = (Mail(Tail(awaited), r) + One(id, r)) + Multiplexed(r) + handled[r]
      BY <2>1, Zenon DEF Handlers
    <3> QED
      BY <3>1, <3>2, <3>3, <3>4
  <2> QED
    BY <1>4, <2>1, <2>2, Zenon
<1>5. CASE id \in multiplexed /\ multiplexed' = multiplexed \ {id} /\ awaited' = awaited
  <2>1. ASSUME NEW r \in Reqs
        PROVE  Handlers(r)' = Handlers(r)
    <3>1. /\ Mail(awaited, r) \in Nat /\ Multiplexed(r) \in {0, 1} /\ handled[r] \in Nat
          /\ One(id, r) \in {0, 1}
      BY HandlersAreNat, Zenon DEF IInv, One
    <3>2. Multiplexed(r) = Multiplexed(r)' + One(id, r)
      <4>1. \A i \in multiplexed : i.r = id.r => i = id
        BY <1>5, Zenon DEF IInv, OneHandler
      <4> QED
        BY <1>5, <4>1 DEF Multiplexed, One
    <3>3. Multiplexed(r)' \in {0, 1}
      BY Zenon DEF Multiplexed
    <3>4. Handlers(r)' = Mail(awaited, r) + Multiplexed(r)' + (handled[r] + One(id, r))
      BY <1>2, <1>5, Zenon DEF Handlers
    <3> QED
      BY <3>1, <3>2, <3>3, <3>4 DEF Handlers
  <2> QED
    BY <1>1, <1>5, <2>1, Zenon
<1>6. CASE m.r = 0 /\ awaited' = awaited /\ multiplexed' = multiplexed
  <2>1. ASSUME NEW r \in Reqs
        PROVE  Handlers(r)' = Handlers(r)
    <3>1. One(id, r) = 0 /\ handled[r] \in Nat
      BY <1>1, <1>6, HandlersAreNat DEF One, Reqs, IInv
    <3>2. handled'[r] = handled[r] /\ Multiplexed(r)' = Multiplexed(r)
      BY <1>2, <1>6, <3>1 DEF Multiplexed
    <3> QED
      BY <1>6, <3>2, Zenon DEF Handlers
  <2> QED
    BY <1>1, <1>6, <2>1, Zenon
<1> QED
  BY <1>4, <1>5, <1>6, Zenon DEF Consume
=============================================================================
