------------------------ MODULE ScheduledActorProofs ------------------------
(***************************************************************************)
(* Proofs about ScheduledActor, for any number of senders, workers and     *)
(* messages.                                                               *)
(***************************************************************************)
EXTENDS ScheduledActor, TLAPS, FiniteSetTheorems

-----------------------------------------------------------------------------
(* Sequences of messages. *)

\* Reversing a list of messages yields a list of messages.
LEMMA OldestFirstType ==
  ASSUME NEW S, NEW q \in Seq(S)
  PROVE  OldestFirst(q) \in Seq(S)
BY DEF OldestFirst

\* A part of the mailbox holds messages only.
LEMMA MsgsOfType ==
  ASSUME NEW q \in [Category -> Seq(Msg)]
  PROVE  MsgsOf(q) \subseteq Msg
BY DEF MsgsOf, Range

\* The empty mailbox is a mailbox.
LEMMA NoMsgsType == NoMsgs \in [Category -> Seq(Msg)]
BY DEF NoMsgs

\* An inbox with an element on top is not empty.
LEMMA PushNotEmpty ==
  ASSUME NEW q \in [Category -> Seq(Msg)], NEW m \in Msg
  PROVE  /\ [q EXCEPT ![m.cat] = <<m>> \o @] \in [Category -> Seq(Msg)]
         /\ [q EXCEPT ![m.cat] = <<m>> \o @] # NoMsgs
<1>1. m.cat \in Category
  BY Zenon DEF Msg
<1>2. <<m>> \o q[m.cat] \in Seq(Msg) /\ <<m>> \o q[m.cat] # <<>>
  BY <1>1
<1> QED
  BY <1>1, <1>2, Zenon DEF NoMsgs

-----------------------------------------------------------------------------
(* Type correctness. *)

\* The last reference, if it is the last, discards what the mailbox holds.
LEMMA ReleaseRefType ==
  ASSUME TypeOK, ReleaseRef, strong > 0
  PROVE  /\ tag' \in Tags
         /\ stack' \in [Category -> Seq(Msg)]
         /\ tag' = "list" <=> stack' # NoMsgs
         /\ queue' \in [Category -> Seq(Msg)]
         /\ cache' \in [Category -> Seq(Msg)]
         /\ deficit' \in [Category -> Nat]
         /\ mode' = mode /\ initialized' = initialized
         /\ terminated' \in BOOLEAN /\ destroyed' \in BOOLEAN
         /\ strong' \in Nat
         /\ bounced' \subseteq Msg /\ dropped' \subseteq Msg
<1>1. Unread \subseteq Msg
  BY MsgsOfType, ZenonT(30) DEF Unread, TypeOK
<1>2. CASE strong = 1 /\ ~terminated
  BY <1>1, <1>2, NoMsgsType, SMTT(40) DEF TypeOK, ReleaseRef, Discard, Tags
<1>3. CASE strong = 1 /\ terminated
  BY <1>3 DEF TypeOK, ReleaseRef
<1>4. CASE strong # 1
  BY <1>4 DEF TypeOK, ReleaseRef
<1> QED
  BY <1>2, <1>3, <1>4, Zenon

\* Counting the holders of references: the set of all of them is finite, and a
\* holder that gives up its reference was counted once.
LEMMA HolderCounted ==
  ASSUME NEW S, IsFiniteSet(S), NEW x \in S
  PROVE  /\ Cardinality(S) \in Nat /\ Cardinality(S) > 0
         /\ IsFiniteSet(S \ {x})
         /\ Cardinality(S \ {x}) = Cardinality(S) - 1
         /\ Cardinality(S \ {x}) \in Nat
<1>1. /\ IsFiniteSet(S \ {x})
      /\ Cardinality(S \ {x}) = Cardinality(S) - 1
  BY FS_RemoveElement, Zenon
<1>2. Cardinality(S) \in Nat /\ Cardinality(S \ {x}) \in Nat
  BY <1>1, FS_CardinalityType, Zenon
<1> QED
  BY <1>1, <1>2

Owners == {s \in Senders : owns[s]}
Busy   == {w \in Workers : wpc[w] # "idle"}

\* The holders of references are finitely many.
LEMMA HoldersFinite ==
  /\ IsFiniteSet(Owners) /\ Cardinality(Owners) \in Nat
  /\ IsFiniteSet(Busy) /\ Cardinality(Busy) \in Nat
<1>1. IsFiniteSet(Owners) /\ IsFiniteSet(Busy)
  BY FS_Subset, SendersFinite, WorkersFinite, Zenon DEF Owners, Busy
<1> QED
  BY <1>1, FS_CardinalityType, Zenon

\* Whoever holds a handle, or still has to release the scheduler's reference,
\* keeps the actor in memory; the last one to do so is the only one.
LEMMA HolderKeepsAlive ==
  ASSUME TypeOK, RefsAccounted
  PROVE  /\ \A s \in Senders : owns[s] =>
              /\ strong > 0
              /\ strong = 1 => jobs = 0 /\ Busy = {} /\ Owners = {s}
         /\ \A w \in Workers : wpc[w] # "idle" =>
              /\ strong > 0
              /\ strong = 1 => jobs = 0 /\ Owners = {} /\ Busy = {w}
<1> DEFINE nOwners == Cardinality(Owners)
           nBusy   == Cardinality(Busy)
<1>1. nOwners \in Nat /\ nBusy \in Nat /\ jobs \in Nat
      /\ strong = nOwners + jobs + nBusy
  BY HoldersFinite, Zenon DEF TypeOK, RefsAccounted, Owners, Busy
<1>2. /\ nOwners = 0 => Owners = {}
      /\ nBusy = 0 => Busy = {}
  BY HoldersFinite, FS_EmptySet, Zenon
<1>3. ASSUME NEW s \in Senders, owns[s]
      PROVE  nOwners > 0 /\ (nOwners = 1 => Owners = {s})
  <2>1. s \in Owners
    BY <1>3, Zenon DEF Owners
  <2>2. /\ nOwners > 0
        /\ IsFiniteSet(Owners \ {s})
        /\ Cardinality(Owners \ {s}) = nOwners - 1
    BY <2>1, HoldersFinite, HolderCounted, Zenon
  <2>3. nOwners = 1 => Owners \ {s} = {}
    BY <2>2, FS_EmptySet
  <2> QED
    BY <2>1, <2>2, <2>3, Zenon
<1>4. ASSUME NEW w \in Workers, wpc[w] # "idle"
      PROVE  nBusy > 0 /\ (nBusy = 1 => Busy = {w})
  <2>1. w \in Busy
    BY <1>4, Zenon DEF Busy
  <2>2. /\ nBusy > 0
        /\ IsFiniteSet(Busy \ {w})
        /\ Cardinality(Busy \ {w}) = nBusy - 1
    BY <2>1, HoldersFinite, HolderCounted, Zenon
  <2>3. nBusy = 1 => Busy \ {w} = {}
    BY <2>2, FS_EmptySet
  <2> QED
    BY <2>1, <2>2, <2>3, Zenon
<1> HIDE DEF nOwners, nBusy
<1> QED
  BY <1>1, <1>2, <1>3, <1>4

\* TypeOK holds when the actor is launched.
LEMMA TypeInit == Init => TypeOK
<1> SUFFICES ASSUME Init PROVE TypeOK
  BY Zenon
<1>1. Cardinality(Senders) \in Nat
  BY SendersFinite, FS_CardinalityType, Zenon
<1>2. /\ tag \in Tags /\ tag # "list"
      /\ jobs \in Nat /\ strong \in Nat
  BY <1>1 DEF Init, Tags
<1>3. /\ sent \in [Senders -> 0..MaxSends]
      /\ consumed \in [Workers -> Nat]
      /\ prev \in [Workers -> Nat]
      /\ deficit \in [Category -> Nat]
  BY MaxSendsNat DEF Init
<1> QED
  BY <1>2, <1>3, NoMsgsType, ZenonT(30) DEF Init, TypeOK, WorkerPc

\* Every operation of a sender and every step of a worker keeps TypeOK.
LEMMA TypeStep ==
  ASSUME TypeOK, RefsAccounted, [Next]_vars
  PROVE  TypeOK'
<1>1. ASSUME NEW s \in Senders, NEW p \in Payloads, Enqueue(s, p)
      PROVE  TypeOK'
  <2> DEFINE m == [src |-> s, seq |-> sent[s] + 1, cat |-> p.cat,
                   kind |-> p.kind, request |-> p.request]
  <2>1. m \in Msg
    BY <1>1, PayloadsTyped, MaxSendsNat DEF Enqueue, Msg, TypeOK
  <2>2. sent' \in [Senders -> 0..MaxSends]
    BY <1>1, MaxSendsNat DEF Enqueue, TypeOK
  <2>3. CASE PushFront(m) /\ UNCHANGED <<bounced, dropped>>
             /\ spc' = [spc EXCEPT ![s] = IF tag = "blocked" THEN "wake" ELSE @]
    <3> HIDE DEF m
    <3>1. /\ stack' \in [Category -> Seq(Msg)]
          /\ stack' # NoMsgs
          /\ tag' = "list"
      BY <2>1, <2>3, PushNotEmpty, ZenonT(30) DEF PushFront, TypeOK
    <3> QED
      BY <1>1, <2>2, <2>3, <3>1, ZenonT(30) DEF Enqueue, TypeOK, Tags
  <2>4. CASE Discard({m}) /\ UNCHANGED <<tag, stack, spc>>
    <3> HIDE DEF m
    <3> QED
      BY <1>1, <2>1, <2>2, <2>4, Zenon DEF Enqueue, TypeOK, Discard
  <2> QED
    BY <1>1, <2>3, <2>4, Zenon DEF Enqueue
<1>2. ASSUME NEW s \in Senders, Wake(s) PROVE TypeOK'
  BY <1>2 DEF Wake, TypeOK, actorVars, workerVars, outVars
<1>3. ASSUME NEW s \in Senders, DropHandle(s) PROVE TypeOK'
  <2>1. strong > 0
    BY <1>3, HolderKeepsAlive, Zenon DEF DropHandle
  <2> QED
    BY <1>3, <2>1, ReleaseRefType, Zenon DEF DropHandle, TypeOK, workerVars
<1>4. ASSUME NEW w \in Workers, Dequeue(w) PROVE TypeOK'
  BY <1>4 DEF Dequeue, Goto, TypeOK, WorkerPc, actorVars, refVars, senderVars,
              outVars
<1>5. ASSUME NEW w \in Workers, Activate(w) PROVE TypeOK'
  BY <1>5, ModesTyped, ZenonT(30)
     DEF Activate, Goto, TypeOK, WorkerPc, refVars,
                          senderVars, outVars
<1>6. ASSUME NEW w \in Workers, Fetch(w) PROVE TypeOK'
  <2>1. queue' \in [Category -> Seq(Msg)]
    BY <1>6, OldestFirstType DEF Fetch, TypeOK
  <2>2. deficit' \in [Category -> Nat]
    <3>1. Granted("urgent", queue'["urgent"]) \in Nat
      BY QuantumPos DEF Granted, TypeOK, Category
    <3> QED
      BY <1>6, <3>1, ZenonT(30) DEF Fetch, TypeOK
  <2> QED
    BY <1>6, <2>1, <2>2, NoMsgsType, ZenonT(30)
       DEF Fetch, TakeHead, Goto, TypeOK, Tags, WorkerPc, refVars, senderVars,
           outVars
<1>7. ASSUME NEW w \in Workers, Exhausted(w) PROVE TypeOK'
  BY <1>7, Zenon DEF Exhausted, Goto, TypeOK, WorkerPc, actorVars, refVars,
              senderVars, outVars
<1>8. ASSUME NEW w \in Workers, BeginNormal(w) PROVE TypeOK'
  <2>1. deficit' \in [Category -> Nat]
    <3>1. Granted("normal", queue["normal"]) \in Nat
      BY QuantumPos DEF Granted, TypeOK, Category
    <3> QED
      BY <1>8, <3>1, ZenonT(30) DEF BeginNormal, TypeOK
  <2> QED
    BY <1>8, <2>1, Zenon DEF BeginNormal, Goto, TypeOK, WorkerPc, refVars, senderVars,
                      outVars
<1>9. ASSUME NEW w \in Workers, NEW c \in Category, RoundStep(w, c)
      PROVE  TypeOK'
  <2>1. CASE EndRound(w, c)
    BY <2>1, Zenon DEF EndRound, AfterRound, Goto, TypeOK, WorkerPc, actorVars,
                refVars, senderVars, outVars
  <2>2. ASSUME HasNext(w, c)
        PROVE  /\ Head(queue[c]) \in Msg
               /\ Tail(queue[c]) \in Seq(Msg)
               /\ Charged(c, Tail(queue[c])) \in Nat
    BY <2>2 DEF HasNext, Charged, TypeOK
  <2>3. ASSUME HasNext(w, c), FlushAfter(c)
        PROVE  /\ queue' \in [Category -> Seq(Msg)]
               /\ cache' \in [Category -> Seq(Msg)]
               /\ deficit' \in [Category -> Nat]
    BY <2>2, <2>3 DEF FlushAfter, TypeOK
  <2>4. CASE Consume(w, c)
    <3>0. /\ handled \subseteq Msg
          /\ consumed \in [Workers -> Nat]
          /\ wpc \in [Workers -> WorkerPc]
      BY Zenon DEF TypeOK
    <3>1. /\ queue' \in [Category -> Seq(Msg)]
          /\ cache' \in [Category -> Seq(Msg)]
          /\ deficit' \in [Category -> Nat]
          /\ handled' \subseteq Msg
      BY <2>2, <2>3, <2>4, <3>0, Zenon DEF Consume
    <3>2. /\ consumed' \in [Workers -> Nat]
          /\ mode' \in {"ready", "await", "skip"}
      BY <2>4, <3>0, ModesTyped DEF Consume
    <3>3. wpc' \in [Workers -> WorkerPc]
      BY <2>4, <3>0, Zenon DEF Consume, AfterRound, Goto, WorkerPc, Category
    <3>4. UNCHANGED <<tag, stack, initialized, terminated, destroyed, strong,
                      jobs, spc, sent, owns, prev, bounced, dropped>>
      BY <2>4, Zenon DEF Consume, refVars, senderVars
    <3> QED
      BY <3>1, <3>2, <3>3, <3>4, Zenon DEF TypeOK
  <2>5. CASE Drop(w, c)
    BY <2>2, <2>3, <2>5, Zenon DEF Drop, TypeOK, refVars, senderVars, workerVars
  <2>6. CASE Skip(w, c)
    <3>1. /\ queue' \in [Category -> Seq(Msg)]
          /\ cache' \in [Category -> Seq(Msg)]
          /\ deficit' \in [Category -> Nat]
      BY <2>2, <2>6 DEF Skip, TypeOK
    <3> QED
      BY <2>6, <3>1, Zenon DEF Skip, TypeOK, refVars, senderVars, workerVars, outVars
  <2>7. CASE Quit(w, c)
    <3>1. /\ queue' \in [Category -> Seq(Msg)]
          /\ deficit' \in [Category -> Nat]
          /\ handled' \subseteq Msg
      BY <2>2, <2>7, Zenon DEF Quit, TypeOK
    <3> QED
      BY <2>7, <3>1, Zenon DEF Quit, Goto, TypeOK, WorkerPc, refVars, senderVars
  <2> QED
    BY <1>9, <2>1, <2>4, <2>5, <2>6, <2>7, Zenon DEF RoundStep
<1>10. ASSUME NEW w \in Workers, Close(w) PROVE TypeOK'
  <2>1. Unread \subseteq Msg
    BY MsgsOfType, ZenonT(30) DEF Unread, TypeOK
  <2> QED
    BY <1>10, <2>1, NoMsgsType, Zenon
       DEF Close, CloseInbox, Discard, Goto, TypeOK, Tags, WorkerPc, refVars,
           senderVars
<1>11. ASSUME NEW w \in Workers, Terminate(w) PROVE TypeOK'
  BY <1>11, Zenon DEF Terminate, Goto, TypeOK, WorkerPc, refVars, senderVars, outVars
<1>12. ASSUME NEW w \in Workers, Check(w) PROVE TypeOK'
  BY <1>12, Zenon DEF Check, Goto, TypeOK, WorkerPc, actorVars, refVars, senderVars,
               outVars
<1>13. ASSUME NEW w \in Workers, Block(w) PROVE TypeOK'
  BY <1>13, ZenonT(30)
     DEF Block, TryBlock, Goto, TypeOK, Tags, WorkerPc, actorVars,
               refVars, senderVars, outVars
<1>14. ASSUME NEW w \in Workers, Finalize(w) PROVE TypeOK'
  BY <1>14, Zenon DEF Finalize, Goto, TypeOK, WorkerPc, actorVars, refVars,
               senderVars, outVars
<1>15. ASSUME NEW w \in Workers, BlockLate(w) PROVE TypeOK'
  <2>1. /\ tag' \in Tags
        /\ stack' = stack
        /\ tag' = "list" <=> tag = "list"
        /\ jobs' \in Nat
        /\ wpc' \in [Workers -> WorkerPc]
    <3>1. CASE CanBlock
      BY <1>15, <3>1, ZenonT(30)
         DEF BlockLate, TryBlock, Goto, TypeOK, Tags, WorkerPc
    <3>2. CASE ~CanBlock
      <4>1. /\ tag' = tag /\ stack' = stack /\ jobs' = jobs + 1
            /\ wpc' = [wpc EXCEPT ![w] = "idle"]
        BY <1>15, <3>2, Zenon DEF BlockLate, Goto
      <4> QED
        BY <4>1 DEF TypeOK, WorkerPc
    <3> QED
      BY <3>1, <3>2, Zenon
  <2> QED
    BY <1>15, <2>1, Zenon DEF BlockLate, TypeOK, actorVars, refVars, senderVars,
                       outVars
<1>16. ASSUME NEW w \in Workers, Release(w) PROVE TypeOK'
  <2>1. strong > 0
    BY <1>16, HolderKeepsAlive, Zenon DEF Release
  <2> QED
    BY <1>16, <2>1, ReleaseRefType, Zenon
       DEF Release, Goto, TypeOK, WorkerPc, senderVars
<1>17. CASE UNCHANGED vars
  BY <1>17, Zenon DEF vars, TypeOK
<1> QED
  BY Zenon, <1>1, <1>2, <1>3, <1>4, <1>5, <1>6, <1>7, <1>8, <1>9, <1>10, <1>11,
     <1>12, <1>13, <1>14, <1>15, <1>16, <1>17
     DEF Next, SenderStep, WorkerStep

-----------------------------------------------------------------------------
(* Reference counting. *)

\* RefsAccounted in terms of the two sets of holders.
LEMMA RefsCount ==
  RefsAccounted <=>
    /\ strong = Cardinality(Owners) + jobs + Cardinality(Busy)
    /\ destroyed <=> strong = 0
    /\ \A s \in Senders : spc[s] = "wake" => owns[s]
BY Zenon DEF RefsAccounted, Owners, Busy

\* A worker that goes from one location inside resume to another keeps its
\* reference.
LEMMA StaysBusy ==
  ASSUME NEW w \in Workers, NEW pc, Goto(w, pc), wpc[w] # "idle", pc # "idle",
         TypeOK
  PROVE  Busy' = Busy
BY Zenon DEF Goto, Busy, TypeOK

\* The actor has an owner when it is launched.
LEMMA RefsInit == Init => RefsAccounted
<1> SUFFICES ASSUME Init PROVE RefsAccounted
  BY Zenon
<1>1. Owners = Senders /\ Busy = {}
  BY Zenon DEF Init, Owners, Busy
<1>2. Cardinality(Senders) \in Nat /\ Cardinality(Senders) # 0
      /\ Cardinality(Busy) = 0
  BY <1>1, SendersFinite, FS_CardinalityType, FS_EmptySet, Zenon
<1>3. strong = Cardinality(Owners) + jobs + Cardinality(Busy) /\ strong # 0
  BY <1>1, <1>2 DEF Init
<1> QED
  BY <1>3, RefsCount, Zenon DEF Init

\* The steps that hand a reference on or give one up keep the count exact.
LEMMA RefsStep ==
  ASSUME TypeOK, RefsAccounted, [Next]_vars
  PROVE  RefsAccounted'
<1> DEFINE Count == Cardinality(Owners) + jobs + Cardinality(Busy)
<1>0. /\ Cardinality(Owners) \in Nat /\ Cardinality(Busy) \in Nat
      /\ jobs \in Nat /\ strong \in Nat /\ strong = Count
  BY HoldersFinite, RefsCount, Zenon DEF TypeOK
<1>1. ASSUME NEW s \in Senders, NEW p \in Payloads, Enqueue(s, p)
      PROVE  RefsAccounted'
  <2>1. owns' = owns /\ wpc' = wpc /\ strong' = strong /\ jobs' = jobs
        /\ destroyed' = destroyed /\ owns[s]
    BY <1>1, Zenon DEF Enqueue
  <2>2. \A t \in Senders : spc'[t] = "wake" => owns[t]
    BY <1>1, <2>1, Zenon DEF Enqueue, TypeOK, RefsAccounted
  <2> QED
    BY <2>1, <2>2, Zenon DEF RefsAccounted
<1>2. ASSUME NEW s \in Senders, Wake(s) PROVE RefsAccounted'
  <2>1. /\ Owners' = Owners /\ Busy' = Busy
        /\ strong' = strong + 1 /\ jobs' = jobs + 1
        /\ destroyed' = destroyed
    BY <1>2, Zenon DEF Wake, Owners, Busy, workerVars
  <2>2. owns[s]
    BY <1>2, Zenon DEF Wake, RefsAccounted
  <2>3. strong > 0
    BY <2>2, HolderKeepsAlive, Zenon
  <2>4. \A t \in Senders : spc'[t] = "wake" => owns'[t]
    BY <1>2, Zenon DEF Wake, TypeOK, RefsAccounted
  <2>5. strong' = Count'
    BY <1>0, <2>1
  <2> QED
    BY <1>0, <2>1, <2>3, <2>4, <2>5, RefsCount DEF RefsAccounted, Owners, Busy
<1>3. ASSUME NEW s \in Senders, DropHandle(s) PROVE RefsAccounted'
  <2>1. owns[s] /\ strong' = strong - 1 /\ jobs' = jobs /\ Busy' = Busy
    BY <1>3, Zenon DEF DropHandle, ReleaseRef, Busy, workerVars
  <2>2. Owners' = Owners \ {s} /\ s \in Owners
    BY <1>3, Zenon DEF DropHandle, Owners, TypeOK
  <2>3. Cardinality(Owners') = Cardinality(Owners) - 1
    BY <2>2, HoldersFinite, HolderCounted, Zenon
  <2>4. strong > 0 /\ ~destroyed
    BY <2>1, HolderKeepsAlive DEF RefsAccounted
  <2>5. destroyed' <=> strong' = 0
    BY <1>0, <1>3, <2>1, <2>4 DEF DropHandle, ReleaseRef
  <2>6. \A t \in Senders : spc'[t] = "wake" => owns'[t]
    BY <1>3, Zenon DEF DropHandle, TypeOK, RefsAccounted
  <2>7. strong' = Count'
    BY <1>0, <2>1, <2>3
  <2> QED
    BY <2>5, <2>6, <2>7, Zenon DEF RefsAccounted, Owners, Busy
<1>4. ASSUME NEW w \in Workers, Dequeue(w) PROVE RefsAccounted'
  <2>1. /\ Owners' = Owners /\ jobs > 0 /\ jobs' = jobs - 1
        /\ strong' = strong /\ destroyed' = destroyed /\ spc' = spc
        /\ owns' = owns
    BY <1>4, Zenon DEF Dequeue, Owners, refVars, senderVars
  <2>2. Busy' = Busy \cup {w} /\ w \notin Busy
    BY <1>4, Zenon DEF Dequeue, Goto, Busy, TypeOK
  <2>3. Cardinality(Busy') = Cardinality(Busy) + 1
    BY <2>2, HoldersFinite, FS_AddElement, ZenonT(30)
  <2>4. strong' = Count'
    BY <1>0, <2>1, <2>3
  <2> QED
    BY <2>1, <2>4, Zenon DEF RefsAccounted, Owners, Busy
<1>5. ASSUME Busy' = Busy, jobs' = jobs, UNCHANGED refVars, UNCHANGED senderVars
      PROVE  RefsAccounted'
  <2>1. Owners' = Owners
    BY <1>5, Zenon DEF Owners, senderVars
  <2>2. strong' = Count'
    BY <1>0, <1>5, <2>1, Zenon DEF refVars
  <2> QED
    BY <1>5, <2>2, Zenon DEF RefsAccounted, Owners, Busy, refVars, senderVars
<1>6. ASSUME NEW w \in Workers, Activate(w) PROVE RefsAccounted'
  <2>1. Busy' = Busy
    BY <1>6, StaysBusy, Zenon DEF Activate
  <2> QED
    BY <1>5, <1>6, <2>1, Zenon DEF Activate
<1>7. ASSUME NEW w \in Workers,
             Fetch(w) \/ Exhausted(w) \/ BeginNormal(w) \/ Check(w)
               \/ Finalize(w)
      PROVE  RefsAccounted'
  <2>1. Busy' = Busy
    BY <1>7, StaysBusy, ZenonT(30)
       DEF Fetch, Exhausted, BeginNormal, Check, Finalize
  <2> QED
    BY <1>5, <1>7, <2>1, ZenonT(30)
       DEF Fetch, Exhausted, BeginNormal, Check, Finalize
<1>8. ASSUME NEW w \in Workers, Close(w) \/ Terminate(w) \/ Block(w)
      PROVE  RefsAccounted'
  <2>1. Busy' = Busy
    BY <1>8, StaysBusy, Zenon DEF Close, Terminate, Block
  <2> QED
    BY <1>5, <1>8, <2>1, Zenon DEF Close, Terminate, Block
<1>9. ASSUME NEW w \in Workers, NEW c \in Category, RoundStep(w, c)
      PROVE  RefsAccounted'
  <2>1. c # "idle" /\ AfterRound(c) # "idle"
    BY Zenon DEF Category, AfterRound
  <2>2. CASE EndRound(w, c) \/ Consume(w, c) \/ Quit(w, c)
    <3>1. Busy' = Busy
      BY <2>1, <2>2, StaysBusy, Zenon DEF EndRound, Consume, Quit, HasNext
    <3> QED
      BY <1>5, <2>2, <3>1, Zenon DEF EndRound, Consume, Quit
  <2>3. CASE Drop(w, c) \/ Skip(w, c)
    <3>1. Busy' = Busy
      BY <2>3, Zenon DEF Drop, Skip, Busy, workerVars
    <3> QED
      BY <1>5, <2>3, <3>1, Zenon DEF Drop, Skip
  <2> QED
    BY <1>9, <2>2, <2>3, Zenon DEF RoundStep
<1>10. ASSUME NEW w \in Workers, wpc[w] # "idle", Goto(w, "idle")
       PROVE  Cardinality(Busy') = Cardinality(Busy) - 1
  <2>1. Busy' = Busy \ {w} /\ w \in Busy
    BY <1>10, Zenon DEF Goto, Busy, TypeOK
  <2> QED
    BY <2>1, HoldersFinite, HolderCounted, Zenon
<1>11. ASSUME NEW w \in Workers, BlockLate(w) PROVE RefsAccounted'
  <2>1. CASE CanBlock
    <3>1. Busy' = Busy /\ jobs' = jobs
      BY <1>11, <2>1, StaysBusy, Zenon DEF BlockLate
    <3> QED
      BY <1>5, <1>11, <3>1, Zenon DEF BlockLate
  <2>2. CASE ~CanBlock
    <3>1. Cardinality(Busy') = Cardinality(Busy) - 1 /\ jobs' = jobs + 1
      BY <1>10, <1>11, <2>2, Zenon DEF BlockLate
    <3>2. /\ Owners' = Owners /\ strong' = strong /\ destroyed' = destroyed
          /\ spc' = spc /\ owns' = owns
      BY <1>11, Zenon DEF BlockLate, Owners, refVars, senderVars
    <3>3. strong' = Count'
      BY <1>0, <3>1, <3>2
    <3> QED
      BY <3>2, <3>3, Zenon DEF RefsAccounted, Owners, Busy
  <2> QED
    BY <2>1, <2>2, Zenon
<1>12. ASSUME NEW w \in Workers, Release(w) PROVE RefsAccounted'
  <2>1. /\ wpc[w] # "idle" /\ strong' = strong - 1 /\ jobs' = jobs
        /\ Owners' = Owners /\ spc' = spc /\ owns' = owns
    BY <1>12, Zenon DEF Release, ReleaseRef, Owners, senderVars
  <2>2. Cardinality(Busy') = Cardinality(Busy) - 1
    BY <1>10, <1>12, <2>1, Zenon DEF Release
  <2>3. strong > 0 /\ ~destroyed
    BY <2>1, HolderKeepsAlive DEF RefsAccounted
  <2>4. destroyed' <=> strong' = 0
    BY <1>0, <1>12, <2>1, <2>3 DEF Release, ReleaseRef
  <2>5. strong' = Count'
    BY <1>0, <2>1, <2>2
  <2> QED
    BY <2>1, <2>4, <2>5, Zenon DEF RefsAccounted, Owners, Busy
<1>13. CASE UNCHANGED vars
  BY <1>13, Zenon DEF vars, RefsAccounted
<1> QED
  BY <1>1, <1>2, <1>3, <1>4, <1>6, <1>7, <1>8, <1>9, <1>11, <1>12, <1>13, Zenon
     DEF Next, SenderStep, WorkerStep

-----------------------------------------------------------------------------
(* Scheduling: the inductive invariant. *)

\* Mutual exclusion needs the blocked tag to stand for "nobody will run the
\* actor"; that needs the mailbox to stay closed once it is, and the destructor,
\* which closes it too, to run only when no one else holds a reference.
Control == AtMostOneRunner /\ NoLostWakeup /\ Lifecycle

IInv == TypeOK /\ RefsAccounted /\ Control

\* An empty mailbox holds no message.
LEMMA EmptyHoldsNothing ==
  ASSUME NEW q, \A c \in Category : q[c] = <<>>
  PROVE  MsgsOf(q) = {}
BY DEF MsgsOf, Range

\* The mailbox after cleanup holds no message.
LEMMA NoMsgsHoldsNothing == MsgsOf(NoMsgs) = {}
BY EmptyHoldsNothing, Zenon DEF NoMsgs

\* Control holds for an actor that is launched eagerly and for a lazy one.
LEMMA ControlInit == Init => Control
BY NoMsgsHoldsNothing
   DEF Init, Control, AtMostOneRunner, NoLostWakeup, Lifecycle, Running,
       Responsible

\* A worker that moves on within resume, in a step that leaves the inbox, the
\* flags, the scheduler and the senders alone, keeps Control.
LEMMA ControlWithin ==
  ASSUME IInv, NEW w \in Workers, NEW pc \in WorkerPc,
         Goto(w, pc), Running(w), pc \notin {"idle", "release"},
         pc \notin {"term", "initterm"}, wpc[w] \notin {"term", "initterm"},
         pc \in {"activate", "fetch", "urgent", "begin", "normal", "late",
                "close", "initclose"} => tag # "closed",
         tag = "closed" => queue' = queue /\ cache' = cache,
         UNCHANGED <<tag, stack, terminated, jobs, spc>>
  PROVE  Control'
<1>1. \A v \in Workers : wpc'[v] = IF v = w THEN pc ELSE wpc[v]
  BY Zenon DEF Goto, IInv, TypeOK
<1>2. AtMostOneRunner'
  BY <1>1, Zenon DEF IInv, Control, AtMostOneRunner, Running
<1>3. Responsible'
  BY <1>1, Zenon DEF Responsible, Running
<1>4. tag # "blocked"
  BY Zenon DEF IInv, Control, NoLostWakeup, Responsible
<1>5. NoLostWakeup'
  BY <1>3, <1>4, Zenon DEF NoLostWakeup
<1>6. Lifecycle'
  BY <1>1, Zenon DEF IInv, Control, Lifecycle
<1> QED
  BY <1>2, <1>5, <1>6, Zenon DEF Control

\* The last reference goes only when nobody is bound to run the actor.
LEMMA ControlRelease ==
  ASSUME IInv, ReleaseRef, strong > 0, jobs' = jobs, spc' = spc,
         \A v \in Workers : Running(v)' <=> Running(v),
         \A v \in Workers : wpc[v] \notin {"idle", "release"} \/
                            wpc'[v] \notin {"idle", "release"}
                              => wpc'[v] = wpc[v],
         strong = 1 => jobs = 0 /\ (\A v \in Workers : ~Running(v))
                       /\ (\A s \in Senders : spc[s] # "wake")
  PROVE  Control'
<1>1. AtMostOneRunner'
  BY Zenon DEF IInv, Control, AtMostOneRunner
<1>2. Responsible' <=> Responsible
  BY Zenon DEF Responsible
<1>3. CASE strong = 1 /\ ~terminated
  <2>1. /\ tag' = "closed" /\ terminated' = TRUE
        /\ stack' = NoMsgs /\ queue' = NoMsgs /\ cache' = NoMsgs
    BY <1>3, Zenon DEF ReleaseRef
  <2>2. NoLostWakeup'
    BY <2>1, NoMsgsHoldsNothing, Zenon DEF NoLostWakeup
  <2>3. \A v \in Workers : wpc'[v] \in {"idle", "release"}
    BY <1>3, Zenon DEF Running
  <2>4. ~(jobs' > 0) /\ \A s \in Senders : spc'[s] # "wake"
    BY <1>3
  <2>5. Lifecycle'
    BY <2>1, <2>3, <2>4, Zenon DEF Lifecycle
  <2> QED
    BY <1>1, <2>2, <2>5, Zenon DEF Control
<1>4. CASE strong # 1 \/ terminated
  <2>1. UNCHANGED <<tag, stack, queue, cache, terminated>>
    <3>1. CASE strong # 1
      BY <3>1, Zenon DEF ReleaseRef
    <3>2. CASE strong = 1 /\ terminated
      <4>1. UNCHANGED <<tag, stack, queue, cache>> /\ terminated' = TRUE
        BY <3>2, Zenon DEF ReleaseRef
      <4>2. terminated = TRUE
        BY <3>2, Zenon DEF IInv, TypeOK
      <4> QED
        BY <4>1, <4>2, Zenon
    <3> QED
      BY <1>4, <3>1, <3>2, Zenon
  <2>2. NoLostWakeup'
    BY <1>2, <2>1, Zenon DEF IInv, Control, NoLostWakeup
  <2>3. Lifecycle'
    BY <2>1, Zenon DEF IInv, Control, Lifecycle
  <2> QED
    BY <1>1, <2>2, <2>3, Zenon DEF Control
<1> QED
  BY <1>3, <1>4, Zenon

\* Senders: a push that finds the inbox blocked makes the sender the only one
\* bound to schedule the actor; any other push finds someone bound already.
LEMMA ControlSender ==
  ASSUME IInv, NEW s \in Senders, SenderStep(s)
  PROVE  Control'
<1>1. ASSUME NEW p \in Payloads, Enqueue(s, p) PROVE Control'
  <2>0. UNCHANGED <<queue, cache, terminated, jobs, wpc>>
    BY <1>1, Zenon DEF Enqueue
  <2>1. CASE tag = "closed"
    <3>1. UNCHANGED <<tag, stack, spc>>
      BY <1>1, <2>1, Zenon DEF Enqueue, PushFront
    <3> QED
      BY <2>0, <3>1, Zenon DEF IInv, Control, AtMostOneRunner, NoLostWakeup,
                        Lifecycle, Responsible, Running
  <2>2. CASE tag = "blocked"
    <3>1. /\ tag' = "list"
          /\ \A t \in Senders : spc'[t] = IF t = s THEN "wake" ELSE spc[t]
      BY <1>1, <2>2, Zenon DEF Enqueue, PushFront, IInv, TypeOK
    <3>2. ~Responsible
      BY <2>2, Zenon DEF IInv, Control, NoLostWakeup
    <3>3. AtMostOneRunner'
      BY <2>0, <3>1, <3>2
         DEF IInv, TypeOK, Control, AtMostOneRunner, Responsible, Running
    <3>4. NoLostWakeup'
      BY <3>1, Zenon DEF NoLostWakeup, Responsible
    <3>5. Lifecycle'
      BY <2>0, <2>2, <3>1, Zenon DEF IInv, Control, Lifecycle
    <3> QED
      BY <3>3, <3>4, <3>5, Zenon DEF Control
  <2>3. CASE tag \notin {"closed", "blocked"}
    <3>1. tag' = "list" /\ spc' = spc
      BY <1>1, <2>3, Zenon DEF Enqueue, PushFront, IInv, TypeOK
    <3>2. Responsible'
      BY <2>0, <2>3, <3>1, Zenon DEF IInv, Control, NoLostWakeup, Responsible, Running
    <3> QED
      BY <2>0, <2>3, <3>1, <3>2, Zenon
         DEF IInv, Control, AtMostOneRunner, NoLostWakeup, Lifecycle, Running
  <2> QED
    BY <2>1, <2>2, <2>3, Zenon
<1>2. CASE Wake(s)
  <2>1. /\ jobs' = jobs + 1 /\ spc[s] = "wake"
        /\ \A t \in Senders : spc'[t] = IF t = s THEN "idle" ELSE spc[t]
        /\ UNCHANGED <<tag, stack, queue, cache, terminated, wpc>>
    BY <1>2, Zenon DEF Wake, IInv, TypeOK, actorVars, workerVars
  <2>2. AtMostOneRunner'
    <3>1. /\ jobs = 0
          /\ \A v \in Workers : ~Running(v)
          /\ \A t \in Senders : spc[t] = "wake" => t = s
      BY <2>1 DEF IInv, TypeOK, Control, AtMostOneRunner
    <3>2. /\ jobs' = 1
          /\ \A v \in Workers : ~Running(v)'
          /\ \A t \in Senders : spc'[t] # "wake"
      BY <2>1, <3>1 DEF Running
    <3> QED
      BY <3>2 DEF AtMostOneRunner
  <2>3. Responsible /\ Responsible'
    BY <2>1 DEF Responsible, IInv, TypeOK
  <2> QED
    <3>1. NoLostWakeup'
      BY <2>1, <2>3, Zenon DEF IInv, Control, NoLostWakeup
    <3>2. Lifecycle'
      BY <2>1, Zenon DEF IInv, Control, Lifecycle
    <3> QED
      BY <2>2, <3>1, <3>2, Zenon DEF Control
<1>3. CASE DropHandle(s)
  <2>1. owns[s] /\ ReleaseRef /\ jobs' = jobs /\ spc' = spc /\ wpc' = wpc
        /\ spc[s] = "idle"
    BY <1>3, Zenon DEF DropHandle, workerVars
  <2>2. strong > 0 /\ (strong = 1 => jobs = 0 /\ Busy = {} /\ Owners = {s})
    BY <2>1, HolderKeepsAlive, Zenon DEF IInv
  <2>3. strong = 1 => /\ \A v \in Workers : ~Running(v)
                      /\ \A t \in Senders : spc[t] # "wake"
    BY <2>1, <2>2, Zenon DEF Busy, Owners, Running, IInv, RefsAccounted
  <2> QED
    BY <2>1, <2>2, <2>3, ControlRelease, Zenon DEF Running
<1> QED
  BY <1>1, <1>2, <1>3, Zenon DEF SenderStep

\* Workers: the steps of worker::run and resume, one case per action.
LEMMA ControlWorker ==
  ASSUME IInv, NEW w \in Workers, WorkerStep(w)
  PROVE  Control'
<1>0. /\ \A pc \in WorkerPc : Goto(w, pc) =>
           \A v \in Workers : wpc'[v] = IF v = w THEN pc ELSE wpc[v]
      /\ wpc[w] \in {"fetch", "urgent", "begin", "normal", "close",
                     "initclose", "late"} => tag # "closed"
      /\ Running(w) => tag # "blocked"
      /\ Running(w) /\ tag = "closed" /\ ~terminated
           => wpc[w] \in {"term", "initterm"}
  BY ZenonT(30)
     DEF IInv, TypeOK, Control, AtMostOneRunner, Lifecycle, NoLostWakeup,
         Responsible, Goto, Running
<1>1. CASE Dequeue(w)
  <2>1. /\ jobs = 1 /\ jobs' = 0 /\ tag # "closed"
        /\ \A v \in Workers : wpc'[v] = IF v = w THEN "activate" ELSE wpc[v]
        /\ UNCHANGED <<tag, stack, queue, cache, terminated, spc>>
        /\ wpc[w] = "idle"
    <3>1. jobs > 0 /\ jobs \in Nat /\ jobs <= 1 /\ jobs' = jobs - 1
      BY <1>1, Zenon DEF Dequeue, IInv, TypeOK, Control, AtMostOneRunner
    <3>2. jobs = 1 /\ jobs' = 0
      BY <3>1
    <3>3. tag # "closed"
      BY <3>1, Zenon DEF IInv, Control, Lifecycle
    <3> QED
      BY <1>0, <1>1, <3>2, <3>3, Zenon DEF Dequeue, WorkerPc, actorVars, senderVars
  <2>2. /\ \A v \in Workers : ~Running(v)
        /\ \A s \in Senders : spc[s] # "wake"
    BY <2>1, Zenon DEF IInv, Control, AtMostOneRunner
  <2>3. AtMostOneRunner'
    BY <2>1, <2>2 DEF AtMostOneRunner, Running
  <2>4. Responsible' /\ tag # "blocked"
    BY <2>1 DEF Responsible, Running, IInv, Control, NoLostWakeup
  <2>5. NoLostWakeup'
    BY <2>1, <2>4, Zenon DEF NoLostWakeup
  <2>6. Lifecycle'
    BY <2>1, Zenon DEF IInv, Control, Lifecycle
  <2> QED
    BY <2>3, <2>5, <2>6, Zenon DEF Control
<1>2. CASE Activate(w)
  <2>1. tag # "closed" /\ ~terminated /\ Running(w)
    BY <1>2, Zenon DEF Activate, Running, IInv, Control, Lifecycle
  <2>2. \E pc \in {"fetch", "initclose"} : Goto(w, pc)
    BY <1>2, <2>1, Zenon DEF Activate
  <2> QED
    BY <1>2, <2>1, <2>2, ControlWithin, Zenon DEF Activate, WorkerPc, senderVars
<1>3. CASE Fetch(w)
  <2>1. /\ tag # "closed" /\ tag' = "empty"
        /\ \A v \in Workers : wpc'[v] = IF v = w THEN "urgent" ELSE wpc[v]
        /\ UNCHANGED <<terminated, jobs, spc>>
        /\ wpc[w] = "fetch"
    BY <1>0, <1>3, Zenon DEF Fetch, TakeHead, WorkerPc, senderVars
  <2>2. AtMostOneRunner' /\ Responsible'
    BY <2>1, Zenon DEF IInv, Control, AtMostOneRunner, Responsible, Running
  <2>3. NoLostWakeup'
    BY <2>1, <2>2, Zenon DEF NoLostWakeup
  <2>4. Lifecycle'
    BY <2>1, Zenon DEF IInv, Control, Lifecycle
  <2> QED
    BY <2>2, <2>3, <2>4, Zenon DEF Control
<1>4. CASE Exhausted(w) \/ BeginNormal(w) \/ Check(w)
  <2>1. /\ Running(w) /\ wpc[w] \notin {"term", "initterm"}
        /\ UNCHANGED <<tag, stack, queue, cache, terminated, jobs, spc>>
    BY <1>4, Zenon DEF Exhausted, BeginNormal, Check, Running, actorVars, senderVars
  <2>2. \/ Goto(w, "late") /\ tag # "closed"
        \/ Goto(w, "normal") /\ tag # "closed"
        \/ Goto(w, "finalize")
        \/ Goto(w, "block")
    BY <1>0, <1>4, Zenon DEF Exhausted, BeginNormal, Check
  <2> QED
    BY <2>1, <2>2, ControlWithin, Zenon DEF WorkerPc
<1>5. ASSUME NEW c \in Category, RoundStep(w, c) PROVE Control'
  <2>1. /\ Running(w) /\ wpc[w] \notin {"term", "initterm"}
        /\ tag # "closed"
        /\ UNCHANGED <<tag, stack, terminated, jobs, spc>>
    BY <1>0, <1>5, ZenonT(30)
       DEF RoundStep, EndRound, Consume, Drop, Skip, Quit, HasNext,
                      Running, Category, actorVars, senderVars
  <2>2. CASE EndRound(w, c) \/ Consume(w, c) \/ Quit(w, c)
    <3>1. \E pc \in {"urgent", "begin", "normal", "check", "close"} : Goto(w, pc)
      BY <2>2, Zenon DEF EndRound, Consume, Quit, AfterRound, Category
    <3> QED
      BY <2>1, <3>1, ControlWithin, Zenon DEF WorkerPc
  <2>3. CASE Drop(w, c) \/ Skip(w, c)
    <3>1. wpc' = wpc
      BY <2>3, Zenon DEF Drop, Skip, workerVars
    <3>2. Responsible' /\ tag # "blocked"
      BY <1>0, <2>1, <3>1, Zenon DEF Responsible, Running
    <3>3. AtMostOneRunner' /\ NoLostWakeup'
      BY <2>1, <3>1, <3>2, Zenon
         DEF IInv, Control, AtMostOneRunner, NoLostWakeup, Running
    <3>4. Lifecycle'
      BY <2>1, <3>1, Zenon DEF IInv, Control, Lifecycle
    <3> QED
      BY <3>3, <3>4, Zenon DEF Control
  <2> QED
    BY <1>5, <2>2, <2>3, Zenon DEF RoundStep
<1>6. CASE Close(w)
  <2>1. /\ tag # "closed" /\ tag' = "closed"
        /\ stack' = NoMsgs /\ queue' = NoMsgs /\ cache' = NoMsgs
        /\ UNCHANGED <<terminated, jobs, spc>>
        /\ wpc[w] \in {"close", "initclose"}
        /\ \E pc \in {"term", "initterm"} :
             \A v \in Workers : wpc'[v] = IF v = w THEN pc ELSE wpc[v]
    <3>1. \E pc \in {"term", "initterm"} : Goto(w, pc)
      BY <1>6, Zenon DEF Close
    <3>2. \E pc \in {"term", "initterm"} :
            \A v \in Workers : wpc'[v] = IF v = w THEN pc ELSE wpc[v]
      BY <1>0, <3>1, Zenon DEF WorkerPc
    <3> QED
      BY <1>6, <3>2, Zenon DEF Close, CloseInbox, senderVars
  <2>2. AtMostOneRunner' /\ Responsible'
    BY <2>1, Zenon DEF IInv, Control, AtMostOneRunner, Responsible, Running
  <2>3. NoLostWakeup'
    BY <2>1, <2>2, Zenon DEF NoLostWakeup
  <2>4. /\ ~(jobs > 0)
        /\ \A s \in Senders : spc[s] # "wake"
        /\ \A v \in Workers : v # w => ~Running(v)
    <3>1. Running(w)
      BY <2>1, Zenon DEF Running
    <3> QED
      BY <3>1 DEF IInv, TypeOK, Control, AtMostOneRunner
  <2>5. ~terminated
    BY <2>1, Zenon DEF IInv, Control, Lifecycle
  <2>6. Lifecycle'
    BY <2>1, <2>4, <2>5, Zenon DEF Lifecycle, Running
  <2> QED
    BY <2>2, <2>3, <2>6, Zenon DEF Control
<1>7. CASE Terminate(w)
  <2>1. /\ tag = "closed" /\ tag' = tag /\ stack' = stack /\ queue' = queue
        /\ cache' = cache /\ terminated' = TRUE /\ jobs' = jobs /\ spc' = spc
        /\ wpc[w] \in {"term", "initterm"}
        /\ \E pc \in {"check", "release"} :
             \A v \in Workers : wpc'[v] = IF v = w THEN pc ELSE wpc[v]
    BY <1>0, <1>7, Zenon DEF Terminate, WorkerPc, senderVars, IInv, Control, Lifecycle
  <2>2. AtMostOneRunner'
    BY <2>1, Zenon DEF IInv, Control, AtMostOneRunner, Running
  <2>3. queue = NoMsgs /\ stack = NoMsgs /\ cache = NoMsgs
    BY <2>1, Zenon DEF IInv, Control, Lifecycle
  <2>4. NoLostWakeup'
    BY <2>1, <2>3, NoMsgsHoldsNothing, Zenon DEF NoLostWakeup
  <2>5. \A v \in Workers : wpc'[v] \notin {"term", "initterm"}
    BY <2>1, Zenon DEF IInv, Control, AtMostOneRunner, Running
  <2>6. Lifecycle'
    BY <2>1, <2>3, <2>5, Zenon DEF IInv, Control, Lifecycle
  <2> QED
    BY <2>2, <2>4, <2>6, Zenon DEF Control
<1>8. CASE Finalize(w)
  <2>1. /\ Running(w) /\ wpc[w] = "finalize"
        /\ UNCHANGED <<tag, stack, queue, cache, terminated, jobs, spc>>
    BY <1>8, Zenon DEF Finalize, Running, actorVars, senderVars
  <2>2. CASE ~terminated
    <3>1. Goto(w, "fetch") /\ tag # "closed"
      BY <1>0, <1>8, <2>1, <2>2, ZenonT(30) DEF Finalize
    <3> QED
      BY <2>1, <3>1, ControlWithin, Zenon DEF WorkerPc
  <2>3. CASE terminated
    <3>1. /\ tag = "closed" /\ queue = NoMsgs
          /\ \A v \in Workers : wpc'[v] = IF v = w THEN "release" ELSE wpc[v]
      BY <1>0, <1>8, <2>3, Zenon DEF Finalize, WorkerPc, IInv, Control, Lifecycle
    <3>2. AtMostOneRunner'
      BY <2>1, <3>1, Zenon DEF IInv, Control, AtMostOneRunner, Running
    <3>3. NoLostWakeup'
      BY <2>1, <3>1, NoMsgsHoldsNothing, ZenonT(30) DEF NoLostWakeup
    <3>4. Lifecycle'
      BY <2>1, <2>3, <3>1, Zenon DEF IInv, Control, Lifecycle
    <3> QED
      BY <3>2, <3>3, <3>4, Zenon DEF Control
  <2> QED
    BY <2>2, <2>3, Zenon
<1>9. ASSUME Running(w), wpc[w] \notin {"term", "initterm"}, CanBlock, TryBlock,
             Goto(w, "release"), UNCHANGED actorVars,
             UNCHANGED <<jobs, spc>>
      PROVE  Control'
  <2>1. /\ tag = "empty" /\ tag' = "blocked" /\ MsgsOf(queue) = {}
        /\ UNCHANGED <<stack, queue, cache, terminated, jobs, spc>>
        /\ \A v \in Workers : wpc'[v] = IF v = w THEN "release" ELSE wpc[v]
    BY <1>0, <1>9, EmptyHoldsNothing, Zenon
       DEF CanBlock, TryBlock, WorkerPc, actorVars
  <2>2. ~Responsible'
    BY <1>9, <2>1 DEF IInv, TypeOK, Control, AtMostOneRunner, Responsible,
                      Running
  <2>3. AtMostOneRunner'
    BY <2>1, ZenonT(30) DEF IInv, Control, AtMostOneRunner, Running
  <2>4. NoLostWakeup'
    BY <2>1, <2>2, Zenon DEF NoLostWakeup
  <2>5. Lifecycle'
    BY <2>1, Zenon DEF IInv, Control, Lifecycle
  <2> QED
    BY <2>3, <2>4, <2>5, Zenon DEF Control
<1>10. CASE Block(w)
  <2>1. Running(w) /\ wpc[w] = "block" /\ UNCHANGED <<jobs, spc, actorVars>>
    BY <1>10, Zenon DEF Block, Running, senderVars
  <2>2. CASE CanBlock
    BY <1>9, <1>10, <2>1, <2>2, Zenon DEF Block
  <2>3. CASE ~CanBlock
    <3>1. UNCHANGED <<tag, stack>> /\ Goto(w, "finalize")
      BY <1>10, <2>3, Zenon DEF Block
    <3> QED
      BY <2>1, <3>1, ControlWithin, Zenon DEF WorkerPc, actorVars
  <2> QED
    BY <2>2, <2>3, Zenon
<1>11. CASE BlockLate(w)
  <2>1. Running(w) /\ wpc[w] = "late" /\ UNCHANGED <<spc, actorVars>>
    BY <1>11, Zenon DEF BlockLate, Running, senderVars
  <2>2. CASE CanBlock
    BY <1>9, <1>11, <2>1, <2>2, Zenon DEF BlockLate
  <2>3. CASE ~CanBlock
    <3>1. /\ UNCHANGED <<tag, stack, queue, cache, terminated, spc>>
          /\ tag # "closed" /\ jobs' = jobs + 1
          /\ \A v \in Workers : wpc'[v] = IF v = w THEN "idle" ELSE wpc[v]
      BY <1>0, <1>11, <2>1, <2>3, Zenon DEF BlockLate, WorkerPc, actorVars
    <3>2. /\ jobs = 0
          /\ \A s \in Senders : spc[s] # "wake"
          /\ \A v \in Workers : v # w => ~Running(v)
      BY <2>1 DEF IInv, TypeOK, Control, AtMostOneRunner
    <3>3. jobs' = 1 /\ \A v \in Workers : ~Running(v)'
      BY <3>1, <3>2 DEF Running
    <3>4. AtMostOneRunner'
      BY <3>1, <3>2, <3>3 DEF AtMostOneRunner
    <3>5. Responsible' /\ tag # "blocked"
      BY <1>0, <2>1, <3>3 DEF Responsible
    <3>6. NoLostWakeup'
      BY <3>1, <3>5, Zenon DEF NoLostWakeup
    <3>7. Lifecycle'
      BY <3>1, Zenon DEF IInv, Control, Lifecycle
    <3> QED
      BY <3>4, <3>6, <3>7, Zenon DEF Control
  <2> QED
    BY <2>2, <2>3, Zenon
<1>12. CASE Release(w)
  <2>1. /\ wpc[w] = "release" /\ ReleaseRef /\ jobs' = jobs /\ spc' = spc
        /\ \A v \in Workers : wpc'[v] = IF v = w THEN "idle" ELSE wpc[v]
    BY <1>0, <1>12, ZenonT(30) DEF Release, WorkerPc, senderVars
  <2>2. strong > 0 /\ (strong = 1 => jobs = 0 /\ Owners = {} /\ Busy = {w})
    BY <2>1, HolderKeepsAlive, Zenon DEF IInv
  <2>3. strong = 1 => /\ \A v \in Workers : ~Running(v)
                      /\ \A s \in Senders : spc[s] # "wake"
    BY <2>1, <2>2, Zenon DEF Busy, Owners, Running, IInv, RefsAccounted
  <2>4. \A v \in Workers : /\ Running(v)' <=> Running(v)
                           /\ Running(v) \/ Running(v)' => wpc'[v] = wpc[v]
    BY <2>1 DEF Running
  <2> QED
    BY <2>1, <2>2, <2>3, <2>4, ControlRelease, Zenon DEF Running
<1> QED
  BY <1>1, <1>2, <1>3, <1>4, <1>5, <1>6, <1>7, <1>8, <1>10, <1>11, <1>12, Zenon
     DEF WorkerStep

\* The inductive invariant of an event-based actor.
THEOREM Invariant == Spec => []IInv
<1>1. Init => IInv
  BY TypeInit, RefsInit, ControlInit, Zenon DEF IInv
<1>2. IInv /\ [Next]_vars => IInv'
  <2> SUFFICES ASSUME IInv, [Next]_vars PROVE IInv'
    BY Zenon
  <2>1. TypeOK' /\ RefsAccounted'
    BY TypeStep, RefsStep, Zenon DEF IInv
  <2>2. Control'
    <3>1. CASE \E s \in Senders : SenderStep(s)
      BY <3>1, ControlSender, Zenon
    <3>2. CASE \E w \in Workers : WorkerStep(w)
      BY <3>2, ControlWorker, Zenon
    <3>3. CASE UNCHANGED vars
      BY <3>3, Zenon
         DEF vars, IInv, Control, AtMostOneRunner, NoLostWakeup, Lifecycle,
                  Responsible, Running
    <3> QED
      BY <3>1, <3>2, <3>3, Zenon DEF Next
  <2> QED
    BY <2>1, <2>2, Zenon DEF IInv
<1> QED
  BY <1>1, <1>2, PTL DEF Spec

-----------------------------------------------------------------------------
(* What follows from it. *)

\* Every state of an actor is well typed.
THEOREM TypeCorrect == Spec => []TypeOK
<1>1. IInv => TypeOK
  BY Zenon DEF IInv
<1> QED
  BY <1>1, Invariant, PTL

\* At most one worker runs the actor, and it is scheduled at most once.
THEOREM MutualExclusion == Spec => []AtMostOneRunner
<1>1. IInv => AtMostOneRunner
  BY Zenon DEF IInv, Control
<1> QED
  BY <1>1, Invariant, PTL

\* An actor that nobody is bound to run waits with a blocked or closed inbox
\* and no message in its queues.
THEOREM NoWakeupLost == Spec => []NoLostWakeup
<1>1. IInv => NoLostWakeup
  BY Zenon DEF IInv, Control
<1> QED
  BY <1>1, Invariant, PTL

\* Strong references are counted exactly, and the object lives as long as one.
THEOREM ReferencesCounted == Spec => []RefsAccounted
<1>1. IInv => RefsAccounted
  BY Zenon DEF IInv
<1> QED
  BY <1>1, Invariant, PTL

\* The assertions of lifo_inbox::take_head hold whenever resume reads.
THEOREM InboxIsReadable == Spec => []ReaderOwnsInbox
<1>1. IInv => ReaderOwnsInbox
  <2> SUFFICES ASSUME IInv, NEW w \in Workers, wpc[w] = "fetch"
               PROVE  tag \in {"empty", "list"}
    BY Zenon DEF ReaderOwnsInbox
  <2>1. tag # "closed"
    BY Zenon DEF IInv, Control, Lifecycle
  <2>2. tag # "blocked"
    BY Zenon DEF IInv, Control, NoLostWakeup, Responsible, Running
  <2> QED
    BY <2>1, <2>2, Zenon DEF IInv, TypeOK, Tags
<1> QED
  BY <1>1, Invariant, PTL

\* No worker activates an actor after it terminated.
THEOREM TerminatedStaysAsleep == Spec => []NeverActivateTerminated
<1>1. IInv => NeverActivateTerminated
  BY Zenon DEF IInv, Control, Lifecycle, NeverActivateTerminated
<1> QED
  BY <1>1, Invariant, PTL

\* Nobody has a way left to touch an actor that was destroyed.
LEMMA DestroyedIsUntouched ==
  ASSUME IInv, destroyed
  PROVE  ~Next
<1>1. strong = 0 /\ jobs = 0
  <2>1. strong = 0
    BY Zenon DEF IInv, RefsAccounted
  <2> QED
    BY <2>1, RefsCount, HoldersFinite DEF IInv, TypeOK
<1>2. /\ \A s \in Senders : ~owns[s]
      /\ \A w \in Workers : wpc[w] = "idle"
  BY <1>1, HolderKeepsAlive DEF IInv
<1>3. ASSUME NEW s \in Senders PROVE ~SenderStep(s)
  BY <1>2, ZenonT(30)
     DEF SenderStep, Enqueue, Wake, DropHandle, IInv, RefsAccounted
<1>4. ASSUME NEW w \in Workers PROVE ~WorkerStep(w)
  <2>1. ~Dequeue(w)
    BY <1>1 DEF Dequeue
  <2>2. wpc[w] = "idle"
    BY <1>2, Zenon
  <2>3. ~(Activate(w) \/ Fetch(w) \/ Exhausted(w) \/ BeginNormal(w))
    BY <2>2, Zenon DEF Activate, Fetch, Exhausted, BeginNormal
  <2>4. ASSUME NEW c \in Category PROVE ~RoundStep(w, c)
    BY <2>2, Zenon DEF RoundStep, EndRound, Consume, Drop, Skip, Quit, HasNext,
                Category
  <2>5. ~(Close(w) \/ Terminate(w) \/ Check(w) \/ Block(w))
    BY <2>2, ZenonT(30) DEF Close, Terminate, Check, Block
  <2>6. ~(Finalize(w) \/ BlockLate(w) \/ Release(w))
    BY <2>2, Zenon DEF Finalize, BlockLate, Release
  <2> QED
    BY <2>1, <2>3, <2>4, <2>5, <2>6, Zenon DEF WorkerStep
<1> QED
  BY <1>3, <1>4, Zenon DEF Next

\* A closed inbox stays closed, a terminated actor handles no more messages
\* and stays terminated, and a destroyed one is gone for good.
THEOREM ClosingIsFinal == Spec => ClosedForever
<1> DEFINE A == /\ tag = "closed" => tag' = "closed"
                /\ terminated => terminated' /\ handled' = handled
                /\ destroyed => destroyed' /\ strong' = strong
<1>1. IInv /\ [Next]_vars => [A]_vars
  <2> SUFFICES ASSUME IInv, Next PROVE A
    BY Zenon
  <2>1. ~destroyed
    BY DestroyedIsUntouched, Zenon
  <2>2. ASSUME NEW s \in Senders, SenderStep(s) PROVE A
    BY <2>1, <2>2, ZenonT(30)
       DEF SenderStep, Enqueue, PushFront, Wake, DropHandle,
                      ReleaseRef, actorVars, outVars
  <2>3. ASSUME NEW w \in Workers, WorkerStep(w) PROVE A
    <3>1. CASE Dequeue(w) \/ Activate(w) \/ Exhausted(w) \/ BeginNormal(w)
               \/ Check(w) \/ Finalize(w)
      <4>1. UNCHANGED <<tag, terminated, handled>>
        BY <3>1, ZenonT(30)
           DEF Dequeue, Activate, Exhausted, BeginNormal, Check, Finalize,
                    actorVars, outVars
      <4> QED
        BY <2>1, <4>1, Zenon
    <3>2. CASE Fetch(w)
      BY <2>1, <3>2, Zenon DEF Fetch, TakeHead, outVars
    <3>3. ASSUME NEW c \in Category, RoundStep(w, c) PROVE A
      <4>1. tag # "closed" /\ ~terminated
        <5>1. wpc[w] \in {"urgent", "normal"}
          BY <3>3, Zenon DEF RoundStep, EndRound, Consume, Drop, Skip, Quit, HasNext,
                      Category
        <5> QED
          BY <5>1, Zenon DEF IInv, Control, Lifecycle
      <4> QED
        BY <2>1, <4>1, Zenon
    <3>4. CASE Close(w) \/ Terminate(w)
      BY <2>1, <3>4 DEF Close, CloseInbox, Terminate, outVars
    <3>5. CASE Block(w) \/ BlockLate(w)
      BY <2>1, <3>5 DEF Block, BlockLate, TryBlock, actorVars, outVars
    <3>6. CASE Release(w)
      BY <2>1, <3>6, Zenon DEF Release, ReleaseRef
    <3> QED
      BY <2>3, <3>1, <3>2, <3>3, <3>4, <3>5, <3>6, Zenon DEF WorkerStep
  <2> QED
    BY <2>2, <2>3, Zenon DEF Next
<1>2. Spec => [][Next]_vars
  BY PTL DEF Spec
<1> QED
  BY <1>1, <1>2, Invariant, PTL DEF ClosedForever
=============================================================================
