----------------------- MODULE SynchronizationProofs ------------------------
(***************************************************************************)
(* Proofs about the two places where threads synchronise through an atomic *)
(* word of their own: the lock-free inbox of a mailbox (LifoInbox) and the *)
(* count of running actors (RunningCount), for any number of threads,      *)
(* elements, addresses and actors.                                         *)
(*                                                                         *)
(* First who owns an element of the inbox, and that its compare-and-swaps  *)
(* implement the atomic operations of Inbox; then that the count is exact  *)
(* and what a wait for it promises.                                        *)
(***************************************************************************)
EXTENDS LifoInbox, RunningCount, ListLemmas

-----------------------------------------------------------------------------
(* The inbox: its inductive invariant. *)

\* Where the reader is while it owns the blocked tag, and elsewhere.
OwnsTag == {"lock", "check", "sleep", "wait", "relock", "timeout", "unblock"}
Location == {"idle", "awake", "take", "walk", "done"} \cup OwnsTag

TypeOK ==
  /\ stack_ \in Addr \cup Tag
  /\ next \in [Addr -> Addr \cup {"empty"}]
  /\ elem \in [Addr -> Elem \cup {Free}]
  /\ wpc \in [Writers -> {"idle", "cas", "lock", "notify"}]
  /\ we \in [Writers -> Addr \cup Tag]
  /\ new \in [Writers -> Addr \cup {"empty"}]
  /\ pushes \in [Writers -> 0..MaxPush]
  /\ rpc \in Location /\ re \in Addr \cup Tag /\ target \in {"empty", "closed"}
  /\ list \in Addr \cup {"empty"}
  /\ waiting \in BOOLEAN

\* A writer has an element exactly while it tries to push it, and stops trying
\* when it sees the closed tag.
WriterControl ==
  \A w \in Writers : /\ wpc[w] = "cas" <=> new[w] \in Addr
                     /\ wpc[w] = "cas" => we[w] # "closed"

\* Only the reader blocks and closes the inbox, only a waiting reader is
\* notified, and there is a detached list only while the reader walks it.
ReaderControl ==
  /\ rpc # "walk" => list = "empty"
  /\ rpc = "take" => re # target
  /\ waiting => rpc = "wait"
  /\ stack_ = "blocked" => rpc \in OwnsTag
  /\ stack_ = "closed" => rpc \in {"walk", "done"} /\ target = "closed"

\* The elements that writers are about to push.
Own == {new[w] : w \in Writers} \ {"empty"}

\* The inbox holds s and the reader d, and every element has one owner.
Owned(s, d) ==
  /\ Path(stack_, next, Addr, s) /\ Injective(s)
  /\ Path(list, next, Addr, d) /\ Injective(d)
  /\ Nodes(s) \cap Nodes(d) = {} /\ Own \cap (Nodes(s) \cup Nodes(d)) = {}
  /\ {a \in Addr : elem[a] # Free} = Nodes(s) \cup Nodes(d) \cup Own
  /\ \A v, w \in Writers : new[v] = new[w] /\ new[v] # "empty" => v = w

Control == TypeOK /\ WriterControl /\ ReaderControl

IInv == Control /\ \E s, d \in Seq(Addr) : Owned(s, d)

\* What a step does to the list s of the inbox.
Keeps(s, t) == t = s /\ stack_' = stack_ /\ \A a \in Nodes(s) : elem'[a] = elem[a]
Pushes(s, t) == /\ stack_ # "closed" /\ stack_' \in Addr /\ elem[stack_'] \in Elem
                /\ t = <<stack_'>> \o s /\ elem' = elem
Takes(s, t) == /\ t = <<>> /\ stack_ # "closed"
               /\ stack_' = "closed" \/ (stack_' = "empty" /\ stack_ # "blocked")
Turns(s, t) == /\ s = <<>> /\ t = <<>>
               /\ \/ stack_ = "empty" /\ stack_' = "blocked"
                  \/ stack_ = "blocked" /\ stack_' = "empty"
ListStep(s, t) == Keeps(s, t) \/ Pushes(s, t) \/ Takes(s, t) \/ Turns(s, t)

-----------------------------------------------------------------------------
(* The steps. *)

\* The locations of writers and reader.
LEMMA ControlLoad ==
  ASSUME Control, NEW w \in Writers, NEW a \in Addr, NEW c \in Cats, Load(w, a, c)
  PROVE  Control'
<1>1. pushes[w] \in 0..MaxPush /\ pushes[w] + 1 \in 1..MaxPush
  BY LifoConstants DEF Control, TypeOK, Load
<1>2. [src |-> w, seq |-> pushes[w] + 1, cat |-> c] \in Elem
  BY <1>1, Zenon DEF Elem
<1>3. TypeOK'
  BY <1>1, <1>2 DEF Control, TypeOK, Load, reader, sync
<1>4. WriterControl' /\ ReaderControl'
  BY LifoConstants DEF Control, TypeOK, WriterControl, ReaderControl, Load, reader, sync, Tag
<1> QED
  BY <1>3, <1>4, Zenon DEF Control

\* The locations of writers and reader.
LEMMA ControlCas ==
  ASSUME Control, NEW w \in Writers, Cas(w)
  PROVE  Control'
<1>1. new[w] \in Addr /\ we[w] # "closed" /\ we[w] \in Addr \cup Tag
  BY Zenon DEF Control, TypeOK, WriterControl, Cas
<1>2. (IF we[w] # "blocked" THEN we[w] ELSE "empty") \in Addr \cup {"empty"}
  BY <1>1, Zenon DEF Tag
<1>3. TypeOK'
  <2>1. next' \in [Addr -> Addr \cup {"empty"}]
    BY <1>1, <1>2, Zenon DEF Control, TypeOK, Cas
  <2> QED
    BY <1>1, <2>1 DEF Control, TypeOK, Cas, reader, sync
<1>4. WriterControl'
  BY <1>1, LifoConstants DEF Control, TypeOK, WriterControl, Cas, Tag
<1>5. ReaderControl'
  BY <1>1, LifoConstants DEF Control, TypeOK, ReaderControl, Cas, reader, sync, Tag
<1> QED
  BY <1>3, <1>4, <1>5, Zenon DEF Control

\* The locations of writers and reader.
LEMMA ControlNotify ==
  ASSUME Control, NEW w \in Writers, LockForNotify(w) \/ Notify(w)
  PROVE  Control'
<1>1. TypeOK'
  BY Zenon DEF Control, TypeOK, LockForNotify, Notify, reader, sync, shared, Location, OwnsTag
<1>2. WriterControl'
  BY Zenon DEF Control, TypeOK, WriterControl, LockForNotify, Notify
<1>3. ReaderControl'
  BY DEF Control, TypeOK, ReaderControl, LockForNotify, Notify, reader, shared, OwnsTag
<1> QED
  BY <1>1, <1>2, <1>3, Zenon DEF Control

\* The locations of writers and reader.
LEMMA ControlTake ==
  ASSUME Control, (\E t \in {"empty", "closed"} : TakeLoad(t)) \/ TakeCas
  PROVE  Control'
<1>1. TypeOK'
  BY Zenon DEF Control, TypeOK, TakeLoad, TakeCas, shared, writer, sync, Location, Tag
<1>2. WriterControl'
  BY Zenon DEF Control, WriterControl, TakeLoad, TakeCas, shared, writer
<1>3. ReaderControl'
  BY <1>1, LifoConstants, Zenon DEF Control, TypeOK, ReaderControl, TakeLoad, TakeCas, shared, writer, sync,
           Location, OwnsTag, Tag
<1> QED
  BY <1>1, <1>2, <1>3, Zenon DEF Control

\* The locations of writers and reader.
LEMMA ControlWalk ==
  ASSUME Control, Walk \/ WalkEnd
  PROVE  Control'
<1>1. TypeOK'
  BY Zenon DEF Control, TypeOK, Walk, WalkEnd, shared, writer, sync, Location
<1> QED
  BY <1>1, LifoConstants, Zenon
     DEF Control, TypeOK, WriterControl, ReaderControl, Walk, WalkEnd, shared, writer, sync,
           OwnsTag, Tag

\* The locations of writers and reader.
LEMMA ControlAwait ==
  ASSUME Control, AwaitBlock \/ AwaitStep
  PROVE  Control'
<1>1. TypeOK'
  BY Zenon DEF Control, TypeOK, AwaitBlock, AwaitStep, AwaitLock, AwaitCheck, AwaitSleep,
         AwaitSpurious, AwaitRelock, AwaitUnblock, shared, writer, sync, Location, OwnsTag, Tag
<1>2. WriterControl'
  BY Zenon DEF Control, WriterControl, AwaitBlock, AwaitStep, AwaitLock, AwaitCheck, AwaitSleep,
         AwaitSpurious, AwaitRelock, AwaitUnblock, shared, writer
<1>3. ReaderControl'
  BY <1>1, LifoConstants, Zenon DEF Control, TypeOK, ReaderControl, AwaitBlock, AwaitStep, AwaitLock,
         AwaitCheck, AwaitSleep, AwaitSpurious, AwaitRelock, AwaitUnblock, shared, writer, sync,
         Location, OwnsTag, Tag
<1> QED
  BY <1>1, <1>2, <1>3, Zenon DEF Control

-----------------------------------------------------------------------------
(* Who owns what, and what happens to the list of the inbox. *)

\* Nothing of this is touched.
LEMMA OwnedSame ==
  ASSUME NEW s \in Seq(Addr), NEW d \in Seq(Addr), Owned(s, d),
         UNCHANGED <<stack_, next, elem, new, list>>
  PROVE  Owned(s, d)' /\ ListStep(s, s)
BY DEF Owned, Own, ListStep, Keeps

\* A new element belongs to the writer that allocated it.
LEMMA OwnedLoad ==
  ASSUME Control, NEW s \in Seq(Addr), NEW d \in Seq(Addr), Owned(s, d),
         NEW w \in Writers, NEW a \in Addr, NEW c \in Cats, Load(w, a, c)
  PROVE  Owned(s, d)' /\ ListStep(s, s)
<1>1. CASE stack_ = "closed"
  BY <1>1, OwnedSame, Zenon DEF Load, reader
<1>2. CASE stack_ # "closed"
  <2>1. PICK x : x = [src |-> w, seq |-> pushes[w] + 1, cat |-> c]
    BY Zenon
  <2>2. x # Free
    <3>1. x \in Elem
      BY <2>1, LifoConstants DEF Elem, Control, TypeOK, Load
    <3> QED
      BY <3>1, LifoConstants, Zenon DEF Elem
  <2>3. /\ elem[a] = Free /\ elem' = [elem EXCEPT ![a] = x]
        /\ new' = [new EXCEPT ![w] = a] /\ new[w] = "empty"
        /\ UNCHANGED <<stack_, next, list>>
    BY <1>2, <2>1, Zenon DEF Load, reader, Control, TypeOK, WriterControl
  <2>4. a \notin Nodes(s) /\ a \notin Nodes(d) /\ a \notin Own
    BY <2>3, Zenon DEF Owned
  <2>5. a # "empty"
    BY LifoConstants, Zenon DEF Tag
  <2>6. Own' = Own \cup {a}
    BY <2>3, <2>5, Zenon DEF Own, Control, TypeOK
  <2>7. \A b \in Addr : b # a => elem'[b] = elem[b]
    BY <2>3, Zenon DEF Control, TypeOK
  <2>8. {b \in Addr : elem'[b] # Free} = {b \in Addr : elem[b] # Free} \cup {a}
    BY <2>2, <2>3, Zenon DEF Control, TypeOK
  <2>9. \A v, u \in Writers : new'[v] = new'[u] /\ new'[v] # "empty" => v = u
    <3>1. \A v \in Writers : new[v] # a
      BY <2>4, <2>5, Zenon DEF Own
    <3> QED
      BY <2>3, <3>1, Zenon DEF Control, TypeOK, Owned
  <2>10. Nodes(s) \subseteq Addr
    BY DEF Nodes
  <2> QED
    BY <2>3, <2>4, <2>6, <2>7, <2>8, <2>9, <2>10, Zenon DEF Owned, ListStep, Keeps
<1> QED
  BY <1>1, <1>2, Zenon

\* An element is linked, and becomes part of the list if nobody was faster.
LEMMA OwnedCas ==
  ASSUME Control, NEW s \in Seq(Addr), NEW d \in Seq(Addr), Owned(s, d),
         NEW w \in Writers, Cas(w)
  PROVE  \E t \in Seq(Addr) : Owned(t, d)' /\ ListStep(s, t)
<1>1. PICK a : a = new[w]
  BY Zenon
<1>2. /\ a \in Addr /\ a # "empty" /\ we[w] # "closed" /\ we[w] \in Addr \cup Tag
      /\ next' = [next EXCEPT ![a] = IF we[w] # "blocked" THEN we[w] ELSE "empty"]
      /\ list' = list
  BY <1>1, LifoConstants, Zenon DEF Control, TypeOK, WriterControl, Cas, reader, Tag
<1>3. a \in Own /\ a \notin Nodes(s) /\ a \notin Nodes(d) /\ elem[a] # Free
  BY <1>1, <1>2 DEF Own, Owned
<1>4. Nodes(s) \subseteq Addr /\ Nodes(d) \subseteq Addr
  BY DEF Nodes
<1>5. \A b \in Nodes(s) \cup Nodes(d) : next'[b] = next[b]
  BY <1>2, <1>3, <1>4, Zenon DEF Control, TypeOK
<1>6. Path(stack_, next', Addr, s) /\ Path(list, next', Addr, d)
  BY <1>5, PathSame, Zenon DEF Owned
<1>7. \A u \in Writers : new[u] = a => u = w
  BY <1>1, <1>2, Zenon DEF Owned
<1>8. ASSUME new' = [new EXCEPT ![w] = "empty"]
      PROVE  /\ Own' = Own \ {a}
             /\ \A v, u \in Writers : new'[v] = new'[u] /\ new'[v] # "empty" => v = u
  <2>1. \A u \in Writers : new'[u] = IF u = w THEN "empty" ELSE new[u]
    BY <1>8, Zenon DEF Control, TypeOK
  <2> QED
    BY <1>1, <1>7, <2>1 DEF Own, Owned
<1>9. CASE stack_ = we[w]
  <2>1. stack_' = a /\ new' = [new EXCEPT ![w] = "empty"] /\ elem' = elem
    BY <1>1, <1>9, Zenon DEF Cas
  <2>2. next'[a] = stack_ \/ (stack_ \notin Addr /\ next'[a] \notin Addr)
    BY <1>2, <1>9, LifoConstants, Zenon DEF Control, TypeOK, Tag
  <2>3. PICK t : t = <<a>> \o s
    BY Zenon
  <2>4. /\ t \in Seq(Addr) /\ Path(a, next', Addr, t) /\ Injective(t)
        /\ Nodes(t) = Nodes(s) \cup {a}
    <3>1. Injective(s)
      BY Zenon DEF Owned
    <3>2. PICK f : f = next'
      BY Zenon
    <3>3. f[a] = stack_ \/ (stack_ \notin Addr /\ f[a] \notin Addr)
      BY <2>2, <3>2, Zenon
    <3>4. Path(stack_, f, Addr, s)
      BY <1>6, <3>2, Zenon
    <3>5. /\ <<a>> \o s \in Seq(Addr) /\ Path(a, f, Addr, <<a>> \o s)
          /\ Injective(<<a>> \o s) /\ Nodes(<<a>> \o s) = Nodes(s) \cup {a}
      BY <1>2, <1>3, <3>1, <3>3, <3>4, PathCons
    <3> QED
      BY <2>3, <3>2, <3>5, Zenon
  <2>5. Owned(t, d)'
    BY <1>2, <1>3, <1>6, <1>8, <2>1, <2>4 DEF Owned
  <2>6. ListStep(s, t)
    BY <1>2, <1>3, <1>9, <2>1, <2>3, Zenon DEF ListStep, Pushes, Control, TypeOK
  <2> QED
    BY <2>4, <2>5, <2>6, Zenon
<1>10. CASE stack_ # we[w]
  <2>1. Owned(s, d)' /\ ListStep(s, s)
    <3>1. stack_' = stack_
      BY <1>10, Zenon DEF Cas
    <3>2. CASE stack_ = "closed"
      <4>1. elem' = [elem EXCEPT ![a] = Free] /\ new' = [new EXCEPT ![w] = "empty"]
        BY <1>1, <1>10, <3>2, Zenon DEF Cas
      <4>2. \A b \in Addr : elem'[b] = IF b = a THEN Free ELSE elem[b]
        BY <4>1, Zenon DEF Control, TypeOK
      <4>3. {b \in Addr : elem'[b] # Free} = {b \in Addr : elem[b] # Free} \ {a}
        BY <4>2, Zenon
      <4> QED
        BY <1>2, <1>3, <1>4, <1>6, <1>8, <3>1, <4>1, <4>2, <4>3, Zenon DEF Owned, ListStep, Keeps
    <3>3. CASE stack_ # "closed"
      <4>1. UNCHANGED <<elem, new>>
        BY <1>10, <3>3, Zenon DEF Cas
      <4> QED
        BY <1>2, <1>6, <3>1, <4>1 DEF Owned, Own, ListStep, Keeps
    <3> QED
      BY <3>2, <3>3, Zenon
  <2> QED
    BY <2>1, Zenon
<1> QED
  BY <1>9, <1>10, Zenon

\* The list of the inbox becomes the one that the reader walks.
LEMMA OwnedTake ==
  ASSUME Control, NEW s \in Seq(Addr), NEW d \in Seq(Addr), Owned(s, d), TakeCas
  PROVE  \E t, e \in Seq(Addr) : Owned(t, e)' /\ ListStep(s, t)
<1>1. CASE UNCHANGED <<stack_, list>>
  <2>1. Owned(s, d)' /\ ListStep(s, s)
    BY <1>1, OwnedSame, Zenon DEF TakeCas, writer
  <2> QED
    BY <2>1, Zenon
<1>2. CASE /\ stack_ = re /\ stack_' = target
           /\ list' = IF re \in Addr THEN re ELSE "empty"
  <2>1. /\ UNCHANGED <<next, elem, new>> /\ target \in {"empty", "closed"} /\ list = "empty"
        /\ re # target /\ stack_ # "blocked" /\ stack_ # "closed"
        /\ list' = stack_ \/ (list' \notin Addr /\ stack_ \notin Addr)
        /\ list \notin Addr /\ target \notin Addr
    BY <1>2, LifoConstants, Zenon DEF TakeCas, writer, Control, TypeOK, ReaderControl, OwnsTag, Tag
  <2>2. d = <<>> /\ Nodes(d) = {}
    BY <2>1, PathEmpty, Zenon DEF Owned
  <2>3. /\ <<>> \in Seq(Addr) /\ Path(target, next, Addr, <<>>) /\ Injective(<<>>)
        /\ Nodes(<<>>) = {}
    BY <2>1, PathEmpty, Zenon
  <2>4. Path(list', next, Addr, s)
    <3>1. CASE list' = stack_
      BY <3>1, Zenon DEF Owned
    <3>2. CASE list' \notin Addr /\ stack_ \notin Addr
      <4>1. s = <<>>
        BY <3>2, PathEmpty, Zenon DEF Owned
      <4>2. Path(list', next, Addr, <<>>)
        BY <3>2, PathEmpty, Zenon
      <4> QED
        BY <4>1, <4>2, Zenon
    <3> QED
      BY <2>1, <3>1, <3>2, Zenon
  <2>5. Owned(<<>>, s)'
    BY <1>2, <2>1, <2>2, <2>3, <2>4 DEF Owned, Own
  <2>6. ListStep(s, <<>>)
    BY <1>2, <2>1, Zenon DEF ListStep, Takes
  <2> QED
    BY <2>3, <2>5, <2>6, Zenon
<1> QED
  BY <1>1, <1>2, Zenon DEF TakeCas

\* The reader disposes of an element.
LEMMA OwnedWalk ==
  ASSUME Control, NEW s \in Seq(Addr), NEW d \in Seq(Addr), Owned(s, d), Walk
  PROVE  \E e \in Seq(Addr) : Owned(s, e)' /\ ListStep(s, s)
<1>1. /\ list \in Addr /\ list' = next[list] /\ elem' = [elem EXCEPT ![list] = Free]
      /\ UNCHANGED <<stack_, next, new>>
  BY Zenon DEF Walk, Control, TypeOK, writer
<1>2. PICK e : e = Tail(d)
  BY Zenon
<1>3. /\ e \in Seq(Addr) /\ Path(list', next, Addr, e) /\ Injective(e)
      /\ Nodes(d) = Nodes(e) \cup {list} /\ list \notin Nodes(e)
  BY <1>1, <1>2, PathTail DEF Owned
<1>4. \A b \in Addr : elem'[b] = IF b = list THEN Free ELSE elem[b]
  BY <1>1, Zenon DEF Control, TypeOK
<1>5. {b \in Addr : elem'[b] # Free} = {b \in Addr : elem[b] # Free} \ {list}
  BY <1>4, Zenon
<1>6. list \notin Nodes(s) /\ list \notin Own /\ Nodes(s) \subseteq Addr
  BY <1>3, Zenon DEF Owned, Nodes
<1>7. Owned(s, e)'
  BY <1>1, <1>3, <1>5, <1>6 DEF Owned, Own
<1>8. ListStep(s, s)
  BY <1>1, <1>4, <1>6, Zenon DEF ListStep, Keeps
<1> QED
  BY <1>3, <1>7, <1>8, Zenon

\* The reader blocks and unblocks the empty inbox.
LEMMA OwnedAwait ==
  ASSUME Control, NEW s \in Seq(Addr), NEW d \in Seq(Addr), Owned(s, d),
         AwaitBlock \/ AwaitUnblock
  PROVE  Owned(s, d)' /\ ListStep(s, s)
<1>1. UNCHANGED <<next, elem, new, list>>
  BY Zenon DEF AwaitBlock, AwaitUnblock, writer
<1>2. CASE stack_' = stack_
  BY <1>1, <1>2, OwnedSame, Zenon
<1>3. CASE \/ stack_ = "empty" /\ stack_' = "blocked"
           \/ stack_ = "blocked" /\ stack_' = "empty"
  <2>1. stack_ \notin Addr /\ stack_' \notin Addr
    BY <1>3, LifoConstants, Zenon DEF Tag
  <2>2. s = <<>>
    BY <2>1, PathEmpty, Zenon DEF Owned
  <2>3. Path(stack_', next, Addr, <<>>)
    BY <2>1, PathEmpty, Zenon
  <2> QED
    BY <1>1, <1>3, <2>2, <2>3 DEF Owned, Own, ListStep, Turns
<1> QED
  BY <1>2, <1>3, Zenon DEF AwaitBlock, AwaitUnblock

\* Every step of the inbox, of its writers or of its reader.
LEMMA StepOwned ==
  ASSUME Control, NEW s \in Seq(Addr), NEW d \in Seq(Addr), Owned(s, d), [Next]_vars
  PROVE  Control' /\ \E t, e \in Seq(Addr) : Owned(t, e)' /\ ListStep(s, t)
<1>1. ASSUME NEW w \in Writers, WriterStep(w)
      PROVE  Control' /\ \E t, e \in Seq(Addr) : Owned(t, e)' /\ ListStep(s, t)
  <2>1. ASSUME NEW a \in Addr, NEW c \in Cats, Load(w, a, c)
        PROVE  Control' /\ Owned(s, d)' /\ ListStep(s, s)
    BY <2>1, ControlLoad, OwnedLoad, Zenon
  <2>2. CASE Cas(w)
    BY <2>2, ControlCas, OwnedCas, Zenon
  <2>3. CASE LockForNotify(w) \/ Notify(w)
    <3>1. UNCHANGED <<stack_, next, elem, new, list>>
      BY <2>3, Zenon DEF LockForNotify, Notify, shared, reader
    <3> QED
      BY <2>3, <3>1, ControlNotify, OwnedSame, Zenon
  <2> QED
    BY <1>1, <2>1, <2>2, <2>3, Zenon DEF WriterStep
<1>2. ASSUME ReaderStep
      PROVE  Control' /\ \E t, e \in Seq(Addr) : Owned(t, e)' /\ ListStep(s, t)
  <2>1. ASSUME NEW t \in {"empty", "closed"}, TakeLoad(t)
        PROVE  Control' /\ Owned(s, d)' /\ ListStep(s, s)
    <3>1. UNCHANGED <<stack_, next, elem, new, list>>
      BY <2>1, Zenon DEF TakeLoad, shared, writer
    <3> QED
      BY <2>1, <3>1, ControlTake, OwnedSame, Zenon
  <2>2. CASE TakeCas
    BY <2>2, ControlTake, OwnedTake, Zenon
  <2>3. CASE Walk
    BY <2>3, ControlWalk, OwnedWalk, Zenon
  <2>4. CASE WalkEnd
    <3>1. UNCHANGED <<stack_, next, elem, new, list>>
      BY <2>4, Zenon DEF WalkEnd, shared, writer
    <3> QED
      BY <2>4, <3>1, ControlWalk, OwnedSame, Zenon
  <2>5. CASE AwaitBlock \/ AwaitUnblock
    BY <2>5, ControlAwait, OwnedAwait, Zenon DEF AwaitStep
  <2>6. CASE AwaitLock \/ AwaitCheck \/ AwaitSleep \/ AwaitSpurious \/ AwaitRelock
    <3>1. UNCHANGED <<stack_, next, elem, new, list>>
      BY <2>6, Zenon DEF AwaitLock, AwaitCheck, AwaitSleep, AwaitSpurious, AwaitRelock, shared, writer
    <3> QED
      BY <2>6, <3>1, ControlAwait, OwnedSame, Zenon DEF AwaitStep
  <2> QED
    BY <1>2, <2>1, <2>2, <2>3, <2>4, <2>5, <2>6, Zenon DEF ReaderStep, AwaitStep
<1>3. CASE UNCHANGED vars
  <2>1. Control'
    BY <1>3, Zenon DEF vars, Control, TypeOK, WriterControl, ReaderControl
  <2> QED
    BY <1>3, <2>1, OwnedSame, Zenon DEF vars
<1> QED
  BY <1>1, <1>2, <1>3, Zenon DEF Next

\* An empty inbox.
LEMMA InitInv == Init => IInv
<1> SUFFICES ASSUME Init PROVE IInv
  BY Zenon
<1>1. "empty" \notin Addr
  BY LifoConstants, Zenon DEF Tag
<1>2. Control
  <2>1. TypeOK
    <3>1. 0 \in 0..MaxPush
      BY LifoConstants
    <3> QED
      BY <3>1, Zenon DEF Init, TypeOK, Location, Tag
  <2>2. WriterControl
    BY <1>1, Zenon DEF Init, WriterControl
  <2>3. ReaderControl
    BY Zenon DEF Init, ReaderControl
  <2> QED
    BY <2>1, <2>2, <2>3, Zenon DEF Control
<1>3. /\ <<>> \in Seq(Addr) /\ Path("empty", next, Addr, <<>>) /\ Injective(<<>>)
      /\ Nodes(<<>>) = {}
  BY <1>1, PathEmpty, Zenon
<1>4. Own = {} /\ {a \in Addr : elem[a] # Free} = {}
  BY Zenon DEF Init, Own
<1>5. Owned(<<>>, <<>>)
  BY <1>3, <1>4, Zenon DEF Init, Owned
<1> QED
  BY <1>2, <1>3, <1>5, Zenon DEF IInv

\* Every step preserves the invariant.
LEMMA StepInv == IInv /\ [Next]_vars => IInv'
BY StepOwned, Zenon DEF IInv

\* In every reachable state the list that starts at stack_ and the one that the
\* reader walks are free of cycles, and with the elements of the writers that
\* push they are what is allocated.
THEOREM Invariant == Spec => []IInv
BY InitInv, StepInv, PTL DEF Spec

\* Every element of lifo_inbox has exactly one owner, although push_front and
\* take_head compare addresses that may have been reused.
THEOREM ElementsHaveOneOwner == Spec => []OneOwner
<1>1. ASSUME IInv PROVE OneOwner
  <2>1. PICK s, d \in Seq(Addr) : Owned(s, d)
    BY <1>1, Zenon DEF IInv
  <2>2. Chain(stack_) = s /\ Chain(list) = d
    BY <2>1, FollowPath, LifoConstants, Zenon DEF Chain, Owned
  <2>3. DOMAIN s = 1..Len(s) /\ DOMAIN d = 1..Len(d)
    OBVIOUS
  <2>4. Reach(stack_) = Nodes(s) /\ Reach(list) = Nodes(d)
    BY <2>2, <2>3, Zenon DEF Reach, Nodes
  <2> QED
    BY <2>1, <2>4, Zenon DEF OneOwner, Owned, Own
<1> QED
  BY <1>1, Invariant, PTL

-----------------------------------------------------------------------------
(* The refinement. *)

\* The element x in front of those of its category.
Added(v, x) == [v EXCEPT ![x.cat] = <<x>> \o v[x.cat]]

\* The atomic inbox holds what the path from stack_ leads to ...
LEMMA StackIs ==
  ASSUME NEW s \in Seq(Addr), Path(stack_, next, Addr, s), Injective(s)
  PROVE  StackOf = Shown(elem, s)
<1>1. Chain(stack_) = s
  BY FollowPath, LifoConstants, Zenon DEF Chain
<1>2. {Shown(elem, t) : t \in {Chain(stack_)}} = {Shown(elem, s)}
  BY <1>1, Zenon
<1> QED
  BY <1>2, Zenon DEF StackOf

\* ... and so after a step.
LEMMA StackIsNext ==
  ASSUME NEW s \in Seq(Addr), Path(stack_', next', Addr, s), Injective(s)
  PROVE  StackOf' = Shown(elem', s)
<1>1. Chain(stack_)' = s
  BY FollowPath, LifoConstants, Zenon DEF Chain
<1>2. {Shown(elem', t) : t \in {Chain(stack_)'}} = {Shown(elem', s)}
  BY <1>1, Zenon
<1>3. StackOf' = CHOOSE v \in {Shown(elem', t) : t \in {Chain(stack_)'}} : TRUE
  BY Zenon DEF StackOf, Shown, Values
<1> QED
  BY <1>2, <1>3, Zenon

\* Nothing is shown of an empty list.
LEMMA ShownEmpty ==
  ASSUME NEW el
  PROVE  Shown(el, <<>>) = [k \in {"urgent", "normal"} |-> <<>>]
<1>1. Values(el, <<>>) = <<>>
  BY DEF Values
<1> QED
  BY <1>1, SublistEmpty, Zenon DEF Shown

\* A new element is shown in front of those of its category.
LEMMA ShownCons ==
  ASSUME NEW el, NEW s \in Seq(Addr), NEW a \in Addr, NEW x \in Elem, x = el[a],
         \A b \in Nodes(s) : el[b] \in Elem
  PROVE  Shown(el, <<a>> \o s) = Added(Shown(el, s), x)
<1>1. PICK q : q = Values(el, s)
  BY Zenon
<1>2. q \in Seq(Elem)
  <2>1. Len(s) \in Nat /\ \A i \in 1..Len(s) : el[s[i]] \in Elem
    BY LenProperties, Zenon DEF Nodes
  <2> QED
    BY <1>1, <2>1 DEF Values
<1>3. Values(el, <<a>> \o s) = <<x>> \o q
  <2>1. PICK t : t = <<a>> \o s
    BY Zenon
  <2>2. /\ Len(s) \in Nat /\ Len(t) = Len(s) + 1 /\ t[1] = a
        /\ \A i \in 2..Len(t) : t[i] = s[i - 1]
    BY <2>1, LenProperties
  <2>3. /\ Len(q) = Len(s) /\ DOMAIN (<<x>> \o q) = 1..(Len(q) + 1) /\ (<<x>> \o q)[1] = x
        /\ \A i \in 2..(Len(q) + 1) : (<<x>> \o q)[i] = q[i - 1]
    BY <1>1, <1>2, <2>2 DEF Values
  <2>4. \A i \in 1..Len(t) : el[t[i]] = (<<x>> \o q)[i]
    <3> SUFFICES ASSUME NEW i \in 1..Len(t) PROVE el[t[i]] = (<<x>> \o q)[i]
      BY Zenon
    <3>1. CASE i = 1
      BY <2>2, <2>3, <3>1, Zenon
    <3>2. CASE i # 1
      <4>1. i \in 2..Len(t) /\ i - 1 \in 1..Len(s)
        BY <2>2, <3>2
      <4>2. q[i - 1] = el[s[i - 1]]
        BY <1>1, <4>1, Zenon DEF Values
      <4> QED
        BY <2>2, <2>3, <4>1, <4>2, Zenon
    <3> QED
      BY <3>1, <3>2, Zenon
  <2>5. <<x>> \o q = [i \in 1..Len(t) |-> (<<x>> \o q)[i]]
    BY <1>2, <2>2, <2>3
  <2>6. Values(el, t) = [i \in 1..Len(t) |-> (<<x>> \o q)[i]]
    BY <2>4, Zenon DEF Values
  <2> QED
    BY <2>1, <2>5, <2>6, Zenon
<1>4. x.cat \in {"urgent", "normal"}
  BY LifoConstants, Zenon DEF Elem
<1>5. ASSUME NEW k \in {"urgent", "normal"}
      PROVE  Shown(el, <<a>> \o s)[k]
               = IF k = x.cat THEN <<x>> \o Shown(el, s)[k] ELSE Shown(el, s)[k]
  <2>1. PICK T : T = {y \in Elem : y.cat = k}
    BY Zenon
  <2>2. x \in T <=> k = x.cat
    BY <2>1, Zenon
  <2>3. Sublist(<<x>> \o q, T) = IF x \in T THEN <<x>> \o Sublist(q, T) ELSE Sublist(q, T)
    <3>1. \A S : \A v \in Seq(S), y \in S : \A U :
            Sublist(<<y>> \o v, U) = IF y \in U THEN <<y>> \o Sublist(v, U) ELSE Sublist(v, U)
      BY SublistCons, Zenon
    <3> QED
      BY <1>2, <3>1
  <2>4. Shown(el, <<a>> \o s)[k] = Sublist(<<x>> \o q, T) /\ Shown(el, s)[k] = Sublist(q, T)
    BY <1>1, <1>3, <2>1, Zenon DEF Shown
  <2> QED
    BY <2>2, <2>3, <2>4, Zenon
<1>6. Shown(el, <<a>> \o s) = [k \in {"urgent", "normal"} |-> Shown(el, <<a>> \o s)[k]]
      /\ Shown(el, s) = [k \in {"urgent", "normal"} |-> Shown(el, s)[k]]
  BY Zenon DEF Shown
<1> QED
  BY <1>4, <1>5, <1>6, Zenon DEF Added

\* A step of the linked list is a step of the atomic inbox, or none.
LEMMA StepImplements ==
  ASSUME Control, NEW s \in Seq(Addr), NEW d \in Seq(Addr), Owned(s, d),
         NEW t \in Seq(Addr), NEW e \in Seq(Addr), Owned(t, e)', ListStep(s, t)
  PROVE  Atomic!InboxNext(Elem) \/ UNCHANGED Atomic!inboxVars
<1>1. StackOf = Shown(elem, s) /\ StackOf' = Shown(elem', t)
  <2>1. Path(stack_, next, Addr, s) /\ Injective(s)
    BY Zenon DEF Owned
  <2>2. Path(stack_', next', Addr, t) /\ Injective(t)
    BY Zenon DEF Owned
  <2> QED
    BY <2>1, <2>2, StackIs, StackIsNext, Zenon
<1>2. "list" \notin Tag /\ Tag \cap Addr = {}
  BY LifoConstants, Zenon DEF Tag
<1>3. CASE Keeps(s, t)
  <2>1. Values(elem', s) = Values(elem, s)
    BY <1>3, Zenon DEF Keeps, Values, Nodes
  <2>2. StackOf' = StackOf
    BY <1>1, <1>3, <2>1, Zenon DEF Keeps, Shown
  <2>3. TagOf' = TagOf
    BY <1>3, Zenon DEF Keeps, TagOf
  <2> QED
    BY <2>2, <2>3, Zenon DEF Atomic!inboxVars
<1>4. CASE Pushes(s, t)
  <2>1. PICK a, x : a = stack_' /\ x = elem[a]
    BY Zenon
  <2>2. /\ a \in Addr /\ x \in Elem /\ t = <<a>> \o s /\ elem' = elem /\ stack_ # "closed"
    BY <1>4, <2>1, Zenon DEF Pushes
  <2>3. \A b \in Nodes(s) : elem[b] \in Elem
    <3>1. \A b \in Nodes(s) : b \in Addr /\ elem[b] # Free
      BY Zenon DEF Owned
    <3> QED
      BY <3>1, Zenon DEF Control, TypeOK
  <2>4. Shown(elem, t) = Added(Shown(elem, s), x)
    <3>1. Shown(elem, <<a>> \o s)
            = Added(Shown(elem, s), x)
      BY <2>1, <2>2, <2>3, ShownCons, Zenon
    <3> QED
      BY <2>2, <3>1, Zenon
  <2>5. StackOf' = [StackOf EXCEPT ![x.cat] = <<x>> \o StackOf[x.cat]]
    BY <1>1, <2>2, <2>4, Zenon DEF Added
  <2>6. TagOf # "closed" /\ TagOf' = "list"
    BY <2>1, <2>2, Zenon DEF TagOf
  <2>7. Atomic!PushFront(x)
    BY <2>5, <2>6, Zenon DEF Atomic!PushFront
  <2> QED
    BY <2>2, <2>7, Zenon DEF Atomic!InboxNext
<1>5. CASE Takes(s, t)
  <2>1. StackOf' = Atomic!NoMsgs
    BY <1>1, <1>5, ShownEmpty, Zenon DEF Takes, Atomic!NoMsgs, Atomic!Category
  <2>2. CASE stack_' = "closed"
    <3>1. TagOf # "closed" /\ TagOf' = "closed"
      BY <1>2, <1>5, <2>2, Zenon DEF Takes, TagOf, Tag
    <3> QED
      BY <2>1, <3>1, Zenon DEF Atomic!InboxNext, Atomic!CloseInbox
  <2>3. CASE stack_' = "empty" /\ stack_ # "blocked"
    <3>1. TagOf \in {"empty", "list"} /\ TagOf' = "empty"
      BY <1>2, <1>5, <2>3, Zenon DEF Takes, TagOf, Tag, Control, TypeOK
    <3> QED
      BY <2>1, <3>1, Zenon DEF Atomic!InboxNext, Atomic!TakeHead
  <2> QED
    BY <1>5, <2>2, <2>3, Zenon DEF Takes
<1>6. CASE Turns(s, t)
  <2>1. StackOf' = StackOf
    BY <1>1, <1>6, ShownEmpty, Zenon DEF Turns
  <2>2. \/ TagOf = "empty" /\ TagOf' = "blocked"
        \/ TagOf = "blocked" /\ TagOf' = "empty"
    BY <1>2, <1>6, Zenon DEF Turns, TagOf, Tag
  <2> QED
    BY <2>1, <2>2, Zenon DEF Atomic!InboxNext, Atomic!TryBlock, Atomic!TryUnblock
<1> QED
  BY <1>3, <1>4, <1>5, <1>6, Zenon DEF ListStep

\* lifo_inbox implements the atomic inbox that ScheduledActor builds on: each
\* operation takes effect in its successful compare-and-swap, and no other step
\* can be seen.
THEOREM Refinement == Spec => ImplementsInbox
<1>1. Init => Atomic!InboxInit
  <2> SUFFICES ASSUME Init PROVE Atomic!InboxInit
    BY Zenon
  <2>1. "empty" \notin Addr
    BY LifoConstants, Zenon DEF Tag
  <2>2. <<>> \in Seq(Addr) /\ Path(stack_, next, Addr, <<>>) /\ Injective(<<>>)
    BY <2>1, PathEmpty, Zenon DEF Init
  <2>3. StackOf = [k \in {"urgent", "normal"} |-> <<>>]
    BY <2>2, StackIs, ShownEmpty, Zenon
  <2> QED
    BY <2>1, <2>3, Zenon DEF Init, TagOf, Atomic!InboxInit, Atomic!NoMsgs, Atomic!Category
<1>2. IInv /\ [Next]_vars => [Atomic!InboxNext(Elem)]_(Atomic!inboxVars)
  <2> SUFFICES ASSUME IInv, [Next]_vars
               PROVE  Atomic!InboxNext(Elem) \/ UNCHANGED Atomic!inboxVars
    BY Zenon
  <2>1. PICK s, d \in Seq(Addr) : Owned(s, d)
    BY Zenon DEF IInv
  <2>2. PICK t, e \in Seq(Addr) : Owned(t, e)' /\ ListStep(s, t)
    BY <2>1, StepOwned, Zenon DEF IInv
  <2> QED
    BY <2>1, <2>2, StepImplements, Zenon DEF IInv
<1> QED
  BY <1>1, <1>2, Invariant, PTL DEF Spec, ImplementsInbox

-----------------------------------------------------------------------------
(* The running count: its inductive invariant. *)

Stage == {"new", "acquire", "count", "running", "cleanup", "release", "uncount",
             "notify_done", "notify_release", "done"}

CountTypeOK == /\ running \in Int
          /\ registered \in [Actors -> BOOLEAN]
          /\ pc \in [Actors -> Stage]
          /\ threads \subseteq Actors
          /\ apc \in [Awaiters -> {"idle", "test", "wait", "returned"}]

\* The visible actors between the increment and the decrement of the count.
Counted == {a \in Actors \ Hidden :
              pc[a] \in {"acquire", "running", "cleanup", "release", "uncount"}}

\* Only blocking actors count themselves and release a thread late, and only
\* the others carry the flag, exactly while they are counted.
KindsKept ==
  \A a \in Actors :
    /\ pc[a] \in {"count", "release", "uncount"} => a \in Blocking
    /\ pc[a] = "acquire" => a \in Detached \ Blocking
    /\ pc[a] # "notify_release"
    /\ registered[a] <=> a \in Counted \ Blocking

\* A private thread is given back before its actor stops being counted.
ThreadsHeld ==
  \A a \in threads : /\ a \in OwnThread
                     /\ pc[a] \in {"count", "running", "cleanup", "release"}
                     /\ pc[a] = "cleanup" => a \in Blocking

\* The count is exact at every step, although it changes outside of the mutex.
CountIsExact == running = Cardinality(Counted)

CountInv == CountTypeOK /\ KindsKept /\ ThreadsHeld /\ CountIsExact

-----------------------------------------------------------------------------
\* The counted actors are finitely many.
LEMMA CountedFinite ==
  /\ IsFiniteSet(Counted)
  /\ IsFiniteSet(Counted')
  /\ Cardinality(Counted) \in Nat
<1>1. Counted \in SUBSET Actors /\ Counted' \in SUBSET Actors
  BY Zenon DEF Counted
<1>2. IsFiniteSet(Actors)
  BY RunningConstants, Zenon
<1> QED
  BY <1>1, <1>2, FS_Subset, FS_CardinalityType, Zenon

\* A step that counts one actor.
LEMMA CountUp ==
  ASSUME CountIsExact, NEW a \in Actors \ Hidden, a \notin Counted,
         Counted' = Counted \cup {a}, running' = running + 1
  PROVE  CountIsExact'
BY CountedFinite, FS_AddElement, Zenon DEF CountIsExact

\* A step that stops counting one actor.
LEMMA CountDown ==
  ASSUME CountIsExact, NEW a \in Counted,
         Counted' = Counted \ {a}, running' = running - 1
  PROVE  CountIsExact'
BY CountedFinite, FS_RemoveElement, Zenon DEF CountIsExact

\* Nobody is launched yet.
LEMMA CountInitInv == CountInit => CountInv
<1> SUFFICES ASSUME CountInit PROVE CountInv
  BY Zenon
<1>1. Counted = {}
  BY Zenon DEF CountInit, Counted
<1>2. CountIsExact
  BY <1>1, FS_EmptySet, Zenon DEF CountIsExact, CountInit
<1>3. CountTypeOK
  BY DEF CountInit, CountTypeOK, Stage
<1>4. KindsKept /\ ThreadsHeld
  BY <1>1, Zenon DEF CountInit, KindsKept, ThreadsHeld
<1> QED
  BY <1>2, <1>3, <1>4, Zenon DEF CountInv

\* Every step of an actor or of a waiting thread preserves the invariant.
LEMMA CountStepInv == CountInv /\ [CountNext]_countVars => CountInv'
<1> SUFFICES ASSUME CountInv, [CountNext]_countVars PROVE CountInv'
  BY Zenon
<1> USE DEF CountInv
<1>1. ASSUME NEW a \in Actors, RegisterAtSystem(a) PROVE CountInv'
  <2>1. CountTypeOK' /\ ThreadsHeld'
    BY <1>1 DEF RegisterAtSystem, Goto, CountTypeOK, ThreadsHeld, Stage
  <2>2. CASE a \in Hidden
    <3>1. registered' = [registered EXCEPT ![a] = FALSE]
      BY <1>1, <2>2, Zenon DEF RegisterAtSystem
    <3>2. Counted' = Counted
      BY <1>1, <2>2, Zenon DEF RegisterAtSystem, Goto, CountTypeOK, Counted
    <3>3. KindsKept'
      BY <1>1, <2>2, <3>1, <3>2, Zenon DEF RegisterAtSystem, Goto, CountTypeOK, KindsKept, Counted
    <3> QED
      BY <1>1, <2>1, <2>2, <3>2, <3>3, Zenon DEF RegisterAtSystem, CountIsExact
  <2>3. CASE a \notin Hidden
    <3>1. registered' = [registered EXCEPT ![a] = TRUE]
      BY <1>1, <2>3, Zenon DEF RegisterAtSystem
    <3>2. a \notin Counted /\ Counted' = Counted \cup {a} /\ running' = running + 1
      BY <1>1, <2>3, Zenon DEF RegisterAtSystem, Goto, CountTypeOK, Counted
    <3>3. KindsKept'
      BY <1>1, <2>3, <3>1, <3>2, Zenon DEF RegisterAtSystem, Goto, CountTypeOK, KindsKept
    <3> QED
      BY <2>1, <2>3, <3>2, <3>3, CountUp, Zenon
  <2> QED
    BY <2>2, <2>3, Zenon
<1>2. ASSUME NEW a \in Actors, AcquirePrivateThread(a) PROVE CountInv'
  <2>1. CountTypeOK' /\ KindsKept' /\ ThreadsHeld'
    BY <1>2 DEF AcquirePrivateThread, Goto, CountTypeOK, KindsKept, ThreadsHeld, OwnThread, Counted, Stage
  <2>2. Counted' = Counted
    BY <1>2, Zenon DEF AcquirePrivateThread, Goto, CountTypeOK, Counted
  <2> QED
    BY <1>2, <2>1, <2>2, Zenon DEF AcquirePrivateThread, CountIsExact
<1>3. ASSUME NEW a \in Actors, IncRunning(a) PROVE CountInv'
  <2>1. CountTypeOK' /\ KindsKept' /\ ThreadsHeld'
    BY <1>3 DEF IncRunning, Goto, CountTypeOK, KindsKept, ThreadsHeld, OwnThread, Counted, Stage
  <2>2. CASE a \in Hidden
    <3>1. Counted' = Counted
      BY <1>3, <2>2, Zenon DEF IncRunning, Goto, CountTypeOK, Counted
    <3> QED
      BY <1>3, <2>1, <2>2, <3>1, Zenon DEF IncRunning, CountIsExact
  <2>3. CASE a \notin Hidden
    <3>1. a \notin Counted /\ Counted' = Counted \cup {a} /\ running' = running + 1
      BY <1>3, <2>3, Zenon DEF IncRunning, Goto, CountTypeOK, Counted
    <3> QED
      BY <2>1, <2>3, <3>1, CountUp, Zenon
  <2> QED
    BY <2>2, <2>3, Zenon
<1>4. ASSUME NEW a \in Actors, Exit(a) PROVE CountInv'
  <2>1. CountTypeOK' /\ KindsKept' /\ ThreadsHeld'
    BY <1>4, Zenon DEF Exit, Goto, CountTypeOK, KindsKept, ThreadsHeld, OwnThread, Counted, Stage
  <2>2. Counted' = Counted
    BY <1>4, Zenon DEF Exit, Goto, CountTypeOK, Counted
  <2> QED
    BY <1>4, <2>1, <2>2, Zenon DEF Exit, CountIsExact
<1>5. ASSUME NEW a \in Actors, UnregisterFromSystem(a) PROVE CountInv'
  <2>1. CASE registered[a]
    <3>1. /\ a \in Counted /\ a \notin Blocking
          /\ pc' = [pc EXCEPT ![a] = IF running - 1 > 1 THEN "done" ELSE "notify_done"]
          /\ running' = running - 1
          /\ registered' = [registered EXCEPT ![a] = FALSE]
          /\ UNCHANGED <<threads, apc>>
      BY <1>5, <2>1 DEF UnregisterFromSystem, DecRunning, After, Goto, CountTypeOK, KindsKept
    <3>2. Counted' = Counted \ {a}
      BY <3>1, Zenon DEF CountTypeOK, Counted
    <3>3. CountTypeOK'
      BY <3>1 DEF CountTypeOK, Stage
    <3>4. ThreadsHeld'
      <4>1. a \notin threads
        BY <1>5, <3>1, Zenon DEF UnregisterFromSystem, ThreadsHeld
      <4> QED
        BY <3>1, <4>1, Zenon DEF CountTypeOK, ThreadsHeld
    <3>5. KindsKept'
      BY <3>1, <3>2, Zenon DEF CountTypeOK, KindsKept
    <3> QED
      BY <3>1, <3>2, <3>3, <3>4, <3>5, CountDown, Zenon
  <2>2. CASE ~registered[a]
    <3>1. CountTypeOK' /\ KindsKept' /\ ThreadsHeld'
      BY <1>5, <2>2
         DEF UnregisterFromSystem, After, Goto, CountTypeOK, KindsKept, ThreadsHeld, OwnThread, Counted, Stage
    <3>2. Counted' = Counted /\ running' = running
      BY <1>5, <2>2, Zenon DEF UnregisterFromSystem, After, Goto, CountTypeOK, Counted, KindsKept
    <3> QED
      BY <3>1, <3>2, Zenon DEF CountIsExact
  <2> QED
    BY <2>1, <2>2, Zenon
<1>6. ASSUME NEW a \in Actors, ReleasePrivateThread(a) PROVE CountInv'
  <2>1. CountTypeOK' /\ KindsKept' /\ ThreadsHeld'
    BY <1>6, Zenon
       DEF ReleasePrivateThread, Goto, CountTypeOK, KindsKept, ThreadsHeld, OwnThread, Counted, Stage
  <2>2. Counted' = Counted
    BY <1>6, Zenon DEF ReleasePrivateThread, Goto, CountTypeOK, Counted
  <2> QED
    BY <1>6, <2>1, <2>2, Zenon DEF ReleasePrivateThread, CountIsExact
<1>7. ASSUME NEW a \in Actors, Uncount(a) PROVE CountInv'
  <2>1. CASE a \in Hidden
    <3>1. CountTypeOK' /\ KindsKept' /\ ThreadsHeld'
      BY <1>7, <2>1, Zenon DEF Uncount, Goto, CountTypeOK, KindsKept, ThreadsHeld, OwnThread, Counted, Stage
    <3>2. Counted' = Counted /\ running' = running
      BY <1>7, <2>1, Zenon DEF Uncount, Goto, CountTypeOK, Counted
    <3> QED
      BY <3>1, <3>2, Zenon DEF CountIsExact
  <2>2. CASE a \notin Hidden
    <3>1. /\ a \in Counted
          /\ pc' = [pc EXCEPT ![a] = IF running - 1 > 1 THEN "done" ELSE "notify_done"]
          /\ running' = running - 1
      BY <1>7, <2>2 DEF Uncount, DecRunning, Goto, CountTypeOK, Counted
    <3>2. CountTypeOK' /\ KindsKept' /\ ThreadsHeld'
      BY <1>7, <2>2, <3>1 DEF Uncount, CountTypeOK, KindsKept, ThreadsHeld, OwnThread, Counted, Stage
    <3>3. Counted' = Counted \ {a}
      BY <3>1, Zenon DEF CountTypeOK, Counted
    <3> QED
      BY <3>1, <3>2, <3>3, CountDown, Zenon
  <2> QED
    BY <2>1, <2>2, Zenon
<1>8. ASSUME NEW a \in Actors, NotifyAll(a) PROVE CountInv'
  <2>1. CountTypeOK' /\ KindsKept' /\ ThreadsHeld'
    BY <1>8, Zenon DEF NotifyAll, Goto, CountTypeOK, KindsKept, ThreadsHeld, OwnThread, Counted, Stage
  <2>2. Counted' = Counted
    BY <1>8, Zenon DEF NotifyAll, Goto, CountTypeOK, Counted, KindsKept
  <2> QED
    BY <1>8, <2>1, <2>2, Zenon DEF NotifyAll, CountIsExact
<1>9. ASSUME NEW t \in Awaiters, AwaitCall(t) \/ AwaitTest(t) PROVE CountInv'
  <2>1. CountTypeOK' /\ UNCHANGED <<running, registered, pc, threads>>
    BY <1>9, Zenon DEF AwaitCall, AwaitTest, CountTypeOK
  <2> QED
    BY <2>1, Zenon DEF KindsKept, ThreadsHeld, CountIsExact, Counted
<1>10. CASE UNCHANGED countVars
  BY <1>10, Zenon DEF countVars, CountTypeOK, KindsKept, ThreadsHeld, CountIsExact, Counted
<1> QED
  BY <1>1, <1>2, <1>3, <1>4, <1>5, <1>6, <1>7, <1>8, <1>9, <1>10, Zenon DEF CountNext

\* The count of running actors is exact in every reachable state: no
\* interleaving of launches, exits and thread releases makes actor_registry
\* miscount.
THEOREM CountInvariant == CountSpec => []CountInv
BY CountInitInv, CountStepInv, PTL DEF CountSpec

\* Whoever is not counted has given its private thread back.
LEMMA OnlyCounted ==
  ASSUME CountInv, NEW a \in Actors \ Hidden, a \notin Counted
  PROVE  /\ pc[a] \in {"new", "count", "notify_done", "done"}
         /\ a \in threads => pc[a] = "count"
BY Zenon DEF CountInv, CountTypeOK, KindsKept, ThreadsHeld, OwnThread, Counted, Stage

\* await_running_count_equal returns only when every other visible actor is done
\* or not launched, with its private thread released: the step that leaves the
\* loop reads an exact count.
THEOREM WaitingIsSafe == CountSpec => AwaitMeansDone
<1> DEFINE AwaitOnlyDone ==
      \A t \in Awaiters : apc[t] = "test" /\ apc'[t] = "returned" =>
        \A a \in Actors \ (Hidden \cup {t}) :
          /\ pc[a] \in {"new", "count", "notify_done", "done"}
          /\ a \in threads => pc[a] = "count"
<1>1. ASSUME CountInv, [CountNext]_countVars PROVE [AwaitOnlyDone]_countVars
  <2> SUFFICES ASSUME CountNext, NEW t \in Awaiters, apc[t] = "test", apc'[t] = "returned",
                      NEW a \in Actors \ (Hidden \cup {t})
               PROVE  /\ pc[a] \in {"new", "count", "notify_done", "done"}
                      /\ a \in threads => pc[a] = "count"
    BY <1>1, Zenon
  <2>1. running = Expected(t)
    BY <1>1, Zenon DEF CountNext, RegisterAtSystem, AcquirePrivateThread, IncRunning, Exit,
                UnregisterFromSystem, ReleasePrivateThread, Uncount, NotifyAll,
                AwaitCall, AwaitTest, CountInv, CountTypeOK
  <2>2. a \notin Counted
    <3>1. CASE t # Main /\ registered[t]
      <4>1. t \in Actors
        BY <3>1, RunningConstants, Zenon DEF Awaiters, Actors
      <4>2. t \in Counted /\ Cardinality(Counted) = 1
        BY <1>1, <2>1, <3>1, <4>1, Zenon DEF CountInv, KindsKept, CountIsExact, Expected
      <4>3. \E x : Counted = {x}
        BY <4>2, CountedFinite, FS_Singleton, Zenon
      <4> QED
        BY <4>2, <4>3, Zenon
    <3>2. CASE ~(t # Main /\ registered[t])
      <4>1. Cardinality(Counted) = 0
        BY <1>1, <2>1, <3>2, Zenon DEF CountInv, CountIsExact, Expected
      <4> QED
        BY <4>1, CountedFinite, FS_EmptySet, Zenon
    <3> QED
      BY <3>1, <3>2, Zenon
  <2> QED
    BY <1>1, <2>2, OnlyCounted, Zenon
<1>2. CountSpec => [][AwaitOnlyDone]_countVars
  BY <1>1, CountInvariant, PTL DEF CountSpec
<1> QED
  BY <1>2, Zenon DEF AwaitMeansDone
=============================================================================
