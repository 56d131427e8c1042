---------------------------- MODULE LinksProofs -----------------------------
(***************************************************************************)
(* Links have two ends and monitors fire once, for any number of actors    *)
(* and of calls.                                                           *)
(***************************************************************************)
EXTENDS Links, ListLemmas

-----------------------------------------------------------------------------
(* The lists of attachables. *)

\* How often an attachable is in a list.
LEMMA CountType ==
  \A l \in Seq(Attachable) : \A x : Count(l, x) \in Nat
BY OccType, Zenon DEF Count

\* Nothing is in the empty list.
LEMMA CountEmpty == \A x : Count(<<>>, x) = 0
BY OccEmpty, Zenon DEF Count

\* attach_impl adds one occurrence.
LEMMA CountAttach ==
  ASSUME NEW l \in Seq(Attachable), NEW x \in Attachable, NEW y
  PROVE  /\ AttachImpl(l, x) \in Seq(Attachable)
         /\ Count(AttachImpl(l, x), y) = Count(l, y) + (IF x = y THEN 1 ELSE 0)
<1>1. <<x>> \o l \in Seq(Attachable)
  OBVIOUS
<1>2. Occurrences(<<x>> \o l, {y}) = Occurrences(l, {y}) + (IF x \in {y} THEN 1 ELSE 0)
  BY OccCons, Zenon
<1>3. x \in {y} <=> x = y
  BY Zenon
<1> QED
  BY <1>1, <1>2, <1>3, Zenon DEF AttachImpl, Count

\* detach_impl with stop_on_hit takes one occurrence away, if there is one.
LEMMA CountDetachFirst ==
  ASSUME NEW l \in Seq(Attachable), NEW x, NEW y
  PROVE  /\ DetachFirst(l, x) \in Seq(Attachable)
         /\ Count(DetachFirst(l, x), y) =
              IF x = y /\ Count(l, x) > 0 THEN Count(l, x) - 1 ELSE Count(l, y)
<1>1. WithoutFirst(l, x) \in Seq(Attachable)
  BY OccWithoutFirst, Zenon
<1>2. PICK T : T = {y}
  BY Zenon
<1>3. /\ Occurrences(l, {x}) # 0 /\ x \in T
            => Occurrences(l, T) = Occurrences(WithoutFirst(l, x), T) + 1
      /\ ~(Occurrences(l, {x}) # 0 /\ x \in T)
            => Occurrences(l, T) = Occurrences(WithoutFirst(l, x), T)
  BY OccWithoutFirst
<1>4. Count(l, y) \in Nat /\ Count(l, x) \in Nat /\ Count(WithoutFirst(l, x), y) \in Nat
  BY <1>1, CountType, Zenon
<1>5. /\ Count(l, x) # 0 /\ x = y => Count(l, y) = Count(WithoutFirst(l, x), y) + 1
      /\ ~(Count(l, x) # 0 /\ x = y) => Count(l, y) = Count(WithoutFirst(l, x), y)
  BY <1>2, <1>3, Zenon DEF Count
<1>6. Count(WithoutFirst(l, x), y) =
        IF x = y /\ Count(l, x) > 0 THEN Count(l, x) - 1 ELSE Count(l, y)
  BY <1>4, <1>5
<1> QED
  BY <1>1, <1>6, Zenon DEF DetachFirst

\* detach_impl without stop_on_hit takes every occurrence away.
LEMMA CountDetachAll ==
  ASSUME NEW l \in Seq(Attachable), NEW x, NEW y \in Attachable
  PROVE  /\ DetachAll(l, x) \in Seq(Attachable)
         /\ Count(DetachAll(l, x), y) = IF x = y THEN 0 ELSE Count(l, y)
         /\ Len(l) - Len(DetachAll(l, x)) = Count(l, x)
<1>0. PICK T : T = Attachable \ {x}
  BY Zenon
<1>1. Sublist(l, T) \in Seq(Attachable)
  BY SublistType, Zenon
<1>2. Len(Sublist(l, T)) = Occurrences(l, T)
  BY SublistLen, Zenon
<1>3. Occurrences(l, {x}) + Occurrences(l, T) = Len(l)
  <2>1. \A e \in Attachable : e \in T <=> e \notin {x}
    BY <1>0, Zenon
  <2> QED
    BY <2>1, OccPartition
<1>4. Len(l) \in Nat /\ Occurrences(l, T) \in Nat /\ Occurrences(l, {x}) \in Nat
  BY LenProperties, OccType, Zenon
<1>5. Len(l) - Len(Sublist(l, T)) = Count(l, x)
  BY <1>2, <1>3, <1>4 DEF Count
<1>6. Count(Sublist(l, T), y) = IF x = y THEN 0 ELSE Count(l, y)
  <2>1. CASE x = y
    <3>1. Meet(Attachable, T, {y}, {})
      BY <1>0, <2>1, Zenon DEF Meet
    <3>2. Occurrences(Sublist(l, T), {y}) = Occurrences(l, {})
      BY <3>1, SublistOcc
    <3>3. Occurrences(l, {}) = 0
      BY OccZero, Zenon
    <3> QED
      BY <2>1, <3>2, <3>3, Zenon DEF Count
  <2>2. CASE x # y
    <3>1. Meet(Attachable, T, {y}, {y})
      BY <1>0, <2>2, Zenon DEF Meet
    <3>2. Occurrences(Sublist(l, T), {y}) = Occurrences(l, {y})
      BY <3>1, SublistOcc
    <3> QED
      BY <2>2, <3>2, Zenon DEF Count
  <2> QED
    BY <2>1, <2>2, Zenon
<1> QED
  BY <1>0, <1>1, <1>5, <1>6, Zenon DEF DetachAll

\* The loop of cleanup takes one occurrence of the attachable it looks at.
LEMMA CountTail ==
  ASSUME NEW l \in Seq(Attachable), l # <<>>, NEW y
  PROVE  /\ Tail(l) \in Seq(Attachable) /\ Head(l) \in Attachable
         /\ Count(l, y) = Count(Tail(l), y) + (IF Head(l) = y THEN 1 ELSE 0)
<1>1. Tail(l) \in Seq(Attachable) /\ Head(l) \in Attachable
  OBVIOUS
<1>2. Occurrences(l, {y}) = Occurrences(Tail(l), {y}) + (IF Head(l) \in {y} THEN 1 ELSE 0)
  BY OccTail, Zenon
<1>3. Head(l) \in {y} <=> Head(l) = y
  BY Zenon
<1> QED
  BY <1>1, <1>2, <1>3, Zenon DEF Count

\* Attachables that differ in the observer or the type are different.
LEMMA Different ==
  \A a, b \in Actors : /\ Link(a) \in Attachable /\ Monitor(a) \in Attachable
                       /\ Link(a) = Link(b) <=> a = b
                       /\ Monitor(a) = Monitor(b) <=> a = b
                       /\ Link(a) # Monitor(b)
BY Zenon DEF Link, Monitor, Attachable

-----------------------------------------------------------------------------
(* The inductive invariant. *)

TypeOK ==
  /\ phase \in [Actors -> {"alive", "closed", "notify", "dead"}]
  /\ reason \in [Actors -> Reason]
  /\ attached \in [Actors -> Seq(Attachable)]
  /\ todo \in [Actors -> Seq(Attachable)]
  /\ late \in [Actors -> Seq(SysMsg)]
  /\ mailbox \in [Actors -> Seq(SysMsg)]
  /\ monitors \in [Actors -> [Actors -> Int]]
  /\ downs \in [Actors -> [Actors -> Int]]

\* Only the loop of cleanup has attachables to go through, and attach has one
\* down message to send before its caller does anything else.
CleanupOnly == \A a \in Actors : phase[a] # "notify" => todo[a] = <<>>
OneLate == \A a \in Actors :
             late[a] # <<>> => /\ late[a] = <<Head(late[a])>>
                               /\ \E b \in Actors : Head(late[a]) \in DownsOf(b)

IInv == TypeOK /\ CleanupOnly /\ OneLate /\ LinksHaveTwoEnds /\ OneDownPerMonitor

\* Down messages are system messages, and tell their source.
LEMMA DownsOfSource ==
  \A b \in Actors : \A r \in Reason :
    LET m == [type |-> "down", source |-> b, reason |-> r] IN
    m \in SysMsg /\ \A c \in Actors : m \in DownsOf(c) <=> b = c
BY Zenon DEF SysMsg, DownsOf

\* The invariant about monitors speaks of four numbers.
LEMMA Numbers ==
  ASSUME TypeOK, NEW a \in Actors, NEW b \in Actors
  PROVE  /\ Count(attached[b], Monitor(a)) \in Nat
         /\ Count(todo[b], Monitor(a)) \in Nat
         /\ Occurrences(late[a], DownsOf(b)) \in Nat
         /\ downs[a][b] \in Int /\ monitors[a][b] \in Int
         /\ Count(attached[a], Link(b)) \in Nat
<1>1. Occurrences(late[a], DownsOf(b)) \in Nat
  BY OccType, Zenon DEF TypeOK
<1>2. downs[a][b] \in Int /\ monitors[a][b] \in Int
  BY Zenon DEF TypeOK
<1> QED
  BY <1>1, <1>2, CountType, Zenon DEF TypeOK

\* A step that leaves the lists alone preserves the invariant.
LEMMA OtherStep ==
  ASSUME IInv, TypeOK', UNCHANGED <<attached, todo, late, monitors, downs>>,
         \A a \in Actors : /\ phase[a] = "notify" <=> phase'[a] = "notify"
                           /\ Terminated(a) <=> Terminated(a)'
  PROVE  IInv'
<1>1. CleanupOnly' /\ OneLate'
  BY Zenon DEF IInv, CleanupOnly, OneLate, TypeOK
<1>2. LinksHaveTwoEnds'
  BY Zenon DEF IInv, LinksHaveTwoEnds
<1>3. OneDownPerMonitor'
  BY Zenon DEF IInv, OneDownPerMonitor
<1> QED
  BY <1>1, <1>2, <1>3, Zenon DEF IInv

\* The lists f are those of attached without a link between a and b.
RemovesLink(f, a, b) ==
  \A x, y \in Actors :
    /\ Count(f[x], Monitor(y)) = Count(attached[x], Monitor(y))
    /\ Count(f[x], Link(y)) = IF (x = a /\ y = b) \/ (x = b /\ y = a) THEN 0
                             ELSE Count(attached[x], Link(y))

\* remove_link keeps the types, takes the link off both lists and leaves the
\* monitors alone.
LEMMA UnlinkedCounts ==
  ASSUME TypeOK, LinksHaveTwoEnds, NEW a \in Actors, NEW b \in Actors
  PROVE  /\ Unlinked(a, b) \in [Actors -> Seq(Attachable)]
         /\ RemovesLink(Unlinked(a, b), a, b)
<1>0. ASSUME NEW x \in Actors, NEW y \in Actors
      PROVE  /\ Count(attached[x], Link(y)) \in Nat
             /\ Count(attached[x], Link(y)) <= 1
             /\ attached[x] \in Seq(Attachable)
  BY CountType, Zenon DEF LinksHaveTwoEnds, TypeOK
<1>1. ASSUME NEW x \in Actors, NEW y \in Actors, NEW z \in Actors, NEW l \in Seq(Attachable),
             l = DetachFirst(attached[x], Link(y))
      PROVE  /\ Count(l, Monitor(z)) = Count(attached[x], Monitor(z))
             /\ Count(l, Link(z)) = IF y = z THEN 0 ELSE Count(attached[x], Link(z))
  <2>1. /\ Link(y) = Link(z) <=> y = z
        /\ Link(y) # Monitor(z)
    BY Different, Zenon
  <2>2. Count(l, Monitor(z)) = Count(attached[x], Monitor(z))
    BY <1>0, <1>1, <2>1, CountDetachFirst, Zenon
  <2>3. Count(l, Link(z)) = IF Link(y) = Link(z) /\ Count(attached[x], Link(y)) > 0
                            THEN Count(attached[x], Link(y)) - 1 ELSE Count(attached[x], Link(z))
    BY <1>0, <1>1, CountDetachFirst, Zenon
  <2>4. Count(attached[x], Link(y)) \in Nat /\ Count(attached[x], Link(y)) <= 1
    BY <1>0, Zenon
  <2> QED
    BY <2>1, <2>2, <2>3, <2>4
<1>2. PICK la \in Seq(Attachable), lb \in Seq(Attachable) :
        la = DetachFirst(attached[a], Link(b)) /\ lb = DetachFirst(attached[b], Link(a))
  BY <1>0, CountDetachFirst, Zenon
<1>3. Unlinked(a, b) = [x \in Actors |-> IF x = a THEN la ELSE IF x = b THEN lb ELSE attached[x]]
  BY <1>2, Zenon DEF Unlinked
<1>4. Unlinked(a, b) \in [Actors -> Seq(Attachable)]
  BY <1>3, Zenon DEF TypeOK
<1> SUFFICES ASSUME NEW x \in Actors, NEW y \in Actors
             PROVE  /\ Count(Unlinked(a, b)[x], Monitor(y)) = Count(attached[x], Monitor(y))
                    /\ Count(Unlinked(a, b)[x], Link(y)) =
                         IF (x = a /\ y = b) \/ (x = b /\ y = a) THEN 0
                         ELSE Count(attached[x], Link(y))
  BY <1>4, Zenon DEF RemovesLink
<1>5. Unlinked(a, b)[x] = IF x = a THEN la ELSE IF x = b THEN lb ELSE attached[x]
  BY <1>3, Zenon
<1>6. CASE x = a
  BY <1>1, <1>2, <1>5, <1>6
<1>7. CASE x = b /\ x # a
  BY <1>1, <1>2, <1>5, <1>7
<1>8. CASE x # a /\ x # b
  BY <1>5, <1>8, Zenon
<1> QED
  BY <1>6, <1>7, <1>8, Zenon

\* Changing one entry of a table of numbers.
LEMMA TableUpdate ==
  ASSUME NEW f \in [Actors -> [Actors -> Int]], NEW a \in Actors, NEW b \in Actors, NEW n \in Int
  PROVE  /\ [f EXCEPT ![a][b] = n] \in [Actors -> [Actors -> Int]]
         /\ \A x, y \in Actors : [f EXCEPT ![a][b] = n][x][y] = IF x = a /\ y = b THEN n ELSE f[x][y]
<1>1. [f EXCEPT ![a][b] = n] = [f EXCEPT ![a] = [f[a] EXCEPT ![b] = n]]
  BY Zenon
<1>2. f[a] \in [Actors -> Int]
  BY Zenon
<1>3. PICK g \in [Actors -> Int] : g = [f[a] EXCEPT ![b] = n]
  BY <1>2, Zenon
<1>4. \A y \in Actors : g[y] = IF y = b THEN n ELSE f[a][y]
  BY <1>2, <1>3, Zenon
<1> QED
  BY <1>1, <1>3, <1>4, Zenon

\* enqueue keeps mailboxes well-typed.
LEMMA DeliverType ==
  ASSUME NEW box \in [Actors -> Seq(SysMsg)], NEW to \in Actors, NEW m \in SysMsg
  PROVE  Deliver(box, to, m) \in [Actors -> Seq(SysMsg)]
BY DEF Deliver

\* The variables keep their types.
LEMMA StepType == IInv /\ [Next]_vars => TypeOK'
<1> SUFFICES ASSUME TypeOK, LinksHaveTwoEnds, [Next]_vars PROVE TypeOK'
  BY Zenon DEF IInv
<1> USE DEF TypeOK
<1>1. ASSUME NEW a \in Actors, NEW b \in Actors, LinkTo(a, b) PROVE TypeOK'
  <2>1. CASE Terminated(b)
    <3>1. [type |-> "exit", source |-> b, reason |-> reason[b]] \in SysMsg
      BY Zenon DEF SysMsg
    <3>2. mailbox' = Deliver(mailbox, a, [type |-> "exit", source |-> b, reason |-> reason[b]])
          /\ UNCHANGED <<attached, phase, reason, todo, late, monitors, downs>>
      BY <1>1, <2>1, Zenon DEF LinkTo
    <3>3. mailbox' \in [Actors -> Seq(SysMsg)]
      BY <3>1, <3>2, DeliverType, Zenon
    <3> QED
      BY <3>2, <3>3, Zenon
  <2>2. CASE ~Terminated(b)
    <3>1. AttachImpl(attached[a], Link(b)) \in Seq(Attachable)
          /\ AttachImpl(attached[b], Link(a)) \in Seq(Attachable)
      BY CountAttach, Different, Zenon
    <3>2. attached' \in [Actors -> Seq(Attachable)]
      BY <1>1, <2>2, <3>1, Zenon DEF LinkTo
    <3> QED
      BY <1>1, <2>2, <3>2, Zenon DEF LinkTo
  <2> QED
    BY <2>1, <2>2, Zenon
<1>2. ASSUME NEW a \in Actors, NEW b \in Actors, UnlinkFrom(a, b) PROVE TypeOK'
  BY <1>2, UnlinkedCounts, Zenon DEF UnlinkFrom
<1>3. ASSUME NEW a \in Actors, NEW b \in Actors, MonitorActor(a, b) PROVE TypeOK'
  <2>1. AttachImpl(attached[b], Monitor(a)) \in Seq(Attachable)
    BY CountAttach, Different, Zenon
  <2>2. [type |-> "down", source |-> b, reason |-> reason[b]] \in SysMsg
    BY Zenon DEF SysMsg
  <2>3. monitors' \in [Actors -> [Actors -> Int]]
    <3>1. monitors' = [monitors EXCEPT ![a][b] = monitors[a][b] + 1] /\ monitors[a][b] + 1 \in Int
      BY <1>3 DEF MonitorActor
    <3> QED
      BY <3>1, TableUpdate, Zenon
  <2>4. CASE Terminated(b)
    <3>1. PICK m \in SysMsg : m = [type |-> "down", source |-> b, reason |-> reason[b]]
      BY <2>2, Zenon
    <3>2. late' = [late EXCEPT ![a] = <<m>>] /\ UNCHANGED <<attached, phase, reason, todo, mailbox, downs>>
      BY <1>3, <2>4, <3>1, Zenon DEF MonitorActor
    <3>3. late' \in [Actors -> Seq(SysMsg)]
      BY <3>2
    <3> QED
      BY <2>3, <3>2, <3>3, Zenon
  <2>5. CASE ~Terminated(b)
    <3>1. /\ attached' = [attached EXCEPT ![b] = AttachImpl(attached[b], Monitor(a))]
          /\ UNCHANGED <<late, phase, reason, todo, mailbox, downs>>
      BY <1>3, <2>5, Zenon DEF MonitorActor
    <3>2. attached' \in [Actors -> Seq(Attachable)]
      BY <2>1, <3>1, Zenon
    <3> QED
      BY <2>3, <3>1, <3>2, Zenon
  <2> QED
    BY <2>4, <2>5, Zenon
<1>4. ASSUME NEW a \in Actors, AttachLate(a) PROVE TypeOK'
  <2>1. PICK m \in SysMsg : m = Head(late[a])
    BY <1>4, HeadTailProperties, Zenon DEF AttachLate
  <2>2. mailbox' \in [Actors -> Seq(SysMsg)]
    BY <1>4, <2>1, DeliverType, Zenon DEF AttachLate
  <2>3. downs' \in [Actors -> [Actors -> Int]]
    <3>1. m.source \in Actors
      BY Zenon DEF SysMsg
    <3>2. downs' = [downs EXCEPT ![a][m.source] = downs[a][m.source] + 1]
          /\ downs[a][m.source] + 1 \in Int
      BY <1>4, <2>1, <3>1 DEF AttachLate
    <3> QED
      BY <3>1, <3>2, TableUpdate, Zenon
  <2>4. late' = [late EXCEPT ![a] = <<>>] /\ UNCHANGED <<phase, reason, attached, todo, monitors>>
    BY <1>4, Zenon DEF AttachLate
  <2> QED
    BY <2>2, <2>3, <2>4
<1>5. ASSUME NEW a \in Actors, NEW b \in Actors, Demonitor(a, b) PROVE TypeOK'
  <2>1. DetachAll(attached[b], Monitor(a)) \in Seq(Attachable)
    BY CountDetachAll, Different, Zenon
  <2>2. attached' = [attached EXCEPT ![b] = DetachAll(attached[b], Monitor(a))]
    BY <1>5, Zenon DEF Demonitor
  <2>3. attached' \in [Actors -> Seq(Attachable)]
    BY <2>1, <2>2, Zenon
  <2>4. Len(attached[b]) \in Int /\ Len(attached'[b]) \in Int
    BY <2>3, LenProperties
  <2>5. monitors' \in [Actors -> [Actors -> Int]]
    <3>1. PICK n \in Int : n = monitors[a][b] - (Len(attached[b]) - Len(attached'[b]))
      <4>1. PICK k \in Int, i \in Int, j \in Int :
              k = monitors[a][b] /\ i = Len(attached[b]) /\ j = Len(attached'[b])
        BY <2>4, Zenon
      <4>2. k - (i - j) \in Int
        OBVIOUS
      <4> QED
        BY <4>1, <4>2, Zenon
    <3>2. monitors' = [monitors EXCEPT ![a][b] = n]
      BY <1>5, <3>1, Zenon DEF Demonitor
    <3> QED
      BY <3>2, TableUpdate, Zenon
  <2> QED
    BY <1>5, <2>3, <2>5, Zenon DEF Demonitor
<1>6. ASSUME NEW a \in Actors, NEW b \in Actors, NEW r \in SendReasons, SendExit(a, b, r)
      PROVE  TypeOK'
  <2>1. [type |-> "exit", source |-> a, reason |-> r] \in SysMsg
    BY LinksConstants, Zenon DEF SysMsg
  <2>2. mailbox' \in [Actors -> Seq(SysMsg)]
    BY <1>6, <2>1, DeliverType, Zenon DEF SendExit
  <2> QED
    BY <1>6, <2>2, Zenon DEF SendExit
<1>7. ASSUME NEW a \in Actors, NEW r \in QuitReasons, Quit(a, r) PROVE TypeOK'
  BY <1>7, LinksConstants, Zenon DEF Quit, Close
<1>8. ASSUME NEW a \in Actors, HandleExit(a) PROVE TypeOK'
  <2>1. PICK m \in SysMsg : m = Head(mailbox[a])
    BY <1>8, HeadTailProperties, Zenon DEF HandleExit
  <2>2. m.source \in Actors /\ m.reason \in Reason
    BY Zenon DEF SysMsg
  <2>3. attached' \in [Actors -> Seq(Attachable)]
    <3>1. attached' = Unlinked(a, m.source)
      BY <1>8, <2>1, Zenon DEF HandleExit
    <3> QED
      BY <2>2, <3>1, UnlinkedCounts, Zenon
  <2>4. /\ phase' \in [Actors -> {"alive", "closed", "notify", "dead"}]
        /\ reason' \in [Actors -> Reason]
        /\ mailbox' \in [Actors -> Seq(SysMsg)]
    <3>1. Tail(mailbox[a]) \in Seq(SysMsg)
      BY <1>8, HeadTailProperties, Zenon DEF HandleExit
    <3> QED
      BY <1>8, <2>1, <2>2, <3>1, Zenon DEF HandleExit, Close
  <2> QED
    BY <1>8, <2>3, <2>4, Zenon DEF HandleExit
<1>9. ASSUME NEW a \in Actors, HandleDown(a) PROVE TypeOK'
  BY <1>9 DEF HandleDown
<1>10. ASSUME NEW a \in Actors, Cleanup(a) PROVE TypeOK'
  BY <1>10 DEF Cleanup
<1>11. ASSUME NEW a \in Actors, ActorExited(a) PROVE TypeOK'
  <2>1. PICK x \in Attachable : x = Head(todo[a]) /\ Tail(todo[a]) \in Seq(Attachable)
    BY <1>11, HeadTailProperties, Zenon DEF ActorExited
  <2>2. /\ x.observer \in Actors
        /\ [type |-> IF x.type = "monitor" THEN "down" ELSE "exit",
            source |-> a, reason |-> reason[a]] \in SysMsg
    BY Zenon DEF Attachable, SysMsg
  <2>3. mailbox' \in [Actors -> Seq(SysMsg)]
    BY <1>11, <2>1, <2>2, DeliverType, Zenon DEF ActorExited
  <2>4. downs' \in [Actors -> [Actors -> Int]]
    <3>1. PICK o \in Actors : o = x.observer
      BY <2>2, Zenon
    <3>2. PICK n \in Int : n = downs[o][a] + 1
      OBVIOUS
    <3>3. downs' = IF x.type = "monitor" THEN [downs EXCEPT ![o][a] = n] ELSE downs
      BY <1>11, <2>1, <3>1, <3>2, Zenon DEF ActorExited
    <3>4. [downs EXCEPT ![o][a] = n] \in [Actors -> [Actors -> Int]]
      BY TableUpdate, Zenon
    <3> QED
      BY <3>3, <3>4, Zenon
  <2> QED
    BY <1>11, <2>1, <2>3, <2>4, Zenon DEF ActorExited
<1>12. ASSUME NEW a \in Actors, CleanupDone(a) PROVE TypeOK'
  BY <1>12, Zenon DEF CleanupDone
<1>13. CASE UNCHANGED vars
  BY <1>13, Zenon DEF vars
<1> QED
  BY <1>1, <1>2, <1>3, <1>4, <1>5, <1>6, <1>7, <1>8, <1>9, <1>10, <1>11, <1>12, <1>13, Zenon
     DEF Next, Call, Work

-----------------------------------------------------------------------------
(* The invariant is inductive. *)

\* Every change on one side of OneDownPerMonitor has its counterpart on the other.
BalancedAt(x, y) ==
  monitors'[x][y] - monitors[x][y] =
    (Count(attached'[y], Monitor(x)) - Count(attached[y], Monitor(x)))
    + (Count(todo'[y], Monitor(x)) - Count(todo[y], Monitor(x)))
    + (Occurrences(late'[x], DownsOf(y)) - Occurrences(late[x], DownsOf(y)))
    + (downs'[x][y] - downs[x][y])

Balanced == \A x, y \in Actors : BalancedAt(x, y)

\* A balanced step keeps one down message per monitor.
LEMMA Balance ==
  ASSUME TypeOK, TypeOK', OneDownPerMonitor, Balanced
  PROVE  OneDownPerMonitor'
<1> SUFFICES ASSUME NEW x \in Actors, NEW y \in Actors
             PROVE  monitors'[x][y] =
                      Count(attached'[y], Monitor(x)) + Count(todo'[y], Monitor(x))
                      + Occurrences(late'[x], DownsOf(y)) + downs'[x][y]
  BY Zenon DEF OneDownPerMonitor
<1>1. /\ Count(attached[y], Monitor(x)) \in Nat
      /\ Count(todo[y], Monitor(x)) \in Nat
      /\ Occurrences(late[x], DownsOf(y)) \in Nat
      /\ downs[x][y] \in Int /\ monitors[x][y] \in Int
  BY Numbers, Zenon
<1>2. Count(attached'[y], Monitor(x)) \in Nat /\ Count(todo'[y], Monitor(x)) \in Nat
  BY CountType, Zenon DEF TypeOK
<1>3. Occurrences(late'[x], DownsOf(y)) \in Nat
  BY OccType, Zenon DEF TypeOK
<1>4. downs'[x][y] \in Int /\ monitors'[x][y] \in Int
  BY Zenon DEF TypeOK
<1>5. monitors[x][y] =
        Count(attached[y], Monitor(x)) + Count(todo[y], Monitor(x))
        + Occurrences(late[x], DownsOf(y)) + downs[x][y]
  BY Zenon DEF OneDownPerMonitor
<1>6. monitors'[x][y] - monitors[x][y] =
        (Count(attached'[y], Monitor(x)) - Count(attached[y], Monitor(x)))
        + (Count(todo'[y], Monitor(x)) - Count(todo[y], Monitor(x)))
        + (Occurrences(late'[x], DownsOf(y)) - Occurrences(late[x], DownsOf(y)))
        + (downs'[x][y] - downs[x][y])
  BY Zenon DEF Balanced, BalancedAt
<1>7. PICK m \in Int, c \in Int, t \in Int, l \in Int, d \in Int :
        /\ m = monitors[x][y] /\ c = Count(attached[y], Monitor(x))
        /\ t = Count(todo[y], Monitor(x)) /\ l = Occurrences(late[x], DownsOf(y))
        /\ d = downs[x][y]
  BY <1>1
<1>8. PICK m1 \in Int, c1 \in Int, t1 \in Int, l1 \in Int, d1 \in Int :
        /\ m1 = monitors'[x][y] /\ c1 = Count(attached'[y], Monitor(x))
        /\ t1 = Count(todo'[y], Monitor(x)) /\ l1 = Occurrences(late'[x], DownsOf(y))
        /\ d1 = downs'[x][y]
  BY <1>2, <1>3, <1>4
<1>9. m = c + t + l + d /\ m1 - m = (c1 - c) + (t1 - t) + (l1 - l) + (d1 - d)
  BY <1>5, <1>6, <1>7, <1>8, Zenon
<1>10. m1 = c1 + t1 + l1 + d1
  BY <1>9
<1> QED
  BY <1>8, <1>10, Zenon

\* A step that changes neither the links of an actor nor whether it has
\* terminated keeps the links.
LEMMA LinksKept ==
  ASSUME LinksHaveTwoEnds,
         \A x, y \in Actors : Count(attached'[x], Link(y)) = Count(attached[x], Link(y)),
         \A x \in Actors : Terminated(x)' <=> Terminated(x)
  PROVE  LinksHaveTwoEnds'
BY Zenon DEF LinksHaveTwoEnds

\* remove_link preserves the invariant, for whatever reason it is called.
LEMMA UnlinkStep ==
  ASSUME IInv, TypeOK', NEW a \in Actors, NEW b \in Actors, attached' = Unlinked(a, b),
         UNCHANGED <<todo, late, monitors, downs>>,
         \A x \in Actors : /\ phase[x] = "notify" <=> phase'[x] = "notify"
                           /\ Terminated(x) <=> Terminated(x)'
  PROVE  IInv'
<1>1. CleanupOnly' /\ OneLate'
  BY Zenon DEF IInv, CleanupOnly, OneLate, TypeOK
<1>2. \A x, y \in Actors :
        /\ Count(attached'[x], Monitor(y)) = Count(attached[x], Monitor(y))
        /\ Count(attached'[x], Link(y)) =
             IF (x = a /\ y = b) \/ (x = b /\ y = a) THEN 0 ELSE Count(attached[x], Link(y))
  <2>1. TypeOK /\ LinksHaveTwoEnds
    BY Zenon DEF IInv
  <2>2. RemovesLink(attached', a, b)
    BY <2>1, UnlinkedCounts, Zenon
  <2> QED
    BY <2>2, Zenon DEF RemovesLink
<1>3. OneDownPerMonitor'
  BY <1>2 DEF IInv, OneDownPerMonitor
<1>4. LinksHaveTwoEnds'
  BY <1>2 DEF IInv, LinksHaveTwoEnds
<1> QED
  BY <1>1, <1>3, <1>4, Zenon DEF IInv

\* add_link enters a new link on both lists.
LEMMA LinkStep ==
  ASSUME IInv, TypeOK', NEW a \in Actors, NEW b \in Actors, LinkTo(a, b)
  PROVE  IInv'
<1> USE DEF IInv
<1>0. a # b /\ ~Terminated(a) /\ UNCHANGED <<phase, todo, late, monitors, downs>>
  BY Zenon DEF LinkTo, Calls, Terminated
<1>1. CASE attached' = attached
  BY <1>0, <1>1, OtherStep, Zenon DEF Terminated
<1>2. CASE attached' # attached
  <2>1. /\ ~Terminated(b) /\ ~(Count(attached[b], Link(a)) > 0)
        /\ attached' = [attached EXCEPT ![a] = AttachImpl(@, Link(b)),
                                        ![b] = AttachImpl(@, Link(a))]
    BY <1>2, Zenon DEF LinkTo
  <2>2. /\ attached'[a] = AttachImpl(attached[a], Link(b))
        /\ attached'[b] = AttachImpl(attached[b], Link(a))
        /\ \A x \in Actors \ {a, b} : attached'[x] = attached[x]
    BY <1>0, <2>1, Zenon DEF TypeOK
  <2>3. /\ \A x \in Actors : attached[x] \in Seq(Attachable)
        /\ Link(a) \in Attachable /\ Link(b) \in Attachable
    BY Different, Zenon DEF TypeOK
  <2>4. Count(attached[b], Link(a)) = 0 /\ Count(attached[a], Link(b)) = 0
    BY <1>0, <2>1, <2>3, CountType DEF LinksHaveTwoEnds
  <2>5. \A y \in Actors :
          /\ Count(attached'[a], Monitor(y)) = Count(attached[a], Monitor(y))
          /\ Count(attached'[b], Monitor(y)) = Count(attached[b], Monitor(y))
          /\ Count(attached'[a], Link(y)) = IF y = b THEN 1 ELSE Count(attached[a], Link(y))
          /\ Count(attached'[b], Link(y)) = IF y = a THEN 1 ELSE Count(attached[b], Link(y))
    <3> SUFFICES ASSUME NEW y \in Actors
                 PROVE /\ Count(attached'[a], Monitor(y)) = Count(attached[a], Monitor(y))
                       /\ Count(attached'[b], Monitor(y)) = Count(attached[b], Monitor(y))
                       /\ Count(attached'[a], Link(y)) = IF y = b THEN 1 ELSE Count(attached[a], Link(y))
                       /\ Count(attached'[b], Link(y)) = IF y = a THEN 1 ELSE Count(attached[b], Link(y))
      BY Zenon
    <3>1. ASSUME NEW x \in Actors, NEW z \in Actors, Count(attached[x], Link(z)) = 0
          PROVE /\ Count(AttachImpl(attached[x], Link(z)), Monitor(y)) = Count(attached[x], Monitor(y))
                /\ Count(AttachImpl(attached[x], Link(z)), Link(y)) =
                     IF y = z THEN 1 ELSE Count(attached[x], Link(y))
      <4>1. attached[x] \in Seq(Attachable) /\ Link(z) \in Attachable
            /\ Link(z) # Monitor(y) /\ (Link(z) = Link(y) <=> y = z)
        BY <2>3, Different, Zenon
      <4>2. Count(attached[x], Monitor(y)) \in Nat /\ Count(attached[x], Link(y)) \in Nat
        BY <4>1, CountType, Zenon
      <4>3. Count(AttachImpl(attached[x], Link(z)), Monitor(y)) =
              Count(attached[x], Monitor(y)) + (IF Link(z) = Monitor(y) THEN 1 ELSE 0)
        BY <4>1, CountAttach
      <4>4. Count(AttachImpl(attached[x], Link(z)), Link(y)) =
              Count(attached[x], Link(y)) + (IF Link(z) = Link(y) THEN 1 ELSE 0)
        BY <4>1, CountAttach
      <4> QED
        BY <3>1, <4>1, <4>2, <4>3, <4>4
    <3> QED
      BY <2>2, <2>4, <3>1
  <2>6. OneDownPerMonitor'
    BY <1>0, <2>2, <2>5 DEF OneDownPerMonitor
  <2>7. LinksHaveTwoEnds'
    <3>1. \A x, y \in Actors :
            Count(attached'[x], Link(y)) = IF (x = a /\ y = b) \/ (x = b /\ y = a) THEN 1
                                           ELSE Count(attached[x], Link(y))
      BY <1>0, <2>2, <2>5, Zenon
    <3> QED
      BY <1>0, <3>1 DEF LinksHaveTwoEnds, Terminated
  <2> QED
    BY <1>0, <2>6, <2>7, Zenon DEF CleanupOnly, OneLate
<1> QED
  BY <1>1, <1>2, Zenon

\* monitor adds to the list of an actor, or has a message to send if that
\* actor has terminated.
LEMMA MonitorStep ==
  ASSUME IInv, TypeOK', NEW a \in Actors, NEW b \in Actors, MonitorActor(a, b)
  PROVE  IInv'
<1> USE DEF IInv
<1>0. /\ late[a] = <<>> /\ UNCHANGED <<phase, todo, downs>>
      /\ monitors' = [monitors EXCEPT ![a][b] = monitors[a][b] + 1]
  BY Zenon DEF MonitorActor, Calls
<1>1. \A x, y \in Actors : monitors'[x][y] = monitors[x][y] + (IF x = a /\ y = b THEN 1 ELSE 0)
  <2>1. monitors \in [Actors -> [Actors -> Int]] /\ \A x, y \in Actors : monitors[x][y] \in Int
    BY Zenon DEF TypeOK
  <2>2. PICK n \in Int : n = monitors[a][b] + 1
    BY <2>1
  <2>3. \A x, y \in Actors : [monitors EXCEPT ![a][b] = n][x][y] =
                             IF x = a /\ y = b THEN n ELSE monitors[x][y]
    BY <2>1, TableUpdate
  <2>4. \A x, y \in Actors : monitors'[x][y] = IF x = a /\ y = b THEN n ELSE monitors[x][y]
    BY <1>0, <2>2, <2>3, Zenon
  <2> QED
    BY <2>1, <2>2, <2>4
<1>2. CASE Terminated(b)
  <2>1. PICK m \in SysMsg : /\ m = [type |-> "down", source |-> b, reason |-> reason[b]]
                            /\ \A c \in Actors : m \in DownsOf(c) <=> b = c
    <3>1. reason[b] \in Reason
      BY Zenon DEF TypeOK
    <3>2. \A m : m = [type |-> "down", source |-> b, reason |-> reason[b]]
                  => m \in SysMsg /\ \A c \in Actors : m \in DownsOf(c) <=> b = c
      BY <3>1, DownsOfSource
    <3> QED
      BY <3>2, Zenon
  <2>2. attached' = attached /\ late' = [late EXCEPT ![a] = <<m>>]
    BY <1>2, <2>1, Zenon DEF MonitorActor
  <2>3. late'[a] = <<m>> /\ \A x \in Actors \ {a} : late'[x] = late[x]
    BY <2>2, Zenon DEF TypeOK
  <2>4. \A y \in Actors : /\ Occurrences(late[a], DownsOf(y)) = 0
                          /\ Occurrences(late'[a], DownsOf(y)) = IF b = y THEN 1 ELSE 0
    BY <1>0, <2>1, <2>3, OccEmpty, OccSingle
  <2>5. Balanced
    <3> SUFFICES ASSUME NEW x \in Actors, NEW y \in Actors
                 PROVE  BalancedAt(x, y)
      BY Zenon DEF Balanced
    <3>1. /\ Count(attached[y], Monitor(x)) \in Nat
          /\ Count(todo[y], Monitor(x)) \in Nat
          /\ Occurrences(late[x], DownsOf(y)) \in Nat
          /\ downs[x][y] \in Int /\ monitors[x][y] \in Int
      BY Numbers, Zenon
    <3> QED
      BY <1>0, <1>1, <2>2, <2>3, <2>4, <3>1 DEF BalancedAt
  <2>6. LinksHaveTwoEnds'
    BY <1>0, <2>2, Zenon DEF LinksHaveTwoEnds, Terminated
  <2>7. OneLate'
    BY <2>1, <2>3 DEF OneLate
  <2> QED
    BY <1>0, <2>5, <2>6, <2>7, Balance, Zenon DEF CleanupOnly
<1>3. CASE ~Terminated(b)
  <2>1. late' = late /\ attached' = [attached EXCEPT ![b] = AttachImpl(@, Monitor(a))]
    BY <1>3, Zenon DEF MonitorActor
  <2>2. /\ attached'[b] = AttachImpl(attached[b], Monitor(a))
        /\ \A x \in Actors \ {b} : attached'[x] = attached[x]
    BY <2>1, Zenon DEF TypeOK
  <2>3. \A y \in Actors :
          /\ Count(attached'[b], Monitor(y)) = Count(attached[b], Monitor(y)) + (IF a = y THEN 1 ELSE 0)
          /\ Count(attached'[b], Link(y)) = Count(attached[b], Link(y))
    <3> SUFFICES ASSUME NEW y \in Actors
                 PROVE  /\ Count(attached'[b], Monitor(y)) =
                             Count(attached[b], Monitor(y)) + (IF a = y THEN 1 ELSE 0)
                        /\ Count(attached'[b], Link(y)) = Count(attached[b], Link(y))
      BY Zenon
    <3>1. attached[b] \in Seq(Attachable) /\ Monitor(a) \in Attachable
          /\ Link(y) # Monitor(a) /\ (Monitor(a) = Monitor(y) <=> a = y)
      BY Different, Zenon DEF TypeOK
    <3>2. Count(attached[b], Link(y)) \in Nat
      BY <3>1, CountType, Zenon
    <3>3. Count(attached'[b], Monitor(y)) =
            Count(attached[b], Monitor(y)) + (IF Monitor(a) = Monitor(y) THEN 1 ELSE 0)
      BY <2>2, <3>1, CountAttach
    <3>4. Count(attached'[b], Link(y)) =
            Count(attached[b], Link(y)) + (IF Monitor(a) = Link(y) THEN 1 ELSE 0)
      BY <2>2, <3>1, CountAttach
    <3> QED
      BY <3>1, <3>2, <3>3, <3>4
  <2>4. Balanced
    <3> SUFFICES ASSUME NEW x \in Actors, NEW y \in Actors
                 PROVE  BalancedAt(x, y)
      BY Zenon DEF Balanced
    <3>1. /\ Count(attached[y], Monitor(x)) \in Nat
          /\ Count(todo[y], Monitor(x)) \in Nat
          /\ Occurrences(late[x], DownsOf(y)) \in Nat
          /\ downs[x][y] \in Int /\ monitors[x][y] \in Int
      BY Numbers, Zenon
    <3> QED
      BY <1>0, <1>1, <2>1, <2>2, <2>3, <3>1 DEF BalancedAt
  <2>5. LinksHaveTwoEnds'
    BY <1>0, <2>2, <2>3, LinksKept, Zenon DEF Terminated
  <2> QED
    BY <1>0, <2>1, <2>4, <2>5, Balance, Zenon DEF CleanupOnly, OneLate
<1> QED
  BY <1>2, <1>3, Zenon

\* attach sends the message it owes.
LEMMA LateStep ==
  ASSUME IInv, TypeOK', NEW a \in Actors, AttachLate(a)
  PROVE  IInv'
<1> USE DEF IInv
<1>1. PICK m \in SysMsg, b \in Actors : late[a] = <<m>> /\ m \in DownsOf(b)
  <2>1. late[a] \in Seq(SysMsg) /\ late[a] # <<>>
    BY Zenon DEF AttachLate, TypeOK
  <2>2. Head(late[a]) \in SysMsg
    BY <2>1, HeadTailProperties, Zenon
  <2> QED
    BY <2>1, <2>2, Zenon DEF OneLate
<1>2. Head(late[a]) = m /\ m.source = b /\ \A c \in Actors : m \in DownsOf(c) <=> b = c
  BY <1>1 DEF DownsOf
<1>3. /\ UNCHANGED <<phase, todo, attached, monitors>> /\ late' = [late EXCEPT ![a] = <<>>]
      /\ downs' = [downs EXCEPT ![a][b] = downs[a][b] + 1]
  BY <1>2, Zenon DEF AttachLate
<1>4. late'[a] = <<>> /\ \A x \in Actors \ {a} : late'[x] = late[x]
  BY <1>3 DEF TypeOK
<1>5. \A y \in Actors : /\ Occurrences(late'[a], DownsOf(y)) = 0
                        /\ Occurrences(late[a], DownsOf(y)) = IF b = y THEN 1 ELSE 0
  BY <1>1, <1>2, <1>4, OccEmpty, OccSingle
<1>6. \A x, y \in Actors : downs'[x][y] = downs[x][y] + (IF x = a /\ y = b THEN 1 ELSE 0)
  <2>1. downs \in [Actors -> [Actors -> Int]] /\ \A x, y \in Actors : downs[x][y] \in Int
    BY Zenon DEF TypeOK
  <2>2. PICK n \in Int : n = downs[a][b] + 1
    BY <2>1
  <2>3. \A x, y \in Actors : [downs EXCEPT ![a][b] = n][x][y] =
                             IF x = a /\ y = b THEN n ELSE downs[x][y]
    BY <2>1, TableUpdate
  <2>4. \A x, y \in Actors : downs'[x][y] = IF x = a /\ y = b THEN n ELSE downs[x][y]
    BY <1>3, <2>2, <2>3, Zenon
  <2> QED
    BY <2>1, <2>2, <2>4
<1>7. Balanced
  <2> SUFFICES ASSUME NEW x \in Actors, NEW y \in Actors PROVE BalancedAt(x, y)
    BY Zenon DEF Balanced
  <2>1. /\ Count(attached[y], Monitor(x)) \in Nat
        /\ Count(todo[y], Monitor(x)) \in Nat
        /\ Occurrences(late[x], DownsOf(y)) \in Nat
        /\ downs[x][y] \in Int /\ monitors[x][y] \in Int
    BY Numbers, Zenon
  <2>2. CASE x = a
    <3>1. /\ Occurrences(late'[x], DownsOf(y)) = 0
          /\ Occurrences(late[x], DownsOf(y)) = IF b = y THEN 1 ELSE 0
          /\ downs'[x][y] = downs[x][y] + (IF y = b THEN 1 ELSE 0)
      BY <1>5, <1>6, <2>2, Zenon
    <3> QED
      BY <1>3, <2>1, <3>1 DEF BalancedAt
  <2>3. CASE x # a
    BY <1>3, <1>4, <1>6, <2>1, <2>3 DEF BalancedAt
  <2> QED
    BY <2>2, <2>3, Zenon
<1>8. LinksHaveTwoEnds' /\ CleanupOnly'
  BY <1>3, Zenon DEF LinksHaveTwoEnds, CleanupOnly, Terminated
<1>9. OneLate'
  BY <1>4, Zenon DEF OneLate
<1> QED
  BY <1>7, <1>8, <1>9, Balance, Zenon

\* demonitor takes every monitor of the caller off the list.
LEMMA DemonitorStep ==
  ASSUME IInv, TypeOK', NEW a \in Actors, NEW b \in Actors, Demonitor(a, b)
  PROVE  IInv'
<1> USE DEF IInv
<1>0. UNCHANGED <<phase, todo, late, downs>>
  BY Zenon DEF Demonitor
<1>1. attached[b] \in Seq(Attachable) /\ Monitor(a) \in Attachable
  BY Different, Zenon DEF TypeOK
<1>2. PICK l : l = DetachAll(attached[b], Monitor(a))
  BY Zenon
<1>3. attached'[b] = l /\ \A x \in Actors \ {b} : attached'[x] = attached[x]
  BY <1>2 DEF Demonitor, TypeOK
<1>4. \A y \in Actors :
        /\ Count(l, Monitor(y)) = IF a = y THEN 0 ELSE Count(attached[b], Monitor(y))
        /\ Count(l, Link(y)) = Count(attached[b], Link(y))
  <2> SUFFICES ASSUME NEW y \in Actors
               PROVE  /\ Count(l, Monitor(y)) = IF a = y THEN 0 ELSE Count(attached[b], Monitor(y))
                      /\ Count(l, Link(y)) = Count(attached[b], Link(y))
    BY Zenon
  <2>1. /\ Monitor(y) \in Attachable /\ Link(y) \in Attachable
        /\ Link(y) # Monitor(a) /\ (Monitor(a) = Monitor(y) <=> a = y)
    BY Different, Zenon
  <2>2. Count(l, Monitor(y)) = IF Monitor(a) = Monitor(y) THEN 0 ELSE Count(attached[b], Monitor(y))
    BY <1>1, <1>2, <2>1, CountDetachAll, Zenon
  <2>3. Count(l, Link(y)) = IF Monitor(a) = Link(y) THEN 0 ELSE Count(attached[b], Link(y))
    BY <1>1, <1>2, <2>1, CountDetachAll, Zenon
  <2> QED
    BY <2>1, <2>2, <2>3, Zenon
<1>5. Len(attached[b]) - Len(l) = Count(attached[b], Monitor(a))
  BY <1>1, <1>2, CountDetachAll, Zenon
<1>6. \A x, y \in Actors :
        monitors'[x][y] = IF x = a /\ y = b THEN monitors[a][b] - Count(attached[b], Monitor(a))
                          ELSE monitors[x][y]
  <2>1. monitors \in [Actors -> [Actors -> Int]] /\ \A x, y \in Actors : monitors[x][y] \in Int
    BY Zenon DEF TypeOK
  <2>2. PICK n \in Int : n = monitors[a][b] - Count(attached[b], Monitor(a))
    BY <1>1, <2>1, CountType
  <2>3. \A x, y \in Actors : [monitors EXCEPT ![a][b] = n][x][y] =
                             IF x = a /\ y = b THEN n ELSE monitors[x][y]
    BY <2>1, TableUpdate
  <2>4. monitors' = [monitors EXCEPT ![a][b] = n]
    <3>1. monitors' = [monitors EXCEPT ![a][b] = monitors[a][b] - (Len(attached[b]) - Len(l))]
      BY <1>3, Zenon DEF Demonitor
    <3> QED
      BY <1>5, <2>2, <3>1, Zenon
  <2> QED
    BY <2>2, <2>3, <2>4, Zenon
<1>7. Balanced
  <2> SUFFICES ASSUME NEW x \in Actors, NEW y \in Actors PROVE BalancedAt(x, y)
    BY Zenon DEF Balanced
  <2>1. /\ Count(attached[y], Monitor(x)) \in Nat
        /\ Count(todo[y], Monitor(x)) \in Nat
        /\ Occurrences(late[x], DownsOf(y)) \in Nat
        /\ downs[x][y] \in Int /\ monitors[x][y] \in Int
    BY Numbers, Zenon
  <2> QED
    BY <1>0, <1>3, <1>4, <1>6, <2>1 DEF BalancedAt
<1>8. LinksHaveTwoEnds'
  BY <1>0, <1>3, <1>4, LinksKept, Zenon DEF Terminated
<1> QED
  BY <1>0, <1>7, <1>8, Balance, Zenon DEF CleanupOnly, OneLate

\* The critical section of cleanup moves the list of an actor to its loop, which
\* has nothing else to go through.
LEMMA CleanupStep ==
  ASSUME IInv, TypeOK', NEW a \in Actors, Cleanup(a)
  PROVE  IInv'
<1> USE DEF IInv
<1>1. /\ UNCHANGED <<late, monitors, downs>> /\ todo[a] = <<>>
      /\ todo' = [todo EXCEPT ![a] = attached[a]]
      /\ attached' = [attached EXCEPT ![a] = <<>>]
      /\ phase' = [phase EXCEPT ![a] = "notify"]
      /\ phase[a] = "closed"
  BY Zenon DEF Cleanup, CleanupOnly
<1>2. /\ attached'[a] = <<>> /\ todo'[a] = attached[a] /\ phase'[a] = "notify"
      /\ \A x \in Actors \ {a} : /\ attached'[x] = attached[x] /\ todo'[x] = todo[x]
                                 /\ phase'[x] = phase[x]
  BY <1>1, Zenon DEF TypeOK
<1>3. \A y \in Actors : /\ Count(attached'[a], Monitor(y)) = 0
                        /\ Count(attached'[a], Link(y)) = 0
                        /\ Count(todo[a], Monitor(y)) = 0
  BY <1>1, <1>2, CountEmpty, Zenon
<1>4. Balanced
  <2> SUFFICES ASSUME NEW x \in Actors, NEW y \in Actors PROVE BalancedAt(x, y)
    BY Zenon DEF Balanced
  <2>1. /\ Count(attached[y], Monitor(x)) \in Nat
        /\ Count(todo[y], Monitor(x)) \in Nat
        /\ Occurrences(late[x], DownsOf(y)) \in Nat
        /\ downs[x][y] \in Int /\ monitors[x][y] \in Int
    BY Numbers, Zenon
  <2> QED
    BY <1>1, <1>2, <1>3, <2>1 DEF BalancedAt
<1>5. LinksHaveTwoEnds'
  BY <1>2, <1>3 DEF LinksHaveTwoEnds, Terminated
<1>6. CleanupOnly' /\ OneLate'
  BY <1>1, <1>2, Zenon DEF CleanupOnly, OneLate
<1> QED
  BY <1>4, <1>5, <1>6, Balance, Zenon

\* An iteration of the loop of cleanup sends a down message for a monitor.
LEMMA ExitedStep ==
  ASSUME IInv, TypeOK', NEW a \in Actors, ActorExited(a)
  PROVE  IInv'
<1> USE DEF IInv
<1>1. PICK m \in Attachable, l \in Seq(Attachable) :
        /\ m = Head(todo[a]) /\ l = Tail(todo[a])
        /\ \A y : Count(todo[a], y) = Count(l, y) + (IF m = y THEN 1 ELSE 0)
  <2>1. todo[a] \in Seq(Attachable) /\ todo[a] # <<>>
    BY Zenon DEF ActorExited, TypeOK
  <2>2. Tail(todo[a]) \in Seq(Attachable) /\ Head(todo[a]) \in Attachable
    BY <2>1, HeadTailProperties, Zenon
  <2>3. \A y : Count(todo[a], y) = Count(Tail(todo[a]), y) + (IF Head(todo[a]) = y THEN 1 ELSE 0)
    BY <2>1, CountTail, Zenon
  <2> QED
    BY <2>2, <2>3, Zenon
<1>2. /\ UNCHANGED <<phase, attached, late, monitors>>
      /\ todo' = [todo EXCEPT ![a] = l] /\ phase[a] = "notify"
      /\ downs' = IF m.type = "monitor"
                  THEN [downs EXCEPT ![m.observer][a] = downs[m.observer][a] + 1] ELSE downs
  BY <1>1, Zenon DEF ActorExited
<1>3. todo'[a] = l /\ \A x \in Actors \ {a} : todo'[x] = todo[x]
  BY <1>2, Zenon DEF TypeOK
<1>4. m.observer \in Actors /\ \A x \in Actors : m = Monitor(x) <=> m.type = "monitor" /\ m.observer = x
  BY DEF Attachable, Monitor
<1>5. \A x, y \in Actors :
        downs'[x][y] = downs[x][y] + (IF m = Monitor(x) /\ y = a THEN 1 ELSE 0)
  <2>1. downs \in [Actors -> [Actors -> Int]] /\ \A x, y \in Actors : downs[x][y] \in Int
    BY Zenon DEF TypeOK
  <2>2. CASE m.type = "monitor"
    <3>1. PICK n \in Int, o \in Actors : n = downs[o][a] + 1 /\ o = m.observer
      <4>1. PICK o \in Actors, d \in Int : o = m.observer /\ d = downs[o][a]
        BY <1>4, <2>1, Zenon
      <4>2. d + 1 \in Int
        OBVIOUS
      <4> QED
        BY <4>1, <4>2, Zenon
    <3>2. \A x, y \in Actors : [downs EXCEPT ![o][a] = n][x][y] =
                               IF x = o /\ y = a THEN n ELSE downs[x][y]
      BY <2>1, TableUpdate, SMTT(30)
    <3>3. downs' = [downs EXCEPT ![o][a] = n]
      BY <1>2, <2>2, <3>1, Zenon
    <3>4. \A x, y \in Actors : downs'[x][y] = IF x = o /\ y = a THEN n ELSE downs[x][y]
      BY <3>2, <3>3, Zenon
    <3>5. \A x \in Actors : m = Monitor(x) <=> x = o
      BY <1>4, <2>2, <3>1, Zenon
    <3>6. \A x, y \in Actors : downs'[x][y] = downs[x][y] + (IF x = o /\ y = a THEN 1 ELSE 0)
      <4>1. \A x, y \in Actors : x = o /\ y = a => downs'[x][y] = downs[x][y] + 1
        BY <3>1, <3>4, Zenon
      <4>2. \A x, y \in Actors : ~(x = o /\ y = a) => downs'[x][y] = downs[x][y]
        BY <3>4, Zenon
      <4> QED
        BY <2>1, <4>1, <4>2, SMTT(40)
    <3> QED
      BY <3>5, <3>6, Zenon
  <2>3. CASE m.type # "monitor"
    BY <1>2, <1>4, <2>1, <2>3
  <2> QED
    BY <2>2, <2>3, Zenon
<1>6. Balanced
  <2> SUFFICES ASSUME NEW x \in Actors, NEW y \in Actors PROVE BalancedAt(x, y)
    BY Zenon DEF Balanced
  <2>1. /\ Count(attached[y], Monitor(x)) \in Nat
        /\ Count(todo[y], Monitor(x)) \in Nat
        /\ Occurrences(late[x], DownsOf(y)) \in Nat
        /\ downs[x][y] \in Int /\ monitors[x][y] \in Int
    BY Numbers, Zenon
  <2>2. Count(l, Monitor(x)) \in Nat
    BY CountType, Zenon
  <2>3. CASE y = a
    <3>1. /\ Count(todo[y], Monitor(x)) = Count(todo'[y], Monitor(x)) + (IF m = Monitor(x) THEN 1 ELSE 0)
          /\ downs'[x][y] = downs[x][y] + (IF m = Monitor(x) THEN 1 ELSE 0)
          /\ Count(todo'[y], Monitor(x)) \in Nat
      BY <1>1, <1>3, <1>5, <2>2, <2>3, Zenon
    <3>2. PICK k \in {0, 1} : /\ Count(todo[y], Monitor(x)) = Count(todo'[y], Monitor(x)) + k
                              /\ downs'[x][y] = downs[x][y] + k
      BY <3>1, Zenon
    <3>3. /\ monitors'[x][y] = monitors[x][y]
          /\ Count(attached'[y], Monitor(x)) = Count(attached[y], Monitor(x))
          /\ Occurrences(late'[x], DownsOf(y)) = Occurrences(late[x], DownsOf(y))
      BY <1>2, Zenon
    <3> HIDE DEF IInv
    <3>4. PICK n \in Int, c \in Int, t1 \in Int, late1 \in Int, d \in Int :
            /\ n = monitors[x][y] /\ c = Count(attached[y], Monitor(x))
            /\ t1 = Count(todo'[y], Monitor(x)) /\ late1 = Occurrences(late[x], DownsOf(y))
            /\ d = downs[x][y]
      BY <2>1, <3>1, SMTT(40)
    <3>5. n - n = (c - c) + (t1 - (t1 + k)) + (late1 - late1) + ((d + k) - d)
      OBVIOUS
    <3> QED
      BY <3>2, <3>3, <3>4, <3>5, Zenon DEF BalancedAt
  <2>4. CASE y # a
    BY <1>2, <1>3, <1>5, <2>1, <2>4 DEF BalancedAt
  <2> QED
    BY <2>3, <2>4, Zenon
<1>7. LinksHaveTwoEnds' /\ OneLate'
  BY <1>2, Zenon DEF LinksHaveTwoEnds, OneLate, Terminated
<1>8. CleanupOnly'
  BY <1>2, <1>3, Zenon DEF CleanupOnly
<1> QED
  BY <1>6, <1>7, <1>8, Balance, Zenon

\* Initially there is nothing on any list.
LEMMA InitInv == Init => IInv
<1> SUFFICES ASSUME Init PROVE IInv
  BY Zenon
<1>1. TypeOK
  BY DEF Init, TypeOK, Reason
<1>2. CleanupOnly /\ OneLate
  BY Zenon DEF Init, CleanupOnly, OneLate
<1>3. \A x \in Actors : /\ attached[x] = <<>> /\ todo[x] = <<>> /\ late[x] = <<>>
                        /\ \A y \in Actors : monitors[x][y] = 0 /\ downs[x][y] = 0
  BY Zenon DEF Init
<1>4. LinksHaveTwoEnds
  BY <1>3, CountEmpty DEF LinksHaveTwoEnds
<1>5. OneDownPerMonitor
  BY <1>3, CountEmpty, OccEmpty DEF OneDownPerMonitor
<1> QED
  BY <1>1, <1>2, <1>4, <1>5, Zenon DEF IInv

\* Every step preserves the invariant.
LEMMA StepInv == IInv /\ [Next]_vars => IInv'
<1> SUFFICES ASSUME IInv, [Next]_vars PROVE IInv'
  BY Zenon
<1>0. TypeOK'
  BY StepType, Zenon
<1>1. ASSUME NEW a \in Actors, NEW b \in Actors, Call(a, b) PROVE IInv'
  <2>1. CASE LinkTo(a, b)
    BY <1>0, <2>1, LinkStep, Zenon
  <2>2. CASE UnlinkFrom(a, b)
    <3>1. attached' = Unlinked(a, b) /\ UNCHANGED <<phase, todo, late, monitors, downs>>
      BY <2>2, Zenon DEF UnlinkFrom
    <3> QED
      BY <1>0, <3>1, UnlinkStep, Zenon DEF Terminated
  <2>3. CASE MonitorActor(a, b)
    BY <1>0, <2>3, MonitorStep, Zenon
  <2>4. CASE Demonitor(a, b)
    BY <1>0, <2>4, DemonitorStep, Zenon
  <2>5. ASSUME NEW r \in SendReasons, SendExit(a, b, r) PROVE IInv'
    BY <1>0, <2>5, OtherStep, Zenon DEF SendExit, Terminated
  <2> QED
    BY <1>1, <2>1, <2>2, <2>3, <2>4, <2>5, Zenon DEF Call
<1>2. ASSUME NEW a \in Actors, NEW r \in QuitReasons, Quit(a, r) PROVE IInv'
  BY <1>0, <1>2, OtherStep, Zenon DEF Quit, Close, Terminated, IInv, TypeOK
<1>3. ASSUME NEW a \in Actors, Work(a) PROVE IInv'
  <2>1. CASE AttachLate(a)
    BY <1>0, <2>1, LateStep, Zenon
  <2>2. CASE HandleExit(a)
    <3>1. PICK b \in Actors : attached' = Unlinked(a, b)
      <4>1. mailbox[a] \in Seq(SysMsg) /\ mailbox[a] # <<>>
        BY <2>2, Zenon DEF HandleExit, IInv, TypeOK
      <4>2. PICK m \in SysMsg : m = Head(mailbox[a])
        BY <4>1, HeadTailProperties, Zenon
      <4>3. attached' = Unlinked(a, m.source) /\ m.source \in Actors
        BY <2>2, <4>2, Zenon DEF HandleExit, SysMsg
      <4> QED
        BY <4>3, Zenon
    <3>2. UNCHANGED <<todo, late, monitors, downs>>
      BY <2>2, Zenon DEF HandleExit
    <3>3. phase' = phase \/ (phase[a] = "alive" /\ phase' = [phase EXCEPT ![a] = "closed"])
      BY <2>2, Zenon DEF HandleExit, Close
    <3>4. \A x \in Actors : /\ phase[x] = "notify" <=> phase'[x] = "notify"
                            /\ Terminated(x) <=> Terminated(x)'
      BY <3>3, Zenon DEF Terminated, IInv, TypeOK
    <3> QED
      BY <1>0, <3>1, <3>2, <3>4, UnlinkStep, Zenon
  <2>3. CASE HandleDown(a)
    BY <1>0, <2>3, OtherStep, Zenon DEF HandleDown, Terminated
  <2>4. CASE Cleanup(a)
    BY <1>0, <2>4, CleanupStep, Zenon
  <2>5. CASE ActorExited(a)
    BY <1>0, <2>5, ExitedStep, Zenon
  <2>6. CASE CleanupDone(a)
    <3>1. /\ UNCHANGED <<attached, todo, late, monitors, downs>> /\ todo[a] = <<>>
          /\ phase[a] = "notify" /\ phase' = [phase EXCEPT ![a] = "dead"]
      BY <2>6, Zenon DEF CleanupDone
    <3>2. \A x \in Actors : /\ Terminated(x)' <=> Terminated(x)
                            /\ phase'[x] = "notify" <=> phase[x] = "notify" /\ x # a
      BY <3>1, Zenon DEF Terminated, IInv, TypeOK
    <3>3. CleanupOnly' /\ OneLate'
      BY <3>1, <3>2, Zenon DEF IInv, CleanupOnly, OneLate
    <3>4. LinksHaveTwoEnds' /\ OneDownPerMonitor'
      BY <3>1, <3>2, Zenon DEF IInv, LinksHaveTwoEnds, OneDownPerMonitor
    <3> QED
      BY <1>0, <3>3, <3>4, Zenon DEF IInv
  <2> QED
    BY <1>3, <2>1, <2>2, <2>3, <2>4, <2>5, <2>6, Zenon DEF Work
<1>4. CASE UNCHANGED vars
  BY <1>0, <1>4, OtherStep, Zenon DEF vars, Terminated
<1> QED
  BY <1>1, <1>2, <1>3, <1>4, Zenon DEF Next

-----------------------------------------------------------------------------
(* The theorems. *)

\* What the calls and the messages of actors leave behind, whoever terminates
\* when and however often they link and monitor: the inductive invariant.
THEOREM Invariant == Spec => []IInv
<1>1. Init => IInv
  BY InitInv, Zenon
<1>2. IInv /\ [Next]_vars => IInv'
  BY StepInv, Zenon
<1> QED
  BY <1>1, <1>2, PTL DEF Spec

\* add_link and remove_link change both ends of a link or none, so as long as
\* both actors can be told, each has the other on its list, and only once.
THEOREM BothEndsOrNone == Spec => []LinksHaveTwoEnds
<1>1. IInv => LinksHaveTwoEnds
  BY Zenon DEF IInv
<1> QED
  BY <1>1, Invariant, PTL

\* A call of monitor that was not undone leads to one down message, also if the
\* actor terminates while attach runs: none gets lost, none is sent twice.
THEOREM MonitorFiresOnce == Spec => []OneDownPerMonitor
<1>1. IInv => OneDownPerMonitor
  BY Zenon DEF IInv
<1> QED
  BY <1>1, Invariant, PTL
=============================================================================
