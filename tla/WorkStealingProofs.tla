------------------------- MODULE WorkStealingProofs -------------------------
(***************************************************************************)
(* The scheduler neither loses nor duplicates a job, for any number of     *)
(* workers, jobs and threads.                                              *)
(***************************************************************************)
EXTENDS WorkStealing, ListLemmas

-----------------------------------------------------------------------------
(* The inductive invariant. *)

Job == Jobs \cup {Helper, None}

TypeOK ==
  /\ queue \in [Workers -> Seq(Job)]
  /\ wpc \in [Workers -> {"poll", "steal", "relax", "wait", "woken", "timeout",
                          "take", "raid", "run", "swing", "left"}]
  /\ job \in [Workers -> Job]
  /\ idle \in SUBSET Jobs
  /\ cpc \in [Threads -> {"idle", "link", "swing", "notify"}]
  /\ dest \in [Threads -> Workers]
  /\ carry \in [Threads -> Job]
  /\ next_worker \in Workers
  /\ alive \in SUBSET Workers
  /\ cleaned \in SUBSET Job

\* A worker that looks for a job has none, a thread that is not about to append
\* carries none, and stop carries no job but its helper.
HandsFree ==
  /\ \A w \in Workers : wpc[w] # "run" => job[w] = None
  /\ \A c \in Threads : cpc[c] # "link" => carry[c] = None
  /\ carry[Stopper] \in {Helper, None}

\* How often a job is in a queue.
Count(s, j) == Occurrences(s, {j})

\* Who has a job: queues, workers and threads on the way to a queue.
Queues(j)   == {w \in Workers : Count(queue[w], j) # 0}
Runners(j)  == {w \in Workers : job[w] = j}
Carriers(j) == {c \in Threads : carry[c] = j}

Free(j) == Queues(j) = {} /\ Runners(j) = {} /\ Carriers(j) = {}
Held(j) == \/ \E w \in Workers : Queues(j) = {w} /\ Runners(j) = {} /\ Carriers(j) = {}
           \/ \E w \in Workers : Queues(j) = {} /\ Runners(j) = {w} /\ Carriers(j) = {}
           \/ \E c \in Threads : Queues(j) = {} /\ Runners(j) = {} /\ Carriers(j) = {c}

\* A queue has a job once at most.
OnceInQueue ==
  \A j \in Jobs : \A w \in Workers : Count(queue[w], j) \in {0, 1}

\* A ready job has one holder, any other job none.
OneHolder ==
  /\ idle \cap cleaned = {}
  /\ \A j \in Jobs : IF j \in idle \cup cleaned THEN Free(j) ELSE Held(j)

IInv == TypeOK /\ HandsFree /\ OnceInQueue /\ OneHolder

-----------------------------------------------------------------------------
(* Queues. *)

\* The new content of a queue has x once more, and as often as before whatever
\* else it has.
Adds(s, t, x) == \A j \in Jobs : Count(t, j) = Count(s, j) + (IF x = j THEN 1 ELSE 0)

\* append, at the tail.
LEMMA AppendAdds ==
  ASSUME NEW s \in Seq(Job), NEW x \in Job
  PROVE  Append(s, x) \in Seq(Job) /\ Adds(s, Append(s, x), x)
<1>1. ASSUME NEW j \in Jobs
      PROVE  Occurrences(Append(s, x), {j}) = Occurrences(s, {j}) + (IF x = j THEN 1 ELSE 0)
  <2>1. Occurrences(Append(s, x), {j}) = Occurrences(s, {j}) + (IF x \in {j} THEN 1 ELSE 0)
    BY OccAppend, Zenon
  <2>2. x \in {j} <=> x = j
    BY Zenon
  <2> QED
    BY <2>1, <2>2, Zenon
<1> QED
  BY <1>1 DEF Adds, Count

\* prepend, at the head.
LEMMA PrependAdds ==
  ASSUME NEW s \in Seq(Job), NEW x \in Job
  PROVE  <<x>> \o s \in Seq(Job) /\ Adds(s, <<x>> \o s, x)
<1>1. ASSUME NEW j \in Jobs
      PROVE  Occurrences(<<x>> \o s, {j}) = Occurrences(s, {j}) + (IF x = j THEN 1 ELSE 0)
  <2>1. Occurrences(<<x>> \o s, {j}) = Occurrences(s, {j}) + (IF x \in {j} THEN 1 ELSE 0)
    BY OccCons, Zenon
  <2>2. x \in {j} <=> x = j
    BY Zenon
  <2> QED
    BY <2>1, <2>2, Zenon
<1> QED
  BY <1>1 DEF Adds, Count

\* take_head, the inverse of prepend.
LEMMA HeadRemoves ==
  ASSUME NEW s \in Seq(Job), s # <<>>
  PROVE  Head(s) \in Job /\ Tail(s) \in Seq(Job) /\ Adds(Tail(s), s, Head(s))
<1>1. Head(s) \in Job /\ Tail(s) \in Seq(Job)
  BY HeadTailProperties, Zenon
<1>2. ASSUME NEW j \in Jobs
      PROVE  Occurrences(s, {j}) = Occurrences(Tail(s), {j}) + (IF Head(s) = j THEN 1 ELSE 0)
  <2>1. Occurrences(s, {j}) = Occurrences(Tail(s), {j}) + (IF Head(s) \in {j} THEN 1 ELSE 0)
    BY OccTail, Zenon
  <2>2. Head(s) \in {j} <=> Head(s) = j
    BY Zenon
  <2> QED
    BY <2>1, <2>2, Zenon
<1> QED
  BY <1>1, <1>2, Zenon DEF Adds, Count

\* take_tail, the inverse of append.
LEMMA LastRemoves ==
  ASSUME NEW s \in Seq(Job), s # <<>>
  PROVE  /\ s[Len(s)] \in Job /\ SubSeq(s, 1, Len(s) - 1) \in Seq(Job)
         /\ Adds(SubSeq(s, 1, Len(s) - 1), s, s[Len(s)])
<1>1. PICK u, x : u = SubSeq(s, 1, Len(s) - 1) /\ x = s[Len(s)]
  BY Zenon
<1>2. /\ x \in Job /\ u \in Seq(Job)
      /\ \A T : Occurrences(s, T) = Occurrences(u, T) + (IF x \in T THEN 1 ELSE 0)
  BY <1>1, OccFront
<1>3. ASSUME NEW j \in Jobs
      PROVE  Occurrences(s, {j}) = Occurrences(u, {j}) + (IF x = j THEN 1 ELSE 0)
  <2>1. Occurrences(s, {j}) = Occurrences(u, {j}) + (IF x \in {j} THEN 1 ELSE 0)
    BY <1>2, Zenon
  <2>2. x \in {j} <=> x = j
    BY Zenon
  <2> QED
    BY <2>1, <2>2, Zenon
<1> QED
  BY <1>1, <1>2, <1>3, Zenon DEF Adds, Count

\* Putting a job that is in no queue into one.
LEMMA PutIn ==
  ASSUME TypeOK, OnceInQueue, NEW w \in Workers, NEW t \in Seq(Job), NEW x \in Job,
         Adds(queue[w], t, x), queue' = [queue EXCEPT ![w] = t],
         x \in Jobs => Queues(x) = {}
  PROVE  /\ queue' \in [Workers -> Seq(Job)]
         /\ OnceInQueue'
         /\ \A j \in Jobs : Queues(j)' = IF j = x THEN {w} ELSE Queues(j)
<1>1. queue' \in [Workers -> Seq(Job)] /\ queue'[w] = t
      /\ \A v \in Workers \ {w} : queue'[v] = queue[v]
  BY Zenon DEF TypeOK
<1>2. ASSUME NEW j \in Jobs
      PROVE  /\ \A v \in Workers : Count(queue'[v], j) \in {0, 1}
             /\ Queues(j)' = IF j = x THEN {w} ELSE Queues(j)
  <2>1. Count(t, j) = Count(queue[w], j) + (IF x = j THEN 1 ELSE 0)
    BY Zenon DEF Adds
  <2>2. \A v \in Workers : Count(queue[v], j) \in {0, 1}
    BY Zenon DEF OnceInQueue
  <2>3. j = x => \A v \in Workers : Count(queue[v], j) = 0
    BY Zenon DEF Queues
  <2>4. \A v \in Workers :
          Count(queue'[v], j) = IF j = x /\ v = w THEN 1 ELSE Count(queue[v], j)
    <3>1. CASE j = x
      <4>1. Count(queue'[w], j) = 1
        BY <1>1, <2>1, <2>3, <3>1
      <4> QED
        BY <1>1, <2>3, <3>1, <4>1, Zenon
    <3>2. CASE j # x
      <4>1. Count(queue'[w], j) = Count(queue[w], j)
        BY <1>1, <2>1, <2>2, <3>2
      <4> QED
        BY <1>1, <3>2, <4>1, Zenon
    <3> QED
      BY <3>1, <3>2, Zenon
  <2>5. \A v \in Workers : Count(queue'[v], j) \in {0, 1}
    BY <2>2, <2>4, Zenon
  <2>6. CASE j = x
    BY <2>3, <2>4, <2>5, <2>6 DEF Queues
  <2>7. CASE j # x
    BY <2>4, <2>5, <2>7, Zenon DEF Queues
  <2> QED
    BY <2>6, <2>7, Zenon
<1> QED
  BY <1>1, <1>2, Zenon DEF OnceInQueue

\* Taking a job out of a queue, which does not have it twice.
LEMMA TakeOut ==
  ASSUME TypeOK, OnceInQueue, NEW w \in Workers, NEW t \in Seq(Job), NEW x \in Job,
         Adds(t, queue[w], x), queue' = [queue EXCEPT ![w] = t]
  PROVE  /\ queue' \in [Workers -> Seq(Job)]
         /\ OnceInQueue'
         /\ \A j \in Jobs : Queues(j)' = IF j = x THEN Queues(j) \ {w} ELSE Queues(j)
         /\ x \in Jobs => w \in Queues(x)
<1>1. queue' \in [Workers -> Seq(Job)] /\ queue'[w] = t
      /\ \A v \in Workers \ {w} : queue'[v] = queue[v]
  BY Zenon DEF TypeOK
<1>2. ASSUME NEW j \in Jobs
      PROVE  /\ \A v \in Workers : Count(queue'[v], j) \in {0, 1}
             /\ Queues(j)' = IF j = x THEN Queues(j) \ {w} ELSE Queues(j)
             /\ j = x => w \in Queues(j)
  <2>1. Count(queue[w], j) = Count(t, j) + (IF x = j THEN 1 ELSE 0)
    BY Zenon DEF Adds
  <2>2. \A v \in Workers : Count(queue[v], j) \in {0, 1}
    BY Zenon DEF OnceInQueue
  <2>3. Count(t, j) \in Nat
    BY OccType, Zenon DEF Count
  <2>4. /\ \A v \in Workers :
             Count(queue'[v], j) = IF j = x /\ v = w THEN 0 ELSE Count(queue[v], j)
        /\ j = x => Count(queue[w], j) = 1
    <3>1. CASE j = x
      <4>1. Count(queue'[w], j) = 0 /\ Count(queue[w], j) = 1
        BY <1>1, <2>1, <2>2, <2>3, <3>1
      <4> QED
        BY <1>1, <3>1, <4>1, Zenon
    <3>2. CASE j # x
      <4>1. Count(queue'[w], j) = Count(queue[w], j)
        BY <1>1, <2>1, <2>3, <3>2
      <4> QED
        BY <1>1, <3>2, <4>1, Zenon
    <3> QED
      BY <3>1, <3>2, Zenon
  <2>5. \A v \in Workers : Count(queue'[v], j) \in {0, 1}
    BY <2>2, <2>4, Zenon
  <2>6. CASE j = x
    BY <2>4, <2>5, <2>6 DEF Queues
  <2>7. CASE j # x
    BY <2>4, <2>5, <2>7, Zenon DEF Queues
  <2> QED
    BY <2>6, <2>7, Zenon
<1> QED
  BY <1>1, <1>2, Zenon DEF OnceInQueue

-----------------------------------------------------------------------------
(* Holders. *)

\* A worker gets the job x or, if x is None, gives its job up.
LEMMA WorkerGets ==
  ASSUME TypeOK, NEW w \in Workers, NEW x \in Job, job' = [job EXCEPT ![w] = x]
  PROVE  /\ job' \in [Workers -> Job]
         /\ \A j \in Jobs : Runners(j)' = IF j = x THEN Runners(j) \cup {w} ELSE Runners(j) \ {w}
<1>1. /\ job' \in [Workers -> Job] /\ job'[w] = x
      /\ \A v \in Workers \ {w} : job'[v] = job[v]
  BY Zenon DEF TypeOK
<1>2. ASSUME NEW j \in Jobs, j = x PROVE Runners(j)' = Runners(j) \cup {w}
  BY <1>1, <1>2, Zenon DEF Runners
<1>3. ASSUME NEW j \in Jobs, j # x PROVE Runners(j)' = Runners(j) \ {w}
  BY <1>1, <1>3, Zenon DEF Runners
<1> QED
  BY <1>1, <1>2, <1>3, Zenon

\* The same for a thread outside of the scheduler.
LEMMA ThreadGets ==
  ASSUME TypeOK, NEW c \in Threads, NEW x \in Job, carry' = [carry EXCEPT ![c] = x]
  PROVE  /\ carry' \in [Threads -> Job]
         /\ \A j \in Jobs : Carriers(j)' = IF j = x THEN Carriers(j) \cup {c} ELSE Carriers(j) \ {c}
<1>1. /\ carry' \in [Threads -> Job] /\ carry'[c] = x
      /\ \A t \in Threads \ {c} : carry'[t] = carry[t]
  BY Zenon DEF TypeOK
<1>2. ASSUME NEW j \in Jobs, j = x PROVE Carriers(j)' = Carriers(j) \cup {c}
  BY <1>1, <1>2, Zenon DEF Carriers
<1>3. ASSUME NEW j \in Jobs, j # x PROVE Carriers(j)' = Carriers(j) \ {c}
  BY <1>1, <1>3, Zenon DEF Carriers
<1> QED
  BY <1>1, <1>2, <1>3, Zenon

\* Job j stays where it is.
Stays(j) == /\ Queues(j)' = Queues(j) /\ Runners(j)' = Runners(j) /\ Carriers(j)' = Carriers(j)
            /\ j \in idle' \cup cleaned' <=> j \in idle \cup cleaned

\* Job j is where the invariant allows it to be.
Placed(j) == IF j \in idle \cup cleaned THEN Free(j) ELSE Held(j)

\* A step that moves one job, or none.
LEMMA OneMoves ==
  ASSUME OneHolder, NEW x, \A j \in Jobs : j # x => Stays(j),
         x \in Jobs => Placed(x)', idle' \cap cleaned' = {}
  PROVE  OneHolder'
<1>1. ASSUME NEW j \in Jobs, Stays(j) PROVE Placed(j)'
  <2>1. Placed(j)
    BY Zenon DEF OneHolder, Placed
  <2> QED
    BY <1>1, <2>1, Zenon DEF Placed, Stays, Free, Held
<1>2. \A j \in Jobs : Placed(j)'
  BY <1>1, Zenon
<1> QED
  BY <1>2, Zenon DEF OneHolder, Placed

\* Steps that do not touch jobs.
LEMMA NoneMoves ==
  ASSUME IInv, UNCHANGED <<queue, job, carry, idle, cleaned>>
  PROVE  OnceInQueue' /\ OneHolder'
<1>1. OnceInQueue'
  BY Zenon DEF IInv, OnceInQueue
<1>2. \A j \in Jobs : Stays(j)
  BY Zenon DEF Stays, Queues, Runners, Carriers
<1>3. idle' \cap cleaned' = {}
  BY Zenon DEF IInv, OneHolder
<1>4. Helper \notin Jobs
  BY StealingConstants, Zenon
<1> QED
  BY <1>1, <1>2, <1>3, <1>4, OneMoves, Zenon DEF IInv

\* The place of a job that a queue, a worker or a thread has.
LEMMA HeldBy ==
  ASSUME OneHolder, NEW j \in Jobs
  PROVE  /\ \A w \in Workers : w \in Queues(j) =>
              Queues(j) = {w} /\ Runners(j) = {} /\ Carriers(j) = {} /\ j \notin idle \cup cleaned
         /\ \A w \in Workers : w \in Runners(j) =>
              Queues(j) = {} /\ Runners(j) = {w} /\ Carriers(j) = {} /\ j \notin idle \cup cleaned
         /\ \A c \in Threads : c \in Carriers(j) =>
              Queues(j) = {} /\ Runners(j) = {} /\ Carriers(j) = {c} /\ j \notin idle \cup cleaned
         /\ j \in idle => Free(j) /\ j \notin cleaned
<1>1. Placed(j)
  BY Zenon DEF OneHolder, Placed
<1>2. CASE j \in idle \cup cleaned
  BY <1>1, <1>2, Zenon DEF Placed, Free, OneHolder
<1>3. CASE j \notin idle \cup cleaned
  BY <1>1, <1>3, Zenon DEF Placed, Held
<1> QED
  BY <1>2, <1>3, Zenon

-----------------------------------------------------------------------------
(* The steps. *)

\* append on behalf of a thread outside of the scheduler.
LEMMA EnqueueLinkStep ==
  ASSUME IInv, NEW c \in Threads, EnqueueLink(c)
  PROVE  IInv'
<1> USE DEF IInv
<1>0. /\ cpc[c] = "link" /\ cpc' = [cpc EXCEPT ![c] = "swing"]
      /\ carry' = [carry EXCEPT ![c] = None]
      /\ UNCHANGED <<wpc, job, idle, dest, next_worker, alive, cleaned>>
  BY Zenon DEF EnqueueLink, stopVars
<1>1. PICK w \in Workers, x \in Job : w = dest[c] /\ x = carry[c]
  BY Zenon DEF TypeOK
<1>2. queue[w] \in Seq(Job) /\ queue' = [queue EXCEPT ![w] = Append(queue[w], x)] /\ None \in Job
  BY <1>1, Zenon DEF EnqueueLink, Link, TypeOK, Job
<1>3. x \in Jobs => Queues(x) = {} /\ Runners(x) = {} /\ Carriers(x) = {c} /\ x \notin idle \cup cleaned
  <2>1. c \in Carriers(x)
    BY <1>1, Zenon DEF Carriers
  <2> QED
    BY <2>1, HeldBy, Zenon
<1>4. /\ queue' \in [Workers -> Seq(Job)] /\ OnceInQueue'
      /\ \A j \in Jobs : Queues(j)' = IF j = x THEN {w} ELSE Queues(j)
  <2>1. PICK t \in Seq(Job) : t = Append(queue[w], x) /\ Adds(queue[w], t, x)
    BY <1>2, AppendAdds, Zenon
  <2> QED
    BY <1>2, <1>3, <2>1, PutIn, Zenon
<1>5. /\ carry' \in [Threads -> Job]
      /\ \A j \in Jobs : Carriers(j)' = Carriers(j) \ {c}
  BY <1>0, <1>2, ThreadGets, StealingConstants, ZenonT(60)
<1>6. \A j \in Jobs : Runners(j)' = Runners(j)
  BY <1>0, Zenon DEF Runners
<1>7. \A j \in Jobs : j # x => Stays(j)
  <2>1. \A j \in Jobs : j # x => c \notin Carriers(j)
    BY <1>1, Zenon DEF Carriers
  <2> QED
    BY <1>0, <1>4, <1>5, <1>6, <2>1, Zenon DEF Stays
<1>8. x \in Jobs => Placed(x)'
  BY <1>0, <1>3, <1>4, <1>5, <1>6, Zenon DEF Placed, Held
<1>9. OneHolder'
  BY <1>0, <1>7, <1>8, OneMoves, Zenon DEF OneHolder
<1>10. TypeOK'
  BY <1>0, <1>4, <1>5, Zenon DEF TypeOK
<1>11. HandsFree'
  BY <1>0 DEF HandsFree, TypeOK
<1> QED
  BY <1>4, <1>9, <1>10, <1>11, Zenon

\* central_enqueue.
LEMMA CentralEnqueueStep ==
  ASSUME IInv, NEW c \in Clients, NEW x \in Jobs, CentralEnqueue(c, x)
  PROVE  IInv'
<1> USE DEF IInv
<1>0. /\ cpc[c] = "idle" /\ cpc' = [cpc EXCEPT ![c] = "link"]
      /\ carry' = [carry EXCEPT ![c] = x] /\ idle' = idle \ {x} /\ x \in idle
      /\ dest' = [dest EXCEPT ![c] = next_worker] /\ next_worker' = (next_worker + 1) % N
      /\ UNCHANGED <<wpc, job, queue, alive, cleaned>>
  BY Zenon DEF CentralEnqueue, stopVars
<1>1. c \in Threads /\ c # Stopper /\ x \in Job
  BY StealingConstants, Zenon DEF Threads, Job
<1>2. carry[c] = None
  BY <1>0, <1>1, Zenon DEF HandsFree
<1>3. Free(x) /\ x \notin cleaned
  BY <1>0, HeldBy, Zenon
<1>4. /\ carry' \in [Threads -> Job]
      /\ \A j \in Jobs : Carriers(j)' = IF j = x THEN Carriers(j) \cup {c} ELSE Carriers(j) \ {c}
  BY <1>0, <1>1, ThreadGets, Zenon
<1>5. \A j \in Jobs : Runners(j)' = Runners(j) /\ Queues(j)' = Queues(j)
  BY <1>0, Zenon DEF Runners, Queues
<1>6. \A j \in Jobs : j # x => Stays(j)
  <2>1. \A j \in Jobs : c \notin Carriers(j)
    BY <1>2, StealingConstants, Zenon DEF Carriers
  <2> QED
    BY <1>0, <1>4, <1>5, <2>1, Zenon DEF Stays
<1>7. Placed(x)'
  <2>1. Carriers(x)' = {c}
    BY <1>3, <1>4, Zenon DEF Free
  <2> QED
    BY <1>0, <1>1, <1>3, <1>5, <2>1, Zenon DEF Placed, Held, Free
<1>8. OneHolder'
  BY <1>0, <1>6, <1>7, OneMoves, Zenon DEF OneHolder
<1>9. TypeOK'
  <2>1. next_worker' \in Workers
    BY <1>0, StealingConstants DEF TypeOK, Workers
  <2> QED
    BY <1>0, <1>1, <1>4, <2>1, Zenon DEF TypeOK
<1>10. HandsFree'
  BY <1>0, <1>1 DEF HandsFree, TypeOK
<1>11. OnceInQueue'
  BY <1>0, Zenon DEF OnceInQueue
<1> QED
  BY <1>8, <1>9, <1>10, <1>11, Zenon

\* A worker takes a job out of its own queue or that of another worker.
LEMMA TakeStep ==
  ASSUME IInv, NEW w \in Workers, NEW v \in Workers, NEW x \in Job, NEW t \in Seq(Job),
         wpc[w] # "run", Adds(t, queue[v], x), queue' = [queue EXCEPT ![v] = t],
         job' = [job EXCEPT ![w] = x], wpc' = [wpc EXCEPT ![w] = "run"],
         UNCHANGED <<idle, cpc, dest, carry, next_worker, alive, cleaned>>
  PROVE  IInv'
<1> USE DEF IInv
<1>1. job[w] = None
  BY Zenon DEF HandsFree
<1>2. /\ queue' \in [Workers -> Seq(Job)] /\ OnceInQueue'
      /\ \A j \in Jobs : Queues(j)' = IF j = x THEN Queues(j) \ {v} ELSE Queues(j)
      /\ x \in Jobs => v \in Queues(x)
  BY TakeOut, Zenon
<1>3. /\ job' \in [Workers -> Job]
      /\ \A j \in Jobs : Runners(j)' = IF j = x THEN Runners(j) \cup {w} ELSE Runners(j) \ {w}
  BY WorkerGets, Zenon
<1>4. \A j \in Jobs : Carriers(j)' = Carriers(j)
  BY Zenon DEF Carriers
<1>5. \A j \in Jobs : j # x => Stays(j)
  <2>1. \A j \in Jobs : w \notin Runners(j)
    BY <1>1, StealingConstants, Zenon DEF Runners
  <2>2. \A j \in Jobs : j # x => Runners(j)' = Runners(j)
    <3> SUFFICES ASSUME NEW j \in Jobs, j # x PROVE Runners(j)' = Runners(j)
      BY Zenon
    <3>1. Runners(j)' = Runners(j) \ {w}
      BY <1>3, Zenon
    <3>2. w \notin Runners(j)
      BY <2>1, Zenon
    <3> HIDE DEF IInv
    <3> QED
      BY <3>1, <3>2, Zenon
  <2>3. \A j \in Jobs : j # x => Queues(j)' = Queues(j)
    BY <1>2, Zenon
  <2> QED
    BY <1>4, <2>2, <2>3, Zenon DEF Stays
<1>6. ASSUME x \in Jobs PROVE Placed(x)'
  <2>1. Queues(x) = {v} /\ Runners(x) = {} /\ Carriers(x) = {} /\ x \notin idle \cup cleaned
    BY <1>2, <1>6, HeldBy, Zenon
  <2>2. Queues(x)' = {} /\ Runners(x)' = {w} /\ Carriers(x)' = {}
    BY <1>2, <1>3, <1>4, <1>6, <2>1, Zenon
  <2> QED
    BY <2>1, <2>2, Zenon DEF Placed, Held
<1>7. OneHolder'
  BY <1>5, <1>6, OneMoves, Zenon DEF OneHolder
<1>8. TypeOK'
  BY <1>2, <1>3, Zenon DEF TypeOK
<1>9. HandsFree'
  BY Zenon DEF HandsFree, TypeOK
<1> QED
  BY <1>2, <1>7, <1>8, <1>9, Zenon

\* internal_enqueue of a job that became ready.
LEMMA ExecLaterStep ==
  ASSUME IInv, NEW w \in Workers, NEW x \in Jobs, ExecLater(w, x)
  PROVE  IInv'
<1> USE DEF IInv
<1>0. /\ x \in idle /\ idle' = idle \ {x} /\ queue' = [queue EXCEPT ![w] = <<x>> \o queue[w]]
      /\ UNCHANGED <<wpc, job, cpc, dest, carry, next_worker, alive, cleaned>>
  BY Zenon DEF ExecLater, stopVars, clientVars
<1>1. x \in Job /\ queue[w] \in Seq(Job)
  BY Zenon DEF Job, TypeOK
<1>2. Free(x) /\ x \notin cleaned
  BY <1>0, HeldBy, Zenon
<1>3. /\ queue' \in [Workers -> Seq(Job)] /\ OnceInQueue'
      /\ \A j \in Jobs : Queues(j)' = IF j = x THEN {w} ELSE Queues(j)
  <2>1. PICK t \in Seq(Job) : t = <<x>> \o queue[w] /\ Adds(queue[w], t, x)
    BY <1>1, PrependAdds, Zenon
  <2>2. Queues(x) = {}
    BY <1>2, Zenon DEF Free
  <2>3. queue' = [queue EXCEPT ![w] = t]
    BY <1>0, <2>1, Zenon
  <2> QED
    BY <1>1, <2>1, <2>2, <2>3, PutIn, Zenon
<1>4. \A j \in Jobs : Runners(j)' = Runners(j) /\ Carriers(j)' = Carriers(j)
  BY <1>0, Zenon DEF Runners, Carriers
<1>5. \A j \in Jobs : j # x => Stays(j)
  BY <1>0, <1>3, <1>4, Zenon DEF Stays
<1>6. Placed(x)'
  BY <1>0, <1>2, <1>3, <1>4, Zenon DEF Placed, Held, Free
<1>7. OneHolder'
  BY <1>0, <1>5, <1>6, OneMoves, Zenon DEF OneHolder
<1>8. TypeOK'
  BY <1>0, <1>3, Zenon DEF TypeOK
<1>9. HandsFree'
  BY <1>0, Zenon DEF HandsFree
<1> QED
  BY <1>3, <1>7, <1>8, <1>9, Zenon

\* A worker drops a job that waits for a message.
LEMMA AwaitingStep ==
  ASSUME IInv, NEW w \in Workers, Awaiting(w)
  PROVE  IInv'
<1> USE DEF IInv
<1>0. PICK x \in Jobs : x = job[w]
  BY Zenon DEF Awaiting
<1>1. /\ idle' = idle \cup {x} /\ job' = [job EXCEPT ![w] = None] /\ wpc' = [wpc EXCEPT ![w] = "poll"]
      /\ UNCHANGED <<queue, cpc, dest, carry, next_worker, alive, cleaned>>
  BY <1>0, Zenon DEF Awaiting, Goto, stopVars, clientVars
<1>2. Queues(x) = {} /\ Runners(x) = {w} /\ Carriers(x) = {} /\ x \notin idle \cup cleaned
  <2>1. w \in Runners(x)
    BY <1>0, Zenon DEF Runners
  <2> QED
    BY <2>1, HeldBy, Zenon
<1>3. /\ job' \in [Workers -> Job]
      /\ \A j \in Jobs : Runners(j)' = Runners(j) \ {w}
  <2>1. None \in Job /\ None \notin Jobs
    BY StealingConstants, Zenon DEF Job
  <2> QED
    BY <1>1, <2>1, WorkerGets, ZenonT(60)
<1>4. \A j \in Jobs : Queues(j)' = Queues(j) /\ Carriers(j)' = Carriers(j)
  BY <1>1, Zenon DEF Queues, Carriers
<1>5. \A j \in Jobs : j # x => Stays(j)
  <2>1. \A j \in Jobs : j # x => w \notin Runners(j)
    BY <1>0, Zenon DEF Runners
  <2>2. \A j \in Jobs : j # x => Runners(j)' = Runners(j)
    BY <1>3, <2>1, Zenon
  <2> QED
    BY <1>1, <1>4, <2>2, Zenon DEF Stays
<1>6. Placed(x)'
  <2>1. Runners(x)' = {}
    BY <1>2, <1>3, Zenon
  <2> QED
    BY <1>1, <1>2, <1>4, <2>1, Zenon DEF Placed, Free
<1>7. OneHolder'
  BY <1>1, <1>2, <1>5, <1>6, OneMoves, Zenon DEF OneHolder
<1>8. TypeOK'
  BY <1>1, <1>3, Zenon DEF TypeOK
<1>9. HandsFree'
  BY <1>1, Zenon DEF HandsFree, TypeOK
<1>10. OnceInQueue'
  BY <1>1, Zenon DEF OnceInQueue
<1> QED
  BY <1>7, <1>8, <1>9, <1>10, Zenon

\* A worker puts the job it has run back into its queue.
LEMMA ResumeLaterStep ==
  ASSUME IInv, NEW w \in Workers, ResumeLater(w)
  PROVE  IInv'
<1> USE DEF IInv
<1>0. PICK x \in Jobs : x = job[w]
  BY Zenon DEF ResumeLater
<1>1. /\ queue' = [queue EXCEPT ![w] = Append(queue[w], x)]
      /\ job' = [job EXCEPT ![w] = None] /\ wpc' = [wpc EXCEPT ![w] = "swing"]
      /\ UNCHANGED <<idle, cpc, dest, carry, next_worker, alive, cleaned>>
  BY <1>0, Zenon DEF ResumeLater, Link, Goto, stopVars, clientVars
<1>2. Queues(x) = {} /\ Runners(x) = {w} /\ Carriers(x) = {} /\ x \notin idle \cup cleaned
  <2>1. w \in Runners(x)
    BY <1>0, Zenon DEF Runners
  <2> QED
    BY <2>1, HeldBy, Zenon
<1>3. /\ queue' \in [Workers -> Seq(Job)] /\ OnceInQueue'
      /\ \A j \in Jobs : Queues(j)' = IF j = x THEN {w} ELSE Queues(j)
  <2>1. queue[w] \in Seq(Job) /\ x \in Job
    BY Zenon DEF TypeOK, Job
  <2>2. PICK t \in Seq(Job) : t = Append(queue[w], x) /\ Adds(queue[w], t, x)
    BY <2>1, AppendAdds, Zenon
  <2>3. queue' = [queue EXCEPT ![w] = t]
    BY <1>1, <2>2, Zenon
  <2> QED
    BY <1>2, <2>1, <2>2, <2>3, PutIn, Zenon
<1>4. /\ job' \in [Workers -> Job]
      /\ \A j \in Jobs : Runners(j)' = Runners(j) \ {w}
  <2>1. None \in Job /\ None \notin Jobs
    BY StealingConstants, Zenon DEF Job
  <2> QED
    BY <1>1, <2>1, WorkerGets, ZenonT(60)
<1>5. \A j \in Jobs : Carriers(j)' = Carriers(j)
  BY <1>1, Zenon DEF Carriers
<1>6. \A j \in Jobs : j # x => Stays(j)
  <2>1. \A j \in Jobs : j # x => w \notin Runners(j)
    BY <1>0, Zenon DEF Runners
  <2>2. \A j \in Jobs : j # x => Runners(j)' = Runners(j)
    BY <1>4, <2>1, Zenon
  <2> QED
    BY <1>1, <1>3, <1>5, <2>2, Zenon DEF Stays
<1>7. Placed(x)'
  <2>1. Runners(x)' = {}
    BY <1>2, <1>4, Zenon
  <2> QED
    BY <1>1, <1>2, <1>3, <1>5, <2>1, Zenon DEF Placed, Held
<1>8. OneHolder'
  BY <1>1, <1>6, <1>7, OneMoves, Zenon DEF OneHolder
<1>9. TypeOK'
  BY <1>1, <1>3, <1>4, Zenon DEF TypeOK
<1>10. HandsFree'
  BY <1>1, Zenon DEF HandsFree, TypeOK
<1> QED
  BY <1>3, <1>8, <1>9, <1>10, Zenon

\* stop cleans up a job that was left in a queue.
LEMMA DrainStep ==
  ASSUME IInv, NEW v \in Workers, StopDrain(v)
  PROVE  IInv'
<1> USE DEF IInv
<1>0. queue[v] \in Seq(Job) /\ queue[v] # <<>>
  BY Zenon DEF StopDrain, TypeOK
<1>1. PICK x \in Job, t \in Seq(Job) : x = Head(queue[v]) /\ t = Tail(queue[v]) /\ Adds(t, queue[v], x)
  BY <1>0, HeadRemoves, Zenon
<1>2. /\ queue' = [queue EXCEPT ![v] = t] /\ cleaned' = cleaned \cup {x}
      /\ UNCHANGED <<wpc, job, idle, cpc, dest, carry, next_worker, alive>>
  BY <1>1, Zenon DEF StopDrain, clientVars
<1>3. /\ queue' \in [Workers -> Seq(Job)] /\ OnceInQueue'
      /\ \A j \in Jobs : Queues(j)' = IF j = x THEN Queues(j) \ {v} ELSE Queues(j)
      /\ x \in Jobs => v \in Queues(x)
  BY <1>1, <1>2, TakeOut, Zenon
<1>4. \A j \in Jobs : Runners(j)' = Runners(j) /\ Carriers(j)' = Carriers(j)
  BY <1>2, Zenon DEF Runners, Carriers
<1>5. \A j \in Jobs : j # x => Stays(j)
  BY <1>2, <1>3, <1>4, Zenon DEF Stays
<1>6. ASSUME x \in Jobs PROVE Placed(x)' /\ x \notin idle
  <2>1. Queues(x) = {v} /\ Runners(x) = {} /\ Carriers(x) = {} /\ x \notin idle \cup cleaned
    BY <1>3, <1>6, HeldBy, Zenon
  <2>2. Queues(x)' = {} /\ Runners(x)' = {} /\ Carriers(x)' = {}
    BY <1>3, <1>4, <1>6, <2>1, Zenon
  <2> QED
    BY <1>2, <2>1, <2>2, Zenon DEF Placed, Free
<1>7. idle' \cap cleaned' = {}
  <2>1. x \notin idle
    BY <1>6, Zenon DEF TypeOK
  <2> QED
    BY <1>2, <2>1, Zenon DEF OneHolder
<1>8. OneHolder'
  BY <1>5, <1>6, <1>7, OneMoves, Zenon
<1>9. TypeOK'
  BY <1>2, <1>3, Zenon DEF TypeOK
<1>10. HandsFree'
  BY <1>2, Zenon DEF HandsFree
<1> QED
  BY <1>3, <1>8, <1>9, <1>10, Zenon

\* The helper of stop is not a job: it may come and go.
LEMMA HelperStep ==
  ASSUME IInv, TypeOK', HandsFree', UNCHANGED <<queue, idle, cleaned>>,
         \A j \in Jobs : Runners(j)' = Runners(j) /\ Carriers(j)' = Carriers(j)
  PROVE  IInv'
<1>1. \A j \in Jobs : Stays(j)
  BY Zenon DEF Stays, Queues
<1>2. Helper \notin Jobs
  BY StealingConstants, Zenon
<1>3. OneHolder'
  BY <1>1, <1>2, OneMoves, Zenon DEF IInv, OneHolder
<1>4. OnceInQueue'
  BY Zenon DEF IInv, OnceInQueue
<1> QED
  BY <1>3, <1>4, Zenon DEF IInv

\* A worker resumes the helper.
LEMMA ShutdownStep ==
  ASSUME IInv, NEW w \in Workers, Shutdown(w)
  PROVE  IInv'
<1>1. /\ job[w] = Helper /\ job' = [job EXCEPT ![w] = None] /\ wpc' = [wpc EXCEPT ![w] = "left"]
      /\ UNCHANGED <<queue, idle, cpc, dest, carry, next_worker, alive, cleaned>>
  BY Zenon DEF Shutdown, Goto, clientVars
<1>2. None \in Job /\ None \notin Jobs /\ Helper \notin Jobs
  BY StealingConstants, Zenon DEF Job
<1>3. /\ job' \in [Workers -> Job]
      /\ \A j \in Jobs : Runners(j)' = Runners(j) \ {w}
  BY <1>1, <1>2, WorkerGets, Zenon DEF IInv
<1>4. \A j \in Jobs : Runners(j)' = Runners(j) /\ Carriers(j)' = Carriers(j)
  <2>1. \A j \in Jobs : w \notin Runners(j)
    BY <1>1, <1>2, Zenon DEF Runners
  <2> QED
    BY <1>1, <1>3, <2>1, Zenon DEF Carriers
<1>5. TypeOK'
  BY <1>1, <1>3, Zenon DEF IInv, TypeOK
<1>6. HandsFree'
  BY <1>1, Zenon DEF IInv, HandsFree, TypeOK
<1> QED
  BY <1>1, <1>4, <1>5, <1>6, HelperStep, Zenon

\* stop hands its helper to a worker.
LEMMA StopEnqueueStep ==
  ASSUME IInv, StopEnqueue
  PROVE  IInv'
<1>1. /\ carry' = [carry EXCEPT ![Stopper] = Helper] /\ cpc' = [cpc EXCEPT ![Stopper] = "link"]
      /\ \E w \in alive : dest' = [dest EXCEPT ![Stopper] = w]
      /\ UNCHANGED <<queue, idle, job, wpc, next_worker, alive, cleaned>>
  BY Zenon DEF StopEnqueue
<1>2. Helper \in Job /\ Stopper \in Threads /\ None \notin Jobs /\ Helper \notin Jobs
  BY StealingConstants, Zenon DEF Job, Threads
<1>3. /\ carry' \in [Threads -> Job]
      /\ \A j \in Jobs : Carriers(j)' = Carriers(j) \ {Stopper}
  BY <1>1, <1>2, ThreadGets, ZenonT(60) DEF IInv
<1>4. \A j \in Jobs : Runners(j)' = Runners(j) /\ Carriers(j)' = Carriers(j)
  <2>1. \A j \in Jobs : Stopper \notin Carriers(j)
    BY <1>2, Zenon DEF Carriers, IInv, HandsFree
  <2> QED
    BY <1>1, <1>3, <2>1, Zenon DEF Runners
<1>5. TypeOK'
  BY <1>1, <1>2, <1>3, Zenon DEF IInv, TypeOK
<1>6. HandsFree'
  BY <1>1, <1>2, Zenon DEF IInv, HandsFree, TypeOK
<1> QED
  BY <1>1, <1>4, <1>5, <1>6, HelperStep, Zenon

\* Steps on the way to a job, and notifications.
LEMMA QuietStep ==
  ASSUME IInv, UNCHANGED <<queue, job, idle, dest, carry, next_worker, cleaned>>,
         wpc' = wpc \/ \E w \in Workers : \E l \in {"poll", "steal", "relax", "wait", "woken",
            "timeout", "take", "raid"} :
                         wpc[w] # "run" /\ wpc' = [wpc EXCEPT ![w] = l],
         cpc' = cpc \/ \E c \in Threads : \E l \in {"idle", "notify"} :
                         cpc[c] # "link" /\ cpc' = [cpc EXCEPT ![c] = l],
         alive' \in SUBSET Workers
  PROVE  IInv'
<1>1. TypeOK'
  <2>1. wpc' \in [Workers -> {"poll", "steal", "relax", "wait", "woken", "timeout",
                              "take", "raid", "run", "swing", "left"}]
    BY Zenon DEF IInv, TypeOK
  <2>2. cpc' \in [Threads -> {"idle", "link", "swing", "notify"}]
    BY Zenon DEF IInv, TypeOK
  <2> QED
    BY <2>1, <2>2, Zenon DEF IInv, TypeOK
<1>2. HandsFree'
  BY Zenon DEF IInv, TypeOK, HandsFree
<1> QED
  BY <1>1, <1>2, NoneMoves, Zenon DEF IInv

\* Initially every job waits for a message.
LEMMA InitInv == Init => IInv
<1> SUFFICES ASSUME Init PROVE IInv
  BY Zenon
<1>0. 0 \in Workers /\ None \in Job /\ None \notin Jobs /\ Stopper \in Threads
  BY StealingConstants DEF Workers, Job, Threads
<1>1. TypeOK
  BY <1>0 DEF Init, TypeOK, Threads
<1>2. HandsFree
  BY <1>0, Zenon DEF Init, HandsFree, Threads
<1>3. \A j \in Jobs : \A w \in Workers : Count(queue[w], j) = 0
  BY OccEmpty, Zenon DEF Init, Count
<1>4. \A j \in Jobs : Free(j)
  BY <1>0, <1>3, Zenon DEF Init, Free, Queues, Runners, Carriers, Threads
<1> QED
  BY <1>1, <1>2, <1>3, <1>4, Zenon DEF Init, IInv, OnceInQueue, OneHolder

\* Every step preserves the invariant.
LEMMA StepInv == IInv /\ [Next]_vars => IInv'
<1> SUFFICES ASSUME IInv, [Next]_vars PROVE IInv'
  BY Zenon
<1>0. alive \in SUBSET Workers
  BY Zenon DEF IInv, TypeOK
<1>1. ASSUME NEW c \in Clients, NEW j \in Jobs, CentralEnqueue(c, j) PROVE IInv'
  BY <1>1, CentralEnqueueStep, Zenon
<1>2. ASSUME NEW c \in Threads, EnqueueStep(c) PROVE IInv'
  <2>1. CASE EnqueueLink(c)
    BY <2>1, EnqueueLinkStep, Zenon
  <2>2. CASE EnqueueSwing(c)
    BY <1>0, <2>2, QuietStep, Zenon DEF EnqueueSwing, stopVars
  <2>3. CASE Notify(c)
    <3>1. dest[c] \in Workers
      BY Zenon DEF IInv, TypeOK
    <3>2. wpc' = wpc \/ (wpc[dest[c]] = "wait" /\ wpc' = [wpc EXCEPT ![dest[c]] = "woken"])
      BY <2>3, Zenon DEF Notify
    <3>3. /\ cpc[c] = "notify" /\ cpc' = [cpc EXCEPT ![c] = "idle"]
          /\ UNCHANGED <<queue, job, idle, dest, carry, next_worker, cleaned, alive>>
      BY <2>3, Zenon DEF Notify, stopVars
    <3> QED
      BY <1>0, <3>1, <3>2, <3>3, QuietStep, Zenon
  <2> QED
    BY <1>2, <2>1, <2>2, <2>3, Zenon DEF EnqueueStep
<1>3. ASSUME NEW w \in Workers, DequeueStep(w) PROVE IInv'
  <2>1. CASE TakeHead(w)
    <3>1. queue[w] \in Seq(Job) /\ queue[w] # <<>> /\ wpc[w] # "run"
      BY <2>1, Zenon DEF TakeHead, IInv, TypeOK
    <3>2. PICK x \in Job, t \in Seq(Job) : x = Head(queue[w]) /\ t = Tail(queue[w]) /\ Adds(t, queue[w], x)
      BY <3>1, HeadRemoves, Zenon
    <3>3. /\ queue' = [queue EXCEPT ![w] = t] /\ job' = [job EXCEPT ![w] = x]
          /\ wpc' = [wpc EXCEPT ![w] = "run"]
          /\ UNCHANGED <<idle, cpc, dest, carry, next_worker, alive, cleaned>>
      BY <2>1, <3>2, Zenon DEF TakeHead, Start, Goto, clientVars, stopVars
    <3> QED
      BY <3>1, <3>2, <3>3, TakeStep, Zenon
  <2>2. CASE TakeNothing(w)
    BY <1>0, <2>2, QuietStep, Zenon DEF TakeNothing, Goto, clientVars, stopVars
  <2>3. CASE Wait(w)
    <3>1. \E l \in {"wait", "take", "raid", "relax"} : wpc' = [wpc EXCEPT ![w] = l]
      BY <2>3, Zenon DEF Wait, Goto
    <3>2. wpc[w] # "run" /\ UNCHANGED <<queue, job, idle, cpc, dest, carry, next_worker, cleaned, alive>>
      BY <2>3, Zenon DEF Wait, clientVars, stopVars
    <3> QED
      BY <1>0, <3>1, <3>2, QuietStep, Zenon
  <2>4. ASSUME NEW v \in Workers, TrySteal(w, v) PROVE IInv'
    <3>1. queue[v] \in Seq(Job) /\ queue[v] # <<>> /\ wpc[w] # "run"
      BY <2>4, Zenon DEF TrySteal, IInv, TypeOK
    <3>2. PICK x \in Job, t \in Seq(Job) :
            x = queue[v][Len(queue[v])] /\ t = SubSeq(queue[v], 1, Len(queue[v]) - 1) /\ Adds(t, queue[v], x)
      BY <3>1, LastRemoves, Zenon
    <3>3. /\ queue' = [queue EXCEPT ![v] = t] /\ job' = [job EXCEPT ![w] = x]
          /\ wpc' = [wpc EXCEPT ![w] = "run"]
          /\ UNCHANGED <<idle, cpc, dest, carry, next_worker, alive, cleaned>>
      BY <2>4, <3>2, Zenon DEF TrySteal, Start, Goto, clientVars, stopVars
    <3> QED
      BY <3>1, <3>2, <3>3, TakeStep, Zenon
  <2>5. ASSUME NEW v \in Workers, StealNothing(w, v) PROVE IInv'
    BY <1>0, <2>5, QuietStep, Zenon DEF StealNothing, Goto, clientVars, stopVars
  <2> QED
    BY <1>3, <2>1, <2>2, <2>3, <2>4, <2>5, Zenon DEF DequeueStep
<1>4. ASSUME NEW w \in Workers, WakeUp(w) PROVE IInv'
  BY <1>0, <1>4, QuietStep, Zenon DEF WakeUp, Goto, clientVars, stopVars
<1>5. ASSUME NEW w \in Workers, RunStep(w) PROVE IInv'
  <2>1. CASE ResumeLaterSwing(w)
    BY <1>0, <2>1, QuietStep, Zenon DEF ResumeLaterSwing, Goto, clientVars, stopVars
  <2> QED
    BY <1>5, <2>1, AwaitingStep, ResumeLaterStep, ShutdownStep, Zenon DEF RunStep
<1>6. ASSUME NEW w \in Workers, NEW j \in Jobs, ExecLater(w, j) PROVE IInv'
  BY <1>6, ExecLaterStep, Zenon
<1>7. CASE StopEnqueue
  BY <1>7, StopEnqueueStep, Zenon
<1>8. CASE StopStep
  <2>1. CASE StopErase
    BY <1>0, <2>1, QuietStep, Zenon DEF StopErase, clientVars
  <2>2. CASE StopJoin
    BY <1>0, <2>2, QuietStep, Zenon DEF StopJoin, clientVars
  <2>3. CASE StopDone
    BY <1>0, <2>3, QuietStep, Zenon DEF StopDone, clientVars
  <2> QED
    BY <1>8, <2>1, <2>2, <2>3, DrainStep, Zenon DEF StopStep
<1>9. CASE UNCHANGED vars
  BY <1>0, <1>9, QuietStep, Zenon DEF vars
<1> QED
  BY <1>1, <1>2, <1>3, <1>4, <1>5, <1>6, <1>7, <1>8, <1>9, Zenon DEF Next, Threads

-----------------------------------------------------------------------------
(* The theorem. *)

\* A job that no queue, worker or thread has is in no place.
LEMMA FreeIsNowhere ==
  ASSUME TypeOK, NEW j \in Jobs, Free(j)
  PROVE  Places(j) = {}
<1>1. \A w \in Workers : {k \in DOMAIN queue[w] : queue[w][k] = j} = {}
  <2> SUFFICES ASSUME NEW w \in Workers PROVE {k \in DOMAIN queue[w] : queue[w][k] = j} = {}
    BY Zenon
  <2>1. queue[w] \in Seq(Job)
    BY Zenon DEF TypeOK
  <2>2. Occurrences(queue[w], {j}) = 0
    BY Zenon DEF Free, Queues, Count
  <2>3. \A k \in DOMAIN queue[w] : queue[w][k] \notin {j}
    BY <2>1, <2>2, OccZero, Zenon
  <2> QED
    BY <2>3, Zenon
<1>2. {v \in Workers : job[v] = j} = {} /\ {t \in Threads : carry[t] = j} = {}
  BY Zenon DEF Free, Runners, Carriers
<1> QED
  BY <1>1, <1>2, Zenon DEF Places

\* A job that one of them has is in one place.
LEMMA HeldIsInOnePlace ==
  ASSUME TypeOK, OnceInQueue, NEW j \in Jobs, Held(j)
  PROVE  \E p : Places(j) = {p}
<1> DEFINE At(w) == {k \in DOMAIN queue[w] : queue[w][k] = j}
<1>1. ASSUME NEW w \in Workers, w \notin Queues(j) PROVE At(w) = {}
  <2>1. queue[w] \in Seq(Job)
    BY Zenon DEF TypeOK
  <2>2. Occurrences(queue[w], {j}) = 0
    BY <1>1, Zenon DEF Queues, Count
  <2>3. \A k \in DOMAIN queue[w] : queue[w][k] \notin {j}
    BY <2>1, <2>2, OccZero, Zenon
  <2> QED
    BY <2>3, Zenon
<1>2. ASSUME NEW w \in Workers, w \in Queues(j) PROVE \E k : At(w) = {k}
  <2>1. queue[w] \in Seq(Job)
    BY Zenon DEF TypeOK
  <2>2. Occurrences(queue[w], {j}) = 1
    <3>1. Count(queue[w], j) \in {0, 1} /\ Count(queue[w], j) # 0
      BY <1>2, Zenon DEF Queues, OnceInQueue
    <3> QED
      BY <3>1, Zenon DEF Count
  <2>3. PICK i \in DOMAIN queue[w] : {k \in DOMAIN queue[w] : queue[w][k] \in {j}} = {i}
    <3>1. PICK T : T = {j}
      BY Zenon
    <3>2. \E i \in DOMAIN queue[w] : {k \in DOMAIN queue[w] : queue[w][k] \in T} = {i}
      BY <2>1, <2>2, <3>1, OccOne
    <3> QED
      BY <3>1, <3>2, Zenon
  <2> QED
    BY <2>3, Zenon
<1>3. ASSUME NEW w \in Workers, Queues(j) = {w}, Runners(j) = {}, Carriers(j) = {}
      PROVE  \E p : Places(j) = {p}
  <2>1. PICK k : At(w) = {k}
    BY <1>2, <1>3, Zenon
  <2>2. \A v \in Workers : v # w => At(v) = {}
    BY <1>1, <1>3, Zenon
  <2> HIDE DEF At
  <2>3. UNION {{<<"queue", v, i>> : i \in At(v)} : v \in Workers} = {<<"queue", w, k>>}
    BY <2>1, <2>2
  <2>4. {v \in Workers : job[v] = j} = {} /\ {t \in Threads : carry[t] = j} = {}
    BY <1>3, Zenon DEF Runners, Carriers
  <2>5. Places(j) = {<<"queue", w, k>>}
    BY <2>3, <2>4, Zenon DEF Places, At
  <2> QED
    BY <2>5, Zenon
<1>4. ASSUME NEW w \in Workers, Queues(j) = {}, Runners(j) = {w}, Carriers(j) = {}
      PROVE  \E p : Places(j) = {p}
  <2>1. \A v \in Workers : At(v) = {}
    BY <1>1, <1>4, Zenon
  <2>2. UNION {{<<"queue", v, i>> : i \in At(v)} : v \in Workers} = {}
    BY <2>1, Zenon
  <2>3. /\ {<<"job", z, 0>> : z \in Runners(j)} = {<<"job", w, 0>>}
        /\ {<<"carry", z, 0>> : z \in Carriers(j)} = {}
    BY <1>4, Zenon
  <2> DEFINE U == UNION {{<<"queue", v, i>> : i \in At(v)} : v \in Workers}
             R == {<<"job", z, 0>> : z \in Runners(j)}
             C == {<<"carry", z, 0>> : z \in Carriers(j)}
  <2>4. Places(j) = U \cup R \cup C
    BY Zenon DEF Places, Runners, Carriers
  <2>5. U = {} /\ R = {<<"job", w, 0>>} /\ C = {}
    BY <2>2, <2>3, Zenon
  <2> HIDE DEF U, R, C
  <2> QED
    BY <2>4, <2>5, Zenon
<1>5. ASSUME NEW c \in Threads, Queues(j) = {}, Runners(j) = {}, Carriers(j) = {c}
      PROVE  \E p : Places(j) = {p}
  <2>1. \A v \in Workers : At(v) = {}
    BY <1>1, <1>5, Zenon
  <2>2. UNION {{<<"queue", v, i>> : i \in At(v)} : v \in Workers} = {}
    BY <2>1, Zenon
  <2>3. /\ {<<"job", z, 0>> : z \in Runners(j)} = {}
        /\ {<<"carry", z, 0>> : z \in Carriers(j)} = {<<"carry", c, 0>>}
    BY <1>5, Zenon
  <2> DEFINE U == UNION {{<<"queue", v, i>> : i \in At(v)} : v \in Workers}
             R == {<<"job", z, 0>> : z \in Runners(j)}
             C == {<<"carry", z, 0>> : z \in Carriers(j)}
  <2>4. Places(j) = U \cup R \cup C
    BY Zenon DEF Places, Runners, Carriers
  <2>5. U = {} /\ R = {} /\ C = {<<"carry", c, 0>>}
    BY <2>2, <2>3, Zenon
  <2> HIDE DEF U, R, C
  <2> QED
    BY <2>4, <2>5, Zenon
<1> QED
  BY <1>3, <1>4, <1>5, Zenon DEF Held

\* The inductive invariant: whatever workers, threads and stop do, a ready job
\* has one holder.
THEOREM Invariant == Spec => []IInv
<1>1. Init => IInv
  BY InitInv, Zenon
<1>2. IInv /\ [Next]_vars => IInv'
  BY StepInv, Zenon
<1> QED
  BY <1>1, <1>2, PTL DEF Spec

\* With any number of workers that run, steal and go to sleep while other
\* threads enqueue and stop sends its helper around, the scheduler has each
\* ready job in exactly one place.
THEOREM NoJobLostOrDuplicated == Spec => []ReadyJobIsInOnePlace
<1>1. IInv => ReadyJobIsInOnePlace
  <2> SUFFICES ASSUME IInv, NEW j \in Jobs
               PROVE  Cardinality(Places(j)) = IF j \in idle \cup cleaned THEN 0 ELSE 1
    BY Zenon DEF ReadyJobIsInOnePlace
  <2>1. CASE j \in idle \cup cleaned
    <3>1. Places(j) = {}
      BY <2>1, FreeIsNowhere, Zenon DEF IInv, OneHolder
    <3> QED
      BY <2>1, <3>1, FS_EmptySet, Zenon
  <2>2. CASE j \notin idle \cup cleaned
    <3>1. PICK p : Places(j) = {p}
      BY <2>2, HeldIsInOnePlace, Zenon DEF IInv, OneHolder
    <3> QED
      BY <2>2, <3>1, FS_Singleton, Zenon
  <2> QED
    BY <2>1, <2>2, Zenon
<1> QED
  BY <1>1, Invariant, PTL
=============================================================================
