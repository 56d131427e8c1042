---------------------------- MODULE WorkStealing ----------------------------
(***************************************************************************)
(* The default scheduler: the workers of scheduler::coordinator with the   *)
(* policy work_stealing.  Threads outside of the scheduler hand jobs to    *)
(* the workers in turn and wake a sleeping one; workers run the jobs of    *)
(* their own queue, steal from others and go to sleep; stop sends a helper *)
(* job around until every worker has left its loop, although the helper    *)
(* can be stolen like any other job.                                       *)
(*                                                                         *)
(* Abstractions.  Queues are sequences with the operations that module     *)
(* DoubleEndedQueue checks; only the window of append between publishing a *)
(* node and moving tail_ is kept, because empty() compares the pointers    *)
(* (head_ does not move while it is called: only the owner moves it, and   *)
(* the owner is the caller or asleep).  A critical section of the mutex of *)
(* a worker is one step.  How often a worker polls and steals before it    *)
(* sleeps is left open.                                                    *)
(***************************************************************************)
EXTENDS Naturals, Sequences, FiniteSets

CONSTANTS
  N,         \* num_workers()
  Jobs,      \* resumables, each an actor
  Clients,   \* threads that call coordinator::enqueue
  Stopper,   \* the thread that runs coordinator::stop
  Helper,    \* the shutdown_helper
  None,      \* nullptr
  MaxWakes   \* bound: calls of exec_later

Workers == 0..(N - 1)
Appenders == Clients \cup Workers \cup {Stopper}

ASSUME StealingConstants == /\ N \in Nat \ {0}
                            /\ IsFiniteSet(Jobs)
                            /\ Helper \notin Jobs /\ None \notin Jobs \cup {Helper}
                            /\ Stopper \notin Clients
                            /\ MaxWakes \in Nat

VARIABLES
  queue,        \* [Workers -> Seq(Jobs \cup {Helper})], head first
  appending,    \* [Workers -> Appenders \cup {None}], who published a node
                \* without having moved tail_ yet, and holds the tail lock
  wpc,          \* [Workers -> location in run and dequeue]
  job,          \* [Workers -> Jobs \cup {Helper, None}], job being resumed
  idle,         \* jobs that wait for a message
  cpc,          \* [Clients \cup {Stopper} -> location in external_enqueue]
  dest,         \* [Clients \cup {Stopper} -> Workers], its worker
  carry,        \* [Clients \cup {Stopper} -> Jobs \cup {Helper, None}]
  next_worker,  \* the counter, modulo N
  spc,          \* location of stop
  alive,        \* alive_workers
  last_worker,  \* shutdown_helper::last_worker
  cleaned,      \* jobs that stop cleaned up and released
  wakes         \* calls of exec_later so far

vars == <<queue, appending, wpc, job, idle, cpc, dest, carry, next_worker, spc,
          alive, last_worker, cleaned, wakes>>
clientVars == <<cpc, dest, carry, next_worker>>
stopVars   == <<spc, alive, last_worker, cleaned>>

Init ==
  /\ queue = [w \in Workers |-> <<>>]
  /\ appending = [w \in Workers |-> None]
  /\ wpc = [w \in Workers |-> "poll"]
  /\ job = [w \in Workers |-> None]
  /\ idle = Jobs
  /\ cpc = [c \in Clients \cup {Stopper} |-> "idle"]
  /\ dest = [c \in Clients \cup {Stopper} |-> 0]
  /\ carry = [c \in Clients \cup {Stopper} |-> None]
  /\ next_worker = 0
  /\ spc = "running"
  /\ alive = Workers
  /\ last_worker = None
  /\ cleaned = {}
  /\ wakes = 0

Goto(w, l) == wpc' = [wpc EXCEPT ![w] = l]

\* empty() compares head_ and tail_: between the two steps of append, tail_
\* is one node behind.
Empty(w) == Len(queue[w]) = IF appending[w] = None THEN 0 ELSE 1

\* wait_strategy::sleeping
Sleeping(w) == wpc[w] \in {"wait", "woken", "timeout"}

-----------------------------------------------------------------------------
(* append and external_enqueue, on behalf of a client or of stop. *)

\* append publishes the node ...
Link(t, w, j) ==
  /\ appending[w] = None
  /\ queue' = [queue EXCEPT ![w] = Append(@, j)]
  /\ appending' = [appending EXCEPT ![w] = t]

EnqueueLink(c) ==
  /\ cpc[c] = "link"
  /\ Link(c, dest[c], carry[c])
  /\ cpc' = [cpc EXCEPT ![c] = "swing"]
  /\ carry' = [carry EXCEPT ![c] = None]
  /\ UNCHANGED <<wpc, job, idle, dest, next_worker, stopVars, wakes>>

\* ... and moves tail_.
EnqueueSwing(c) ==
  /\ cpc[c] = "swing"
  /\ appending' = [appending EXCEPT ![dest[c]] = None]
  /\ cpc' = [cpc EXCEPT ![c] = "notify"]
  /\ UNCHANGED <<queue, wpc, job, idle, dest, carry, next_worker, stopVars, wakes>>

\* Mutant: external_enqueue relies on the timeout of the worker.
NotifyForgotten(c) ==
  /\ cpc[c] = "notify"
  /\ cpc' = [cpc EXCEPT ![c] = "idle"]
  /\ UNCHANGED <<queue, appending, wpc, job, idle, dest, carry, next_worker,
                 stopVars, wakes>>

\* The guard scope of external_enqueue.  notify_one reaches a worker in its
\* wait; one that has been woken already tests the queue anyway.
Notify(c) ==
  LET w == dest[c] IN
  /\ cpc[c] = "notify"
  /\ wpc' = IF Sleeping(w) /\ ~Empty(w) /\ wpc[w] = "wait"
            THEN [wpc EXCEPT ![w] = "woken"] ELSE wpc
  /\ cpc' = [cpc EXCEPT ![c] = "idle"]
  /\ UNCHANGED <<queue, appending, job, idle, dest, carry, next_worker, stopVars,
                 wakes>>

\* coordinator::enqueue and central_enqueue: the next worker in turn.  The job
\* became ready because a message unblocked its mailbox.
CentralEnqueue(c, j) ==
  /\ cpc[c] = "idle"
  /\ j \in idle
  /\ spc # "done"
  /\ idle' = idle \ {j}
  /\ dest' = [dest EXCEPT ![c] = next_worker]
  /\ carry' = [carry EXCEPT ![c] = j]
  /\ next_worker' = (next_worker + 1) % N
  /\ cpc' = [cpc EXCEPT ![c] = "link"]
  /\ UNCHANGED <<queue, appending, wpc, job, stopVars, wakes>>

-----------------------------------------------------------------------------
(* dequeue *)

Start(w, j) == /\ job' = [job EXCEPT ![w] = j]
               /\ Goto(w, "run")

\* take_head of the own queue, in the first two strategies and after a wait.
TakeHead(w) ==
  /\ wpc[w] \in {"poll", "take"}
  /\ queue[w] # <<>>
  /\ queue' = [queue EXCEPT ![w] = Tail(@)]
  /\ Start(w, Head(queue[w]))
  /\ UNCHANGED <<appending, idle, clientVars, stopVars, wakes>>

\* take_head returned nullptr.  While polling, the worker tries again, steals
\* every so often and finally relaxes; in the relaxed loop it waits again.
TakeNothing(w) ==
  /\ queue[w] = <<>>
  /\ \/ wpc[w] = "poll" /\ \E l \in {"steal", "relax"} : Goto(w, l)
     \/ wpc[w] = "take" /\ Goto(w, "relax")
  /\ UNCHANGED <<queue, appending, job, idle, clientVars, stopVars, wakes>>

\* Mutant: stealing leaves the job in the queue of the victim.
StealCopies(w, v) ==
  /\ wpc[w] \in {"steal", "raid"}
  /\ v # w
  /\ appending[v] = None
  /\ queue[v] # <<>>
  /\ Start(w, queue[v][Len(queue[v])])
  /\ UNCHANGED <<queue, appending, idle, clientVars, stopVars, wakes>>

\* try_steal: the job at the tail of any other worker, also of one that has
\* left its loop.
TrySteal(w, v) ==
  /\ wpc[w] \in {"steal", "raid"}
  /\ v # w
  /\ appending[v] = None
  /\ queue[v] # <<>>
  /\ queue' = [queue EXCEPT ![v] = SubSeq(@, 1, Len(@) - 1)]
  /\ Start(w, queue[v][Len(queue[v])])
  /\ UNCHANGED <<appending, idle, clientVars, stopVars, wakes>>

\* The victim has nothing, or there is no other worker.
StealNothing(w, v) ==
  /\ wpc[w] \in {"steal", "raid"}
  /\ N < 2 \/ (v # w /\ appending[v] = None /\ queue[v] = <<>>)
  /\ \/ wpc[w] = "steal" /\ Goto(w, "poll")
     \/ Goto(w, "relax")
  /\ UNCHANGED <<queue, appending, job, idle, clientVars, stopVars, wakes>>

\* wait_for tests its predicate before it waits, after a notification and
\* after the timeout, with the mutex locked.  Every so often, a timeout makes
\* the worker steal.
Wait(w) ==
  /\ \/ /\ wpc[w] \in {"relax", "woken"}
        /\ Goto(w, IF Empty(w) THEN "wait" ELSE "take")
     \/ /\ wpc[w] = "timeout"
        /\ IF Empty(w) THEN \E l \in {"raid", "relax"} : Goto(w, l)
                       ELSE Goto(w, "take")
  /\ UNCHANGED <<queue, appending, job, idle, clientVars, stopVars, wakes>>

\* The relaxed sleep duration has passed, or a spurious wakeup.
WakeUp(w) ==
  /\ wpc[w] = "wait"
  /\ \E l \in {"timeout", "woken"} : Goto(w, l)
  /\ UNCHANGED <<queue, appending, job, idle, clientVars, stopVars, wakes>>

-----------------------------------------------------------------------------
(* run *)

\* The job sends a message that makes another one ready: internal_enqueue.
ExecLater(w, j) ==
  /\ wpc[w] = "run"
  /\ job[w] \in Jobs
  /\ j \in idle
  /\ wakes < MaxWakes
  /\ appending[w] = None
  /\ idle' = idle \ {j}
  /\ queue' = [queue EXCEPT ![w] = <<j>> \o @]
  /\ wakes' = wakes + 1
  /\ UNCHANGED <<appending, wpc, job, clientVars, stopVars>>

\* awaiting_message: the worker drops its reference.
Awaiting(w) ==
  /\ wpc[w] = "run"
  /\ job[w] \in Jobs
  /\ idle' = idle \cup {job[w]}
  /\ job' = [job EXCEPT ![w] = None]
  /\ Goto(w, "poll")
  /\ UNCHANGED <<queue, appending, clientVars, stopVars, wakes>>

\* resume_later: append without a notification, the queue is the worker's own.
ResumeLater(w) ==
  /\ wpc[w] = "run"
  /\ job[w] \in Jobs
  /\ Link(w, w, job[w])
  /\ job' = [job EXCEPT ![w] = None]
  /\ Goto(w, "swing")
  /\ UNCHANGED <<idle, clientVars, stopVars, wakes>>

ResumeLaterSwing(w) ==
  /\ wpc[w] = "swing"
  /\ appending' = [appending EXCEPT ![w] = None]
  /\ Goto(w, "poll")
  /\ UNCHANGED <<queue, job, idle, clientVars, stopVars, wakes>>

\* shutdown_helper::resume, and the end of the worker's loop.
Shutdown(w) ==
  /\ wpc[w] = "run"
  /\ job[w] = Helper
  /\ last_worker' = w
  /\ job' = [job EXCEPT ![w] = None]
  /\ Goto(w, "left")
  /\ UNCHANGED <<queue, appending, idle, clientVars, spc, alive, cleaned, wakes>>

-----------------------------------------------------------------------------
(* stop *)

\* The body of the loop: hand the helper to some worker that is still alive.
StopEnqueue ==
  /\ spc \in {"running", "loop"}
  /\ alive # {}
  /\ \E w \in alive : dest' = [dest EXCEPT ![Stopper] = w]
  /\ carry' = [carry EXCEPT ![Stopper] = Helper]
  /\ cpc' = [cpc EXCEPT ![Stopper] = "link"]
  /\ spc' = "wait"
  /\ UNCHANGED <<queue, appending, wpc, job, idle, next_worker, alive, last_worker,
                 cleaned, wakes>>

\* Mutant: stop assumes that the worker it enqueued to has left.
StopErasesDest ==
  /\ spc = "wait"
  /\ cpc[Stopper] = "idle"
  /\ last_worker # None
  /\ alive' = alive \ {dest[Stopper]}
  /\ last_worker' = None
  /\ spc' = "loop"
  /\ UNCHANGED <<queue, appending, wpc, job, idle, clientVars, cleaned, wakes>>

\* Whoever resumed the helper is gone; it need not be the one it was sent to.
StopErase ==
  /\ spc = "wait"
  /\ cpc[Stopper] = "idle"
  /\ last_worker # None
  /\ alive' = alive \ {last_worker}
  /\ last_worker' = None
  /\ spc' = "loop"
  /\ UNCHANGED <<queue, appending, wpc, job, idle, clientVars, cleaned, wakes>>

\* join every thread.
StopJoin ==
  /\ spc = "loop"
  /\ alive = {}
  /\ \A w \in Workers : wpc[w] = "left"
  /\ spc' = "drain"
  /\ UNCHANGED <<queue, appending, wpc, job, idle, clientVars, alive, last_worker,
                 cleaned, wakes>>

\* foreach_resumable with cleanup_and_release.
StopDrain(w) ==
  /\ spc = "drain"
  /\ queue[w] # <<>>
  /\ queue' = [queue EXCEPT ![w] = Tail(@)]
  /\ cleaned' = cleaned \cup {Head(queue[w])}
  /\ UNCHANGED <<appending, wpc, job, idle, clientVars, spc, alive, last_worker,
                 wakes>>

StopDone ==
  /\ spc = "drain"
  /\ \A w \in Workers : queue[w] = <<>>
  /\ spc' = "done"
  /\ UNCHANGED <<queue, appending, wpc, job, idle, clientVars, alive, last_worker,
                 cleaned, wakes>>

-----------------------------------------------------------------------------
EnqueueStep(c) == EnqueueLink(c) \/ EnqueueSwing(c) \/ Notify(c)

\* What dequeue does on its way to a job, and what becomes of the job.
DequeueStep(w) == \/ TakeHead(w) \/ TakeNothing(w) \/ Wait(w)
                  \/ \E v \in Workers : TrySteal(w, v) \/ StealNothing(w, v)
RunStep(w)     == Awaiting(w) \/ ResumeLater(w) \/ ResumeLaterSwing(w) \/ Shutdown(w)

StopStep == \/ StopErase \/ StopJoin \/ (\E w \in Workers : StopDrain(w)) \/ StopDone

Next == \/ \E c \in Clients, j \in Jobs : CentralEnqueue(c, j)
        \/ \E c \in Clients \cup {Stopper} : EnqueueStep(c)
        \/ \E w \in Workers : \/ DequeueStep(w) \/ WakeUp(w) \/ RunStep(w)
                              \/ \E j \in Jobs : ExecLater(w, j)
        \/ StopEnqueue \/ StopStep

Spec == Init /\ [][Next]_vars

\* Every thread keeps running and gets the spinlock it waits for.  Nothing is
\* assumed about timeouts: WakeUp need never happen.  A job ends or yields.
FairSpec ==
  /\ Spec
  /\ \A c \in Clients \cup {Stopper} : /\ SF_vars(EnqueueLink(c))
                                       /\ WF_vars(EnqueueSwing(c) \/ Notify(c))
  /\ \A w \in Workers : SF_vars(DequeueStep(w)) /\ SF_vars(RunStep(w))
  /\ WF_vars(StopStep) /\ WF_vars(spc = "loop" /\ StopEnqueue)

-----------------------------------------------------------------------------
(* Properties. *)

Threads == Clients \cup {Stopper}

\* Where in the scheduler a job is: in queues, run by workers, and held by
\* threads on the way into a queue.
Places(j) ==
  (UNION {{<<"queue", w, i>> : i \in {k \in DOMAIN queue[w] : queue[w][k] = j}} :
            w \in Workers})
  \cup {<<"job", w, 0>> : w \in {v \in Workers : job[v] = j}}
  \cup {<<"carry", c, 0>> : c \in {t \in Threads : carry[t] = j}}

\* A ready actor is in exactly one place, one that waits for a message or was
\* cleaned up in none.  Stealing neither loses nor duplicates it.
ReadyJobIsInOnePlace ==
  \A j \in Jobs : Cardinality(Places(j)) = IF j \in idle \cup cleaned THEN 0 ELSE 1

\* stop returns, however often its helper is stolen: it ends up not called or
\* done.
StopReturns == <>[](spc \in {"running", "done"})

\* A job that is ready is run or, after stop, cleaned up: workers that sleep
\* are woken without relying on their timeouts.
ReadyJobIsRun ==
  \A j \in Jobs : []<>(\/ j \in idle \cup cleaned
                      \/ \E w \in Workers : job[w] = j
                      \/ spc = "done")
=============================================================================
