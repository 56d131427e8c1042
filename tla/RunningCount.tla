---------------------------- MODULE RunningCount ----------------------------
(***************************************************************************)
(* The number of running actors that actor_registry keeps, and the threads *)
(* that wait for it: actor_system::await_all_actors_done, with which the   *)
(* actor system shuts down, and await_all_other_actors_done of blocking    *)
(* actors.  Scheduled and scoped actors register themselves with a flag;   *)
(* blocking actors in threads of their own count without the flag, because *)
(* they must not be seen as done before their thread is released.          *)
(*                                                                         *)
(* The count is atomic and changes outside of the mutex; critical sections *)
(* of the mutex are one step.                                              *)
(***************************************************************************)
EXTENDS Integers, FiniteSets

CONSTANTS
  Scheduled,  \* actors run by the scheduler
  Detached,   \* scheduled actors with a private thread
  Blocking,   \* spawned blocking actors
  Scoped,     \* scoped actors, run by threads that are not actors
  Hidden,     \* those of them spawned hidden
  Awaiting,   \* those that may call await_all_other_actors_done
  Main        \* the thread that destroys the actor system

Actors == Scheduled \cup Detached \cup Blocking \cup Scoped
Awaiters == Awaiting \cup {Main}

ASSUME RunningConstants == /\ IsFiniteSet(Actors)
                           /\ Hidden \subseteq Actors
                           /\ Awaiting \subseteq Blocking \cup Scoped
                           /\ Main \notin Actors

VARIABLES
  running,     \* base_metrics().running_actors
  registered,  \* [Actors -> BOOLEAN], is_registered_flag
  pc,          \* [Actors -> location in launch, or in the end of its life]
  threads,     \* actors that hold a private thread
  apc          \* [Awaiters -> location in await_running_count_equal]

countVars == <<running, registered, pc, threads, apc>>

CountInit == /\ running = 0
             /\ registered = [a \in Actors |-> FALSE]
             /\ pc = [a \in Actors |-> "new"]
             /\ threads = {}
             /\ apc = [t \in Awaiters |-> "idle"]

Goto(a, l) == pc' = [pc EXCEPT ![a] = l]
OwnThread == Detached \cup Blocking

\* dec_running, up to the notification.  A blocking actor goes on to release
\* its thread after local_actor::cleanup.
DecRunning(a, l) ==
  /\ running' = running - 1
  /\ Goto(a, CASE running - 1 > 1 -> l
               [] running - 1 <= 1 /\ l = "done" -> "notify_done"
               [] running - 1 <= 1 /\ l = "release" -> "notify_release")

-----------------------------------------------------------------------------
(* launch *)

\* register_at_system, unless the actor is hidden.
RegisterAtSystem(a) ==
  /\ a \notin Blocking
  /\ pc[a] = "new"
  /\ Goto(a, IF a \in Detached THEN "acquire" ELSE "running")
  /\ running' = IF a \in Hidden THEN running ELSE running + 1
  /\ registered' = [registered EXCEPT ![a] = a \notin Hidden]
  /\ UNCHANGED <<threads, apc>>

\* acquire_private_thread: last for a detached actor, first for a blocking one.
AcquirePrivateThread(a) ==
  /\ \/ a \in Detached /\ pc[a] = "acquire" /\ Goto(a, "running")
     \/ a \in Blocking /\ pc[a] = "new" /\ Goto(a, "count")
  /\ threads' = threads \cup {a}
  /\ UNCHANGED <<running, registered, apc>>

\* Mutant: a blocking actor that calls register_at_system.
CountRegisters(a) ==
  /\ pc[a] = "count"
  /\ Goto(a, "running")
  /\ running' = IF a \in Hidden THEN running ELSE running + 1
  /\ registered' = [registered EXCEPT ![a] = a \notin Hidden]
  /\ UNCHANGED <<threads, apc>>

\* inc_running in blocking_actor::launch, without the flag.
IncRunning(a) ==
  /\ pc[a] = "count"
  /\ Goto(a, "running")
  /\ running' = IF a \in Hidden THEN running ELSE running + 1
  /\ UNCHANGED <<registered, threads, apc>>

-----------------------------------------------------------------------------
(* The end of an actor. *)

\* Whether an actor waits in await_all_other_actors_done.
Waits(a) == a \in Awaiting /\ apc[a] \in {"test", "wait"}

\* A detached actor releases its thread first, in scheduled_actor::cleanup.
Exit(a) ==
  /\ pc[a] = "running"
  /\ ~Waits(a)
  /\ Goto(a, "cleanup")
  /\ threads' = IF a \in Detached THEN threads \ {a} ELSE threads
  /\ UNCHANGED <<running, registered, apc>>

After(a) == IF a \in Blocking THEN "release" ELSE "done"

\* local_actor::cleanup calls unregister_from_system.
UnregisterFromSystem(a) ==
  /\ pc[a] = "cleanup"
  /\ IF registered[a]
     THEN /\ DecRunning(a, After(a))
          /\ registered' = [registered EXCEPT ![a] = FALSE]
     ELSE /\ Goto(a, After(a))
          /\ UNCHANGED <<running, registered>>
  /\ UNCHANGED <<threads, apc>>

\* blocking_actor_runner::resume: release_private_thread, then dec_running.
ReleasePrivateThread(a) ==
  /\ pc[a] = "release"
  /\ threads' = threads \ {a}
  /\ Goto(a, "uncount")
  /\ UNCHANGED <<running, registered, apc>>

Uncount(a) ==
  /\ pc[a] = "uncount"
  /\ IF a \in Hidden THEN Goto(a, "done") /\ UNCHANGED running
                     ELSE DecRunning(a, "done")
  /\ UNCHANGED <<registered, threads, apc>>

\* Mutant: one waiting thread is notified.
NotifyOne(a) ==
  /\ pc[a] \in {"notify_done", "notify_release"}
  /\ Goto(a, IF pc[a] = "notify_done" THEN "done" ELSE "release")
  /\ apc' = IF \E t \in Awaiters : apc[t] = "wait"
            THEN [apc EXCEPT ![CHOOSE t \in Awaiters : apc[t] = "wait"] = "test"]
            ELSE apc
  /\ UNCHANGED <<running, registered, threads>>

\* The critical section of dec_running.
NotifyAll(a) ==
  /\ pc[a] \in {"notify_done", "notify_release"}
  /\ Goto(a, IF pc[a] = "notify_done" THEN "done" ELSE "release")
  /\ apc' = [t \in Awaiters |-> IF apc[t] = "wait" THEN "test" ELSE apc[t]]
  /\ UNCHANGED <<running, registered, threads>>

-----------------------------------------------------------------------------
(* Waiting. *)

\* await_all_actors_done waits for 0, await_all_other_actors_done for 1 if
\* the actor has the flag.
Expected(t) == IF t # Main /\ registered[t] THEN 1 ELSE 0

AwaitCall(t) ==
  /\ apc[t] = "idle"
  /\ t # Main => pc[t] = "running"
  /\ apc' = [apc EXCEPT ![t] = "test"]
  /\ UNCHANGED <<running, registered, pc, threads>>

\* One iteration of the loop in await_running_count_equal.
AwaitTest(t) ==
  /\ apc[t] = "test"
  /\ apc' = [apc EXCEPT ![t] = IF running = Expected(t) THEN "returned" ELSE "wait"]
  /\ UNCHANGED <<running, registered, pc, threads>>

-----------------------------------------------------------------------------
ActorStep(a) == \/ AcquirePrivateThread(a) /\ pc[a] # "new"
                \/ IncRunning(a) \/ UnregisterFromSystem(a)
                \/ ReleasePrivateThread(a) \/ Uncount(a) \/ NotifyAll(a)

CountNext ==
  \/ \E a \in Actors : \/ RegisterAtSystem(a) \/ AcquirePrivateThread(a)
                       \/ IncRunning(a) \/ Exit(a) \/ UnregisterFromSystem(a)
                       \/ ReleasePrivateThread(a) \/ Uncount(a) \/ NotifyAll(a)
  \/ \E t \in Awaiters : AwaitCall(t) \/ AwaitTest(t)

CountSpec == CountInit /\ [][CountNext]_countVars

\* Threads inside an operation go on.  Actors need neither start nor exit.
CountFairSpec == /\ CountSpec
                 /\ \A a \in Actors : WF_countVars(ActorStep(a))
                 /\ \A t \in Awaiters : WF_countVars(AwaitTest(t))

-----------------------------------------------------------------------------
(* Properties. *)

\* When a wait returns, every other visible actor is done or not launched yet,
\* and has given its private thread back: the actor system may go on to stop
\* the pool of private threads.
AwaitMeansDone ==
  [][\A t \in Awaiters : apc[t] = "test" /\ apc'[t] = "returned" =>
       \A a \in Actors \ (Hidden \cup {t}) :
         /\ pc[a] \in {"new", "count", "notify_done", "done"}
         /\ a \in threads => pc[a] = "count"]_countVars

OthersDone(t) == \A a \in Actors \ (Hidden \cup {t}) : pc[a] \in {"new", "done"}

\* A thread that waits for the others returns when all of them are done, as
\* long as no new one is launched: no notification is missed between the test
\* of the count and the wait.
AwaitReturns ==
  \A t \in Awaiters : (apc[t] \in {"test", "wait"} /\ OthersDone(t))
                        ~> (apc[t] = "returned" \/ ~OthersDone(t))
=============================================================================
