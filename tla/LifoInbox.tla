----------------------------- MODULE LifoInbox ------------------------------
(***************************************************************************)
(* caf::intrusive::lifo_inbox, one step per access to shared memory: the   *)
(* loads and compare-and-swaps of push_front and take_head on a singly     *)
(* linked list of elements whose addresses are reused after deletion, and  *)
(* the mutex and condition variable with which a blocking reader waits for *)
(* the first element (synchronized_push_front, synchronized_await).        *)
(*                                                                         *)
(* One reader owns the inbox; any number of writers push to it.            *)
(***************************************************************************)
EXTENDS Naturals, Sequences, FiniteSets, Lists

CONSTANTS
  Writers,   \* threads that push
  Addr,      \* addresses at which elements may be allocated
  Cats,      \* the categories writers use, a subset of Inbox's Category
  MaxPush,   \* bound: elements per writer
  Free       \* what an address without an element holds

\* The values of stack_ that are not addresses.  stack_empty_tag() is nullptr.
Tag == {"empty", "blocked", "closed"}

ASSUME LifoConstants == /\ IsFiniteSet(Writers) /\ IsFiniteSet(Addr)
                        /\ Addr \cap Tag = {}
                        /\ Cats \subseteq {"urgent", "normal"}
                        /\ MaxPush \in Nat
                        /\ Free \notin [src : Writers, seq : 1..MaxPush, cat : Cats]

Elem == [src : Writers, seq : 1..MaxPush, cat : Cats]
Nobody == "nobody"
Reader == "reader"

VARIABLES
  stack_,    \* the atomic word: an address or a tag
  next,      \* [Addr -> Addr \cup {"empty"}], the link of each element
  elem,      \* [Addr -> Elem \cup {Free}], what is allocated at an address
  wpc,       \* [Writers -> location in synchronized_push_front]
  we,        \* [Writers -> Addr \cup Tag], the local variable e
  new,       \* [Writers -> Addr \cup {"empty"}], new_element
  pushes,    \* [Writers -> 0..MaxPush]
  rpc,       \* location of the reader
  re,        \* local variable e of take_head
  target,    \* argument new_head of take_head
  list,      \* the detached list: the element the reader looks at next
  mtx,       \* who holds the mutex
  waiting    \* whether the reader is in the wait set of the condition variable

shared == <<stack_, next, elem>>
writer == <<wpc, we, new, pushes>>
reader == <<rpc, re, target, list>>
sync   == <<mtx, waiting>>
vars   == <<stack_, next, elem, wpc, we, new, pushes, rpc, re, target, list,
            mtx, waiting>>

Init ==
  /\ stack_ = "empty"
  /\ next = [a \in Addr |-> "empty"]
  /\ elem = [a \in Addr |-> Free]
  /\ wpc = [w \in Writers |-> "idle"]
  /\ we = [w \in Writers |-> "empty"]
  /\ new = [w \in Writers |-> "empty"]
  /\ pushes = [w \in Writers |-> 0]
  /\ rpc = "idle"
  /\ re = "empty"
  /\ target = "empty"
  /\ list = "empty"
  /\ mtx = Nobody
  /\ waiting = FALSE

-----------------------------------------------------------------------------
(* Writers. *)

\* new_element is allocated, and push_front loads stack_.  A closed inbox
\* deletes the element at once.
Load(w, a, c) ==
  /\ wpc[w] = "idle"
  /\ pushes[w] < MaxPush
  /\ elem[a] = Free
  /\ pushes' = [pushes EXCEPT ![w] = @ + 1]
  /\ we' = [we EXCEPT ![w] = stack_]
  /\ IF stack_ = "closed"
     THEN UNCHANGED <<elem, wpc, new>>
     ELSE /\ elem' = [elem EXCEPT ![a] = [src |-> w, seq |-> pushes[w] + 1,
                                          cat |-> c]]
          /\ new' = [new EXCEPT ![w] = a]
          /\ wpc' = [wpc EXCEPT ![w] = "cas"]
  /\ UNCHANGED <<stack_, next, reader, sync>>

\* Mutant: a store in place of the compare-and-swap.
CasStores(w) ==
  /\ wpc[w] = "cas"
  /\ next' = [next EXCEPT ![new[w]] =
                IF we[w] # "blocked" THEN we[w] ELSE "empty"]
  /\ stack_' = new[w]
  /\ wpc' = [wpc EXCEPT ![w] = IF we[w] = "blocked" THEN "lock" ELSE "idle"]
  /\ new' = [new EXCEPT ![w] = "empty"]
  /\ UNCHANGED <<elem, we, pushes, reader, sync>>

\* One iteration of the loop in push_front: link the element (a tag is never
\* part of a list) and try to swap it in.  A failed attempt reloads e, and a
\* closed inbox ends the loop and deletes the element.
Cas(w) ==
  LET a == new[w] IN
  /\ wpc[w] = "cas"
  /\ next' = [next EXCEPT ![a] = IF we[w] # "blocked" THEN we[w] ELSE "empty"]
  /\ IF stack_ = we[w]
     THEN /\ stack_' = a
          /\ wpc' = [wpc EXCEPT ![w] = IF we[w] = "blocked" THEN "lock"
                                                            ELSE "idle"]
          /\ new' = [new EXCEPT ![w] = "empty"]
          /\ UNCHANGED <<elem, we>>
     ELSE /\ we' = [we EXCEPT ![w] = stack_]
          /\ IF stack_ = "closed"
             THEN /\ elem' = [elem EXCEPT ![a] = Free]
                  /\ new' = [new EXCEPT ![w] = "empty"]
                  /\ wpc' = [wpc EXCEPT ![w] = "idle"]
             ELSE UNCHANGED <<elem, new, wpc>>
          /\ UNCHANGED stack_
  /\ UNCHANGED <<pushes, reader, sync>>

\* Mutant: notify without the mutex.
LockSkipped(w) ==
  /\ wpc[w] = "lock"
  /\ wpc' = [wpc EXCEPT ![w] = "notify"]
  /\ UNCHANGED <<shared, we, new, pushes, reader, sync>>

\* synchronized_push_front, case unblocked_reader: lock the mutex ...
LockForNotify(w) ==
  /\ wpc[w] = "lock"
  /\ mtx = Nobody
  /\ mtx' = w
  /\ wpc' = [wpc EXCEPT ![w] = "notify"]
  /\ UNCHANGED <<shared, we, new, pushes, reader, waiting>>

\* ... notify_one, and unlock it at the end of the scope.
Notify(w) ==
  /\ wpc[w] = "notify"
  /\ mtx' = Nobody
  /\ waiting' = FALSE
  /\ rpc' = IF waiting THEN "relock" ELSE rpc
  /\ wpc' = [wpc EXCEPT ![w] = "idle"]
  /\ UNCHANGED <<shared, we, new, pushes, re, target, list>>

-----------------------------------------------------------------------------
(* The reader. *)

\* take_head loads stack_; nothing to do if it already holds new_head.
TakeLoad(t) ==
  /\ rpc \in {"idle", "awake"}
  /\ target' = t
  /\ re' = stack_
  /\ rpc' = IF stack_ = t THEN "idle" ELSE "take"
  /\ UNCHANGED <<shared, writer, list, sync>>

\* Mutant: take_head stores the tag and returns what it loaded before.
TakeStores ==
  /\ rpc = "take"
  /\ stack_' = target
  /\ list' = IF re \in Addr THEN re ELSE "empty"
  /\ rpc' = "walk"
  /\ UNCHANGED <<next, elem, writer, re, target, sync>>

\* One iteration of the loop in take_head.  compare_exchange_weak may fail for
\* no reason; every failure reloads e.
TakeCas ==
  /\ rpc = "take"
  /\ \/ /\ stack_ = re
        /\ stack_' = target
        /\ list' = IF re \in Addr THEN re ELSE "empty"
        /\ rpc' = "walk"
        /\ UNCHANGED re
     \/ /\ re' = stack_
        /\ rpc' = IF stack_ = target THEN "idle" ELSE "take"
        /\ UNCHANGED <<stack_, list>>
  /\ UNCHANGED <<next, elem, writer, target, sync>>

\* The reader follows the detached list and disposes of one element: close
\* hands it to its functor, fetch_more passes it on to be processed.
Walk ==
  /\ rpc = "walk"
  /\ list # "empty"
  /\ list' = next[list]
  /\ elem' = [elem EXCEPT ![list] = Free]
  /\ UNCHANGED <<stack_, next, writer, rpc, re, target, sync>>

WalkEnd ==
  /\ rpc = "walk"
  /\ list = "empty"
  /\ rpc' = IF target = "closed" THEN "done" ELSE "idle"
  /\ UNCHANGED <<shared, writer, re, target, list, sync>>

\* synchronized_await: try_block; there is data if it fails.
AwaitBlock ==
  /\ rpc = "idle"
  /\ IF stack_ = "empty"
     THEN stack_' = "blocked" /\ rpc' = "lock"
     ELSE UNCHANGED stack_ /\ rpc' = "awake"
  /\ UNCHANGED <<next, elem, writer, re, target, list, sync>>

AwaitLock ==
  /\ rpc = "lock"
  /\ mtx = Nobody
  /\ mtx' = Reader
  /\ rpc' = "check"
  /\ UNCHANGED <<shared, writer, re, target, list, waiting>>

\* while (blocked()): the reader holds the mutex from this test to the wait.
AwaitCheck ==
  /\ rpc = "check"
  /\ IF stack_ = "blocked"
     THEN rpc' = "sleep" /\ UNCHANGED mtx
     ELSE rpc' = "awake" /\ mtx' = Nobody
  /\ UNCHANGED <<shared, writer, re, target, list, waiting>>

\* cv.wait releases the mutex and enters the wait set in one step.
AwaitSleep ==
  /\ rpc = "sleep"
  /\ rpc' = "wait"
  /\ mtx' = Nobody
  /\ waiting' = TRUE
  /\ UNCHANGED <<shared, writer, re, target, list>>

\* A wakeup without a notification, and the timeout of wait_until.
AwaitSpurious ==
  /\ rpc = "wait"
  /\ waiting' = FALSE
  /\ rpc' \in {"relock", "timeout"}
  /\ UNCHANGED <<shared, writer, re, target, list, mtx>>

\* The wait returns with the mutex locked.
AwaitRelock ==
  /\ rpc \in {"relock", "timeout"}
  /\ mtx = Nobody
  /\ mtx' = Reader
  /\ rpc' = IF rpc = "relock" THEN "check" ELSE "unblock"
  /\ UNCHANGED <<shared, writer, re, target, list, waiting>>

\* try_unblock after a timeout: failing means that there is a new element.
AwaitUnblock ==
  /\ rpc = "unblock"
  /\ IF stack_ = "blocked"
     THEN stack_' = "empty" /\ rpc' = "idle"
     ELSE UNCHANGED stack_ /\ rpc' = "awake"
  /\ mtx' = Nobody
  /\ UNCHANGED <<next, elem, writer, re, target, list, waiting>>

-----------------------------------------------------------------------------
WriterStep(w) == \/ \E a \in Addr, c \in Cats : Load(w, a, c)
                 \/ Cas(w) \/ LockForNotify(w) \/ Notify(w)

AwaitStep == \/ AwaitLock \/ AwaitCheck \/ AwaitSleep \/ AwaitSpurious
             \/ AwaitRelock \/ AwaitUnblock

ReaderStep == \/ \E t \in {"empty", "closed"} : TakeLoad(t)
              \/ TakeCas \/ Walk \/ WalkEnd \/ AwaitBlock \/ AwaitStep

Next == (\E w \in Writers : WriterStep(w)) \/ ReaderStep

Spec == Init /\ [][Next]_vars

\* Threads inside an operation keep running, and a thread that waits for the
\* mutex gets it: its holders keep it for a bounded time only.
Fairness == /\ \A w \in Writers : /\ WF_vars(Cas(w)) /\ WF_vars(Notify(w))
                                  /\ SF_vars(LockForNotify(w))
            /\ SF_vars(AwaitLock) /\ SF_vars(AwaitRelock)
            /\ WF_vars(AwaitCheck) /\ WF_vars(AwaitSleep)
            /\ WF_vars(AwaitUnblock)

FairSpec == Spec /\ Fairness

-----------------------------------------------------------------------------
(* Properties. *)

\* The sequence of addresses that starts at p.
Chain(p) == Follow(p, next, Addr)

Reach(p) == LET c == Chain(p) IN {c[i] : i \in DOMAIN c}

\* Every allocated element has exactly one owner: the shared list, the list
\* that the reader detached, or the writer that is about to push it.  Nothing
\* leaks, nothing is deleted while it can still be reached and the two lists
\* never share a node, although addresses are reused between a load and the
\* compare-and-swap that relies on it.
OneOwner ==
  LET own == {new[w] : w \in Writers} \ {"empty"} IN
  /\ {a \in Addr : elem[a] # Free} = Reach(stack_) \cup Reach(list) \cup own
  /\ Reach(stack_) \cap Reach(list) = {}
  /\ own \cap (Reach(stack_) \cup Reach(list)) = {}
  /\ \A v, w \in Writers : new[v] = new[w] /\ new[v] # "empty" => v = w

\* The elements el at the addresses s by category.
Values(el, s) == [i \in 1..Len(s) |-> el[s[i]]]
Shown(el, s) == [k \in {"urgent", "normal"} |->
                   Sublist(Values(el, s), {x \in Elem : x.cat = k})]

\* What the atomic inbox sees: the tag, and the elements of the list that starts
\* at stack_ by category.  (TLC follows the list once if s is bound like this.)
TagOf == IF stack_ \in Addr THEN "list" ELSE stack_
StackOf == CHOOSE v \in {Shown(elem, s) : s \in {Chain(stack_)}} : TRUE

Atomic == INSTANCE Inbox WITH tag <- TagOf, stack <- StackOf

\* The lock-free inbox implements the atomic one: each operation takes effect
\* in its successful compare-and-swap.
ImplementsInbox == /\ Atomic!InboxInit
                   /\ [][Atomic!InboxNext(Elem)]_(Atomic!inboxVars)

\* A reader that waits for the first element is woken up by whoever pushes it.
WaitingEnds == (rpc = "wait" /\ stack_ \in Addr) ~> (rpc = "awake")
=============================================================================
