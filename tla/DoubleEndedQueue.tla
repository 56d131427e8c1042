-------------------------- MODULE DoubleEndedQueue --------------------------
(***************************************************************************)
(* caf::detail::double_ended_queue, the job queue of a worker: a singly    *)
(* linked list that starts with a dummy node, and two spinlocks.  append   *)
(* takes the lock of the tail and take_head the lock of the head, so both  *)
(* run at the same time; prepend and take_tail take both locks.  Nodes are *)
(* deleted after the locks are released and their addresses are reused.    *)
(*                                                                         *)
(* Abstraction: what a thread does in one critical section to memory that  *)
(* no other thread may access meanwhile is one step.                       *)
(***************************************************************************)
EXTENDS Naturals, Sequences, FiniteSets, SequencesExt

CONSTANTS
  Owner,     \* the worker: prepends, appends and takes from the head
  Thieves,   \* other workers: take from the tail
  Clients,   \* other threads: append
  Jobs,
  Addr,      \* addresses of nodes
  Null,      \* nullptr, and the holder of a free lock
  Free       \* the content of an address without a node

Threads == {Owner} \cup Thieves \cup Clients

ASSUME DequeConstants ==
  /\ IsFiniteSet(Addr)
  /\ Cardinality(Addr) > 1
  /\ Null \notin Addr \cup Jobs \cup Threads
  /\ Free \notin Jobs \cup {Null}

VARIABLES
  head, tail,          \* head_ and tail_
  val,                 \* [Addr -> Jobs \cup {Null, Free}], node::value
  next,                \* [Addr -> Addr \cup {Null}], node::next
  headLock, tailLock,  \* who holds them
  pc,                  \* [Threads -> location]
  tmp,                 \* [Threads -> Addr \cup {Null}], the local node pointer
  arg,                 \* [Threads -> Jobs \cup {Null}], argument or result
  outside              \* jobs that are not in the queue

vars == <<head, tail, val, next, headLock, tailLock, pc, tmp, arg, outside>>
locals == <<tmp, arg, outside>>

Init ==
  /\ \E a \in Addr : head = a /\ tail = a
                     /\ val = [x \in Addr |-> IF x = a THEN Null ELSE Free]
  /\ next = [a \in Addr |-> Null]
  /\ headLock = Null
  /\ tailLock = Null
  /\ pc = [t \in Threads |-> "idle"]
  /\ tmp = [t \in Threads |-> Null]
  /\ arg = [t \in Threads |-> Null]
  /\ outside = Jobs

Goto(t, l) == pc' = [pc EXCEPT ![t] = l]

\* The nodes from p on, up to Null.
RECURSIVE Chain(_)
Chain(p) == IF p = Null THEN <<>> ELSE <<p>> \o Chain(next[p])

-----------------------------------------------------------------------------
(* append *)

\* new node(value)
New(t, j, a, l) ==
  /\ pc[t] = "idle"
  /\ j \in outside
  /\ val[a] = Free
  /\ val' = [val EXCEPT ![a] = j]
  /\ next' = [next EXCEPT ![a] = Null]
  /\ tmp' = [tmp EXCEPT ![t] = a]
  /\ outside' = outside \ {j}
  /\ Goto(t, l)
  /\ UNCHANGED <<head, tail, headLock, tailLock, arg>>

\* Mutant: append without the lock.
AppendUnlocked(t) ==
  /\ pc[t] = "append"
  /\ Goto(t, "link")
  /\ UNCHANGED <<head, tail, val, next, headLock, tailLock, locals>>

AppendLock(t) ==
  /\ pc[t] = "append"
  /\ tailLock = Null
  /\ tailLock' = t
  /\ Goto(t, "link")
  /\ UNCHANGED <<head, tail, val, next, headLock, locals>>

\* publish: the node can be taken from now on ...
AppendLink(t) ==
  /\ pc[t] = "link"
  /\ next' = [next EXCEPT ![tail] = tmp[t]]
  /\ Goto(t, "swing")
  /\ UNCHANGED <<head, tail, val, headLock, tailLock, locals>>

\* ... before tail_ points to it; until then tail_ may dangle.
AppendSwing(t) ==
  /\ pc[t] = "swing"
  /\ tail' = tmp[t]
  /\ tailLock' = Null
  /\ tmp' = [tmp EXCEPT ![t] = Null]
  /\ Goto(t, "idle")
  /\ UNCHANGED <<head, val, next, headLock, arg, outside>>

-----------------------------------------------------------------------------
(* prepend, take_head and take_tail *)

\* The first of two locks, or the only one.
LockHead(t) ==
  /\ pc[t] \in {"prepend", "take_head", "take_tail"}
  /\ headLock = Null
  /\ headLock' = t
  /\ Goto(t, CASE pc[t] = "prepend"   -> "prepend2"
               [] pc[t] = "take_head" -> "read"
               [] pc[t] = "take_tail" -> "take_tail2")
  /\ UNCHANGED <<head, tail, val, next, tailLock, locals>>

\* Mutant: giving up the first lock while the second one is taken.
LockTailBacksOff(t) ==
  /\ pc[t] \in {"prepend2", "take_tail2"}
  /\ IF tailLock = Null
     THEN /\ tailLock' = t
          /\ Goto(t, IF pc[t] = "prepend2" THEN "insert" ELSE "cut")
          /\ UNCHANGED headLock
     ELSE /\ headLock' = Null
          /\ Goto(t, IF pc[t] = "prepend2" THEN "prepend" ELSE "take_tail")
          /\ UNCHANGED tailLock
  /\ UNCHANGED <<head, tail, val, next, locals>>

\* The second lock.
LockTail(t) ==
  /\ pc[t] \in {"prepend2", "take_tail2"}
  /\ tailLock = Null
  /\ tailLock' = t
  /\ Goto(t, IF pc[t] = "prepend2" THEN "insert" ELSE "cut")
  /\ UNCHANGED <<head, tail, val, next, headLock, locals>>

\* prepend with both locks: the new element comes second, after the dummy.
Insert(t) ==
  /\ pc[t] = "insert"
  /\ IF next[head] # Null
     THEN /\ next' = [next EXCEPT ![tmp[t]] = next[head], ![head] = tmp[t]]
          /\ UNCHANGED tail
     ELSE /\ next' = [next EXCEPT ![head] = tmp[t]]
          /\ tail' = tmp[t]
  /\ headLock' = Null
  /\ tailLock' = Null
  /\ tmp' = [tmp EXCEPT ![t] = Null]
  /\ Goto(t, "idle")
  /\ UNCHANGED <<head, val, arg, outside>>

\* take_head reads first->next ...
Read(t) ==
  /\ pc[t] = "read"
  /\ IF next[head] = Null
     THEN headLock' = Null /\ Goto(t, "idle") /\ UNCHANGED tmp
     ELSE tmp' = [tmp EXCEPT ![t] = next[head]] /\ Goto(t, "advance")
          /\ UNCHANGED headLock
  /\ UNCHANGED <<head, tail, val, next, tailLock, arg, outside>>

\* ... takes the value out of that node, which becomes the dummy, and deletes
\* the old dummy after it released the lock.
Advance(t) ==
  /\ pc[t] = "advance"
  /\ arg' = [arg EXCEPT ![t] = val[tmp[t]]]
  /\ val' = [val EXCEPT ![tmp[t]] = Null]
  /\ head' = tmp[t]
  /\ tmp' = [tmp EXCEPT ![t] = head]
  /\ headLock' = Null
  /\ Goto(t, "delete")
  /\ UNCHANGED <<tail, next, tailLock, outside>>

\* Mutant: take_tail that leaves the deleted node linked.
CutKeepsLink(t) ==
  /\ pc[t] = "cut"
  /\ IF tail = head
     THEN Goto(t, "idle") /\ UNCHANGED <<tail, val, tmp, arg>>
     ELSE /\ arg' = [arg EXCEPT ![t] = val[tail]]
          /\ val' = [val EXCEPT ![tail] = Null]
          /\ tail' = CHOOSE a \in Addr : a \in Range(Chain(head)) /\ next[a] = tail
          /\ tmp' = [tmp EXCEPT ![t] = tail]
          /\ Goto(t, "delete")
  /\ headLock' = Null
  /\ tailLock' = Null
  /\ UNCHANGED <<head, next, outside>>

\* find_predecessor
FindPredecessor(what) ==
  CHOOSE a \in Addr : a \in Range(Chain(head)) /\ next[a] = what

\* take_tail with both locks.
Cut(t) ==
  /\ pc[t] = "cut"
  /\ IF tail = head
     THEN Goto(t, "idle") /\ UNCHANGED <<tail, val, next, tmp, arg>>
     ELSE /\ arg' = [arg EXCEPT ![t] = val[tail]]
          /\ val' = [val EXCEPT ![tail] = Null]
          /\ tail' = FindPredecessor(tail)
          /\ next' = [next EXCEPT ![FindPredecessor(tail)] = Null]
          /\ tmp' = [tmp EXCEPT ![t] = tail]
          /\ Goto(t, "delete")
  /\ headLock' = Null
  /\ tailLock' = Null
  /\ UNCHANGED <<head, outside>>

\* The destructor of the unique_node_ptr; the job is handed to the caller.
Delete(t) ==
  /\ pc[t] = "delete"
  /\ val' = [val EXCEPT ![tmp[t]] = Free]
  /\ tmp' = [tmp EXCEPT ![t] = Null]
  /\ outside' = outside \cup {arg[t]}
  /\ arg' = [arg EXCEPT ![t] = Null]
  /\ Goto(t, "idle")
  /\ UNCHANGED <<head, tail, next, headLock, tailLock>>

Call(t, l) == /\ pc[t] = "idle"
              /\ Goto(t, l)
              /\ UNCHANGED <<head, tail, val, next, headLock, tailLock, locals>>

-----------------------------------------------------------------------------
Step(t) == \/ AppendLock(t) \/ AppendLink(t) \/ AppendSwing(t) \/ LockHead(t)
           \/ LockTail(t) \/ Insert(t) \/ Read(t) \/ Advance(t) \/ Cut(t)
           \/ Delete(t)

Begin == \/ \E t \in {Owner} \cup Clients, j \in Jobs, a \in Addr :
              New(t, j, a, "append")
         \/ \E j \in Jobs, a \in Addr : New(Owner, j, a, "prepend")
         \/ Call(Owner, "take_head")
         \/ \E t \in Thieves : Call(t, "take_tail")

Next == Begin \/ \E t \in Threads : Step(t)

Spec == Init /\ [][Next]_vars

\* Spinlocks are free again and again, and every spinning thread yields until
\* it gets one.
FairSpec == /\ Spec
            /\ \A t \in Threads : /\ WF_vars(Step(t))
                                  /\ SF_vars(AppendLock(t))
                                  /\ SF_vars(LockHead(t))
                                  /\ SF_vars(LockTail(t))

-----------------------------------------------------------------------------
(* Properties. *)

\* No thread writes through a dangling pointer: the list holds only allocated
\* nodes, its first one is the dummy and the others hold jobs, and tail_ is its
\* last node except for the window in append between publishing a node and
\* moving tail_, in which nobody dereferences tail_.  Every node is deleted by
\* one thread, once, and nothing leaks: a node is in the list, or one thread
\* holds it as the node it adds or the node it deletes.
ListIsSound ==
  LET c    == Chain(head)
      mine == {t \in Threads : tmp[t] # Null /\ pc[t] \notin {"swing", "advance"}}
  IN
  /\ val[head] = Null
  /\ \A i \in DOMAIN c : i > 1 => val[c[i]] \in Jobs
  /\ (\A t \in Threads : pc[t] # "swing") => tail = Last(c)
  /\ \A t \in Threads : pc[t] = "swing" => Last(c) = tmp[t]
  /\ {a \in Addr : val[a] # Free} = Range(c) \cup {tmp[t] : t \in mine}
  /\ \A t \in mine : tmp[t] \notin Range(c)
  /\ \A t, u \in mine : tmp[t] = tmp[u] => t = u

\* What the queue promises: a sequence of jobs, each operation one step.
items == [i \in 1..(Len(Chain(head)) - 1) |-> val[Chain(head)[i + 1]]]

\* append puts a job last, prepend first, take_head removes the first one and
\* take_tail the last one; nothing else changes the sequence, although append
\* and take_head run at the same time.
BehavesLikeSequence ==
  [][\/ \E j \in Jobs : items' = Append(items, j) \/ items' = <<j>> \o items
     \/ /\ items # <<>>
        /\ \/ items' = Tail(items) /\ arg'[Owner] = Head(items)
           \/ \E t \in Thieves : items' = Front(items) /\ arg'[t] = Last(items)
    ]_items

\* The two locks are always taken in the same order, so every operation ends.
OperationsEnd == \A t \in Threads : (pc[t] # "idle") ~> (pc[t] = "idle")
=============================================================================
