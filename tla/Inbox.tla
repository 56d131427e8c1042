------------------------------- MODULE Inbox --------------------------------
(***************************************************************************)
(* The thread-safe inbox at the bottom of every CAF mailbox, one atomic    *)
(* step per operation: caf::intrusive::lifo_inbox.  A single reader (the   *)
(* owner of the mailbox) and any number of writers share one word that is  *)
(* either a tag (empty, blocked, closed) or the head of a list that holds  *)
(* the newest element first.                                               *)
(*                                                                         *)
(* The list is kept as its sublists per message category.  The mailbox     *)
(* tells them apart as soon as it unpacks the list, so the order of an     *)
(* urgent and a normal element in the list is never observed.              *)
(*                                                                         *)
(* LifoInbox models the loads and compare-and-swaps behind each operation  *)
(* and is checked to implement InboxSpec; the modules about actors build   *)
(* on the atomic operations below.                                         *)
(***************************************************************************)
EXTENDS Naturals, Sequences

Category == {"urgent", "normal"}

\* A mailbox, or a part of it, without any element.
NoMsgs == [c \in Category |-> <<>>]

VARIABLES
  tag,     \* what stack_ holds: a tag, or "list" for a pointer to an element
  stack    \* [Category -> Seq], the elements of each category that are
           \* reachable from stack_, newest first

inboxVars == <<tag, stack>>

Tags == {"empty", "blocked", "closed", "list"}

InboxInit == /\ tag = "empty"
             /\ stack = NoMsgs

\* push_front on an inbox that is not closed.  The caller gets
\* unblocked_reader instead of success iff the reader was blocked.
PushFront(x) == /\ tag # "closed"
                /\ tag' = "list"
                /\ stack' = [stack EXCEPT ![x.cat] = <<x>> \o @]

\* try_block: from empty to blocked, by the reader.
TryBlock == /\ tag = "empty"
            /\ tag' = "blocked"
            /\ stack' = stack

\* try_unblock: from blocked to empty, by the reader.
TryUnblock == /\ tag = "blocked"
              /\ tag' = "empty"
              /\ stack' = stack

\* take_head(): the reader detaches the whole list.
TakeHead == /\ tag \in {"empty", "list"}
            /\ tag' = "empty"
            /\ stack' = NoMsgs

\* close(f): the reader detaches the whole list and leaves the closed tag.
CloseInbox == /\ tag # "closed"
              /\ tag' = "closed"
              /\ stack' = NoMsgs

(***************************************************************************)
(* The inbox as a specification of its own, for elements of a set S.       *)
(***************************************************************************)
InboxNext(S) == \/ \E x \in S : PushFront(x)
                \/ TryBlock
                \/ TryUnblock
                \/ TakeHead
                \/ CloseInbox

InboxSpec(S) == InboxInit /\ [][InboxNext(S)]_inboxVars
=============================================================================
