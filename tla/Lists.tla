------------------------------- MODULE Lists --------------------------------
(***************************************************************************)
(* Operators on the lists of the other modules, stated for sets of         *)
(* elements and without operator arguments, so that theorems about them    *)
(* can be proved (see ListLemmas) and cited.  SequencesExt has similar     *)
(* ones, on top of SelectSeq, which the provers cannot expand.             *)
(***************************************************************************)
EXTENDS Naturals, Sequences, FiniteSets

\* The elements of s that are in T, in the order of s.
Sublist(s, T) ==
  LET upTo[i \in 0..Len(s)] ==
        IF i = 0 THEN <<>>
        ELSE IF s[i] \in T THEN Append(upTo[i - 1], s[i]) ELSE upTo[i - 1]
  IN upTo[Len(s)]

\* The number of positions of s that hold an element of T.
Occurrences(s, T) == Cardinality({i \in DOMAIN s : s[i] \in T})

\* s without the first of its elements that are x.
WithoutFirst(s, x) ==
  LET at == {i \in DOMAIN s : s[i] = x}
      first == CHOOSE i \in at : \A j \in at : i <= j
  IN IF at = {} THEN s ELSE SubSeq(s, 1, first - 1) \o SubSeq(s, first + 1, Len(s))

\* The list that starts at p: the elements of A from p on, where f maps each to
\* the next one.  It is at most as long as A has elements.
Follow(p, f, A) ==
  LET hop[i \in 0..Cardinality(A)] ==
        IF i = 0 THEN p
        ELSE LET q == hop[i - 1] IN IF q \in A THEN f[q] ELSE q
      len == Cardinality({k \in 0..Cardinality(A) : hop[k] \in A})
  IN [i \in 1..len |-> hop[i - 1]]
=============================================================================
