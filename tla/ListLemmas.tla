----------------------------- MODULE ListLemmas -----------------------------
(***************************************************************************)
(* Facts about Occurrences and Sublist that the proofs about the other     *)
(* modules use, and the two induction principles they rest on.  Predicates *)
(* are given as sets.                                                      *)
(***************************************************************************)
EXTENDS Lists, SequenceTheorems, FiniteSetTheorems, WellFoundedInduction, TLAPS

-----------------------------------------------------------------------------
(* Induction. *)

\* A set that holds 0 and is closed under successor holds every natural number.
LEMMA SetInduction ==
  ASSUME NEW S, 0 \in S, \A n \in Nat : n \in S => n + 1 \in S
  PROVE  \A n \in Nat : n \in S
<1> SUFFICES ASSUME NEW k \in Nat, k \notin S PROVE FALSE
  BY Zenon
<1> DEFINE T == Nat \ S
           R == OpToRel(<, Nat)
<1>1. IsWellFoundedOn(R, Nat)
  BY NatLessThanWellFounded, Zenon
<1>2. T \subseteq Nat /\ T # {}
  BY Zenon
<1>3. PICK x \in T : \A y \in T : ~(<<y, x>> \in R)
  <2> HIDE DEF T, R
  <2> QED BY <1>1, <1>2, WFMin, Zenon
<1>4. x # 0 /\ x \in Nat /\ x - 1 \in Nat /\ x - 1 < x
  OBVIOUS
<1>5. <<x - 1, x>> \in R
  BY <1>4, Zenon DEF OpToRel
<1>6. x - 1 \in S
  BY <1>3, <1>4, <1>5, Zenon
<1> QED
  BY <1>4, <1>6

\* A set that holds the empty sequence and is closed under Append holds every
\* sequence.
LEMMA ListInduction ==
  ASSUME NEW S, NEW P, <<>> \in P,
         \A s \in Seq(S), e \in S : s \in P => Append(s, e) \in P
  PROVE  Seq(S) \subseteq P
<1> DEFINE L == {n \in Nat : \A s \in Seq(S) : Len(s) = n => s \in P}
<1>1. 0 \in L
  BY EmptySeq, Zenon
<1>2. ASSUME NEW n \in Nat, n \in L PROVE n + 1 \in L
  <2> SUFFICES ASSUME NEW s \in Seq(S), Len(s) = n + 1 PROVE s \in P
    OBVIOUS
  <2>1. s # <<>>
    BY <1>2, EmptySeq
  <2>2. PICK t \in Seq(S), e \in S : s = Append(t, e)
    BY <2>1, SequenceEmptyOrAppend, Zenon
  <2>3. Len(t) = n
    BY <2>2, AppendProperties, LenProperties
  <2> QED
    BY <1>2, <2>2, <2>3, Zenon
<1>3. \A n \in Nat : n \in L
  <2> HIDE DEF L
  <2> QED BY <1>1, <1>2, SetInduction, Zenon
<1> QED
  BY <1>3, LenProperties, Zenon

-----------------------------------------------------------------------------
(* Occurrences. *)

\* A number of occurrences is a natural number.
LEMMA OccType ==
  ASSUME NEW S, NEW s \in Seq(S), NEW T
  PROVE  /\ IsFiniteSet({i \in DOMAIN s : s[i] \in T})
         /\ Occurrences(s, T) \in Nat
<1> DEFINE A == {i \in DOMAIN s : s[i] \in T}
<1>1. IsFiniteSet(1..Len(s))
  BY LenProperties, FS_Interval
<1>2. A \in SUBSET (1..Len(s))
  BY LenProperties, Zenon
<1>3. IsFiniteSet(A)
  BY <1>1, <1>2, FS_Subset, Zenon
<1> QED
  BY <1>3, FS_CardinalityType, Zenon DEF Occurrences

\* No element occurs in the empty sequence.
LEMMA OccEmpty == \A T : Occurrences(<<>>, T) = 0
<1> TAKE T
<1>1. {i \in DOMAIN <<>> : <<>>[i] \in T} = {}
  OBVIOUS
<1> QED
  BY <1>1, FS_EmptySet, Zenon DEF Occurrences

\* Appending an element adds at most its own occurrence.
LEMMA OccAppend ==
  ASSUME NEW S, NEW s \in Seq(S), NEW x \in S, NEW T
  PROVE  Occurrences(Append(s, x), T) = Occurrences(s, T) + (IF x \in T THEN 1 ELSE 0)
<1> DEFINE A == {i \in DOMAIN s : s[i] \in T}
           B == {i \in DOMAIN Append(s, x) : Append(s, x)[i] \in T}
<1>1. IsFiniteSet(A) /\ Cardinality(A) \in Nat
  BY OccType, Zenon DEF Occurrences
<1>2. /\ Len(s) \in Nat /\ DOMAIN s = 1..Len(s)
      /\ DOMAIN Append(s, x) = 1..(Len(s) + 1)
      /\ \A i \in 1..Len(s) : Append(s, x)[i] = s[i]
      /\ Append(s, x)[Len(s) + 1] = x
  BY AppendProperties, LenProperties
<1>3. CASE x \in T
  <2>1. B = A \cup {Len(s) + 1} /\ Len(s) + 1 \notin A
    BY <1>2, <1>3
  <2>2. Cardinality(B) = Cardinality(A) + 1
    BY <1>1, <2>1, FS_AddElement, Zenon
  <2> QED
    BY <1>3, <2>2, Zenon DEF Occurrences
<1>4. CASE x \notin T
  <2>1. B = A
    BY <1>2, <1>4
  <2>2. Occurrences(Append(s, x), T) = Occurrences(s, T) /\ Occurrences(s, T) \in Nat
    BY <1>1, <2>1, Zenon DEF Occurrences
  <2> QED
    BY <1>4, <2>2
<1> QED
  BY <1>3, <1>4, Zenon

\* The occurrences in a concatenation are those in its parts.
LEMMA OccConcat ==
  ASSUME NEW S, NEW s \in Seq(S), NEW t \in Seq(S), NEW T
  PROVE  Occurrences(s \o t, T) = Occurrences(s, T) + Occurrences(t, T)
<1> DEFINE P == {u \in Seq(S) : Occurrences(s \o u, T) = Occurrences(s, T) + Occurrences(u, T)}
<1>1. <<>> \in P
  <2>1. s \o <<>> = s /\ <<>> \in Seq(S)
    BY ConcatEmptySeq, EmptySeq, Zenon
  <2>2. Occurrences(s, T) \in Nat /\ Occurrences(<<>>, T) = 0
    BY OccEmpty, OccType, Zenon
  <2>3. Occurrences(s, T) = Occurrences(s, T) + Occurrences(<<>>, T)
    BY <2>2
  <2> QED
    BY <2>1, <2>3, Zenon
<1>2. ASSUME NEW u \in Seq(S), NEW e \in S, u \in P PROVE Append(u, e) \in P
  <2>1. Append(u, e) \in Seq(S) /\ s \o u \in Seq(S)
    BY AppendProperties, ConcatProperties, Zenon
  <2>2. s \o Append(u, e) = Append(s \o u, e)
    OBVIOUS
  <2>3. Occurrences(s \o u, T) \in Nat /\ Occurrences(s, T) \in Nat /\ Occurrences(u, T) \in Nat
    BY <2>1, OccType, Zenon
  <2> DEFINE n == IF e \in T THEN 1 ELSE 0
  <2>4. n \in Nat
    BY Zenon
  <2>5. Occurrences(Append(s \o u, e), T) = Occurrences(s \o u, T) + n
    BY <2>1, OccAppend, Zenon
  <2>6. Occurrences(Append(u, e), T) = Occurrences(u, T) + n
    BY <2>1, OccAppend, Zenon
  <2>7. Occurrences(s \o u, T) = Occurrences(s, T) + Occurrences(u, T)
    BY <1>2, Zenon
  <2>8. Occurrences(Append(s \o u, e), T) = Occurrences(s, T) + Occurrences(Append(u, e), T)
    <3> HIDE DEF n
    <3> QED BY <2>3, <2>4, <2>5, <2>6, <2>7
  <2> QED
    BY <2>1, <2>2, <2>8, Zenon
<1>3. Seq(S) \subseteq P
  <2> HIDE DEF P
  <2> QED BY <1>1, <1>2, ListInduction, Zenon
<1> QED
  BY <1>3, Zenon

\* A sequence of one element.
LEMMA OccSingle ==
  ASSUME NEW x, NEW T
  PROVE  Occurrences(<<x>>, T) = IF x \in T THEN 1 ELSE 0
<1>1. <<x>> = Append(<<>>, x) /\ <<>> \in Seq({x}) /\ x \in {x}
  OBVIOUS
<1>2. Occurrences(Append(<<>>, x), T) = Occurrences(<<>>, T) + (IF x \in T THEN 1 ELSE 0)
  BY <1>1, OccAppend, Zenon
<1> QED
  BY <1>1, <1>2, OccEmpty

\* Putting an element in front adds at most its own occurrence.
LEMMA OccCons ==
  ASSUME NEW S, NEW s \in Seq(S), NEW x \in S, NEW T
  PROVE  Occurrences(<<x>> \o s, T) = Occurrences(s, T) + (IF x \in T THEN 1 ELSE 0)
<1>1. <<x>> \in Seq(S)
  OBVIOUS
<1>2. Occurrences(<<x>> \o s, T) = Occurrences(<<x>>, T) + Occurrences(s, T)
  BY <1>1, OccConcat, Zenon
<1>3. Occurrences(s, T) \in Nat
  BY OccType, Zenon
<1> QED
  BY <1>2, <1>3, OccSingle

\* Taking the head away takes at most its own occurrence.
LEMMA OccTail ==
  ASSUME NEW S, NEW s \in Seq(S), s # <<>>, NEW T
  PROVE  Occurrences(s, T) = Occurrences(Tail(s), T) + (IF Head(s) \in T THEN 1 ELSE 0)
<1>1. s = <<Head(s)>> \o Tail(s) /\ Head(s) \in S /\ Tail(s) \in Seq(S)
  OBVIOUS
<1>2. Occurrences(<<Head(s)>> \o Tail(s), T)
        = Occurrences(Tail(s), T) + (IF Head(s) \in T THEN 1 ELSE 0)
  BY <1>1, OccCons, Zenon
<1> QED
  BY <1>1, <1>2, Zenon

\* Stealing takes the last element.
LEMMA OccFront ==
  ASSUME NEW S, NEW s \in Seq(S), s # <<>>, NEW T
  PROVE  /\ SubSeq(s, 1, Len(s) - 1) \in Seq(S) /\ s[Len(s)] \in S
         /\ Occurrences(s, T) = Occurrences(SubSeq(s, 1, Len(s) - 1), T)
                                + (IF s[Len(s)] \in T THEN 1 ELSE 0)
<1>1. Len(s) \in Nat /\ 1 \in 1..(Len(s) + 1) /\ Len(s) \in (1 - 1)..Len(s) /\ Len(s) \in 1..Len(s)
      /\ 1 \in 1..Len(s) /\ 1 \in Int /\ Len(s) - 1 \in Int
  BY LenProperties, EmptySeq
<1>2. PICK x \in S : x = s[Len(s)]
  BY <1>1, ElementOfSeq, Zenon
<1>3. SubSeq(s, 1, Len(s)) = SubSeq(s, 1, Len(s) - 1) \o <<s[Len(s)]>>
  BY <1>1, SubSeqRecursiveSecond, Zenon
<1>4. SubSeq(s, 1, Len(s)) = s
  BY SubSeqFull, Zenon
<1>5. PICK u \in Seq(S) : u = SubSeq(s, 1, Len(s) - 1)
  <2>1. \A i \in 1..(Len(s) - 1) : s[i] \in S
    BY <1>1, ElementOfSeq
  <2> QED
    BY <1>1, <2>1, SubSeqProperties, Zenon
<1>6. s = u \o <<x>> /\ <<x>> \in Seq(S)
  <2>1. s = u \o <<x>>
    BY <1>2, <1>3, <1>4, <1>5, Zenon
  <2> QED
    BY <2>1
<1>7. Occurrences(u \o <<x>>, T) = Occurrences(u, T) + Occurrences(<<x>>, T)
  BY <1>6, OccConcat, Zenon
<1>8. Occurrences(<<x>>, T) = IF x \in T THEN 1 ELSE 0
  BY OccSingle, Zenon
<1> QED
  BY <1>2, <1>5, <1>6, <1>7, <1>8, Zenon

\* Without an occurrence, no position holds an element of T.
LEMMA OccZero ==
  ASSUME NEW S, NEW s \in Seq(S), NEW T
  PROVE  Occurrences(s, T) = 0 <=> \A i \in DOMAIN s : s[i] \notin T
<1> DEFINE A == {i \in DOMAIN s : s[i] \in T}
<1>1. IsFiniteSet(A)
  BY OccType, Zenon
<1>2. Cardinality(A) = 0 <=> A = {}
  BY <1>1, FS_EmptySet, Zenon
<1> QED
  BY <1>2, Zenon DEF Occurrences

\* A single occurrence is in one position.
LEMMA OccOne ==
  ASSUME NEW S, NEW s \in Seq(S), NEW T, Occurrences(s, T) = 1
  PROVE  \E i \in DOMAIN s : {k \in DOMAIN s : s[k] \in T} = {i}
<1> DEFINE A == {k \in DOMAIN s : s[k] \in T}
<1>1. IsFiniteSet(A) /\ Cardinality(A) = 1
  BY OccType, Zenon DEF Occurrences
<1>2. \E i : A = {i}
  BY <1>1, FS_Singleton, Zenon
<1> QED
  BY <1>2, Zenon

-----------------------------------------------------------------------------
(* Sublist. *)

\* What the recursive function inside of Sublist satisfies.
Filters(f, s, T) ==
  /\ f[0] = <<>>
  /\ \A i \in 1..Len(s) :
       f[i] = IF s[i] \in T THEN Append(f[i - 1], s[i]) ELSE f[i - 1]

\* The recursive definition of Sublist has a solution.
LEMMA SublistDef ==
  ASSUME NEW S, NEW s \in Seq(S), NEW T
  PROVE  \E f : Filters(f, s, T) /\ Sublist(s, T) = f[Len(s)]
<1> DEFINE Sol(g, n) == g = [i \in 0..n |->
                               IF i = 0 THEN <<>>
                               ELSE IF s[i] \in T THEN Append(g[i - 1], s[i]) ELSE g[i - 1]]
           E == {n \in Nat : \E g : Sol(g, n)}
<1>1. 0 \in E
  <2> DEFINE g == [i \in 0..0 |-> <<>>]
  <2>1. Sol(g, 0)
    OBVIOUS
  <2> QED
    BY <2>1, Zenon
<1>2. ASSUME NEW n \in Nat, n \in E PROVE n + 1 \in E
  <2>1. PICK g : Sol(g, n)
    BY <1>2, Zenon
  <2> DEFINE x == IF s[n + 1] \in T THEN Append(g[n], s[n + 1]) ELSE g[n]
             h == [i \in 0..(n + 1) |-> IF i = n + 1 THEN x ELSE g[i]]
  <2>2. h[n + 1] = x /\ \A i \in 0..n : h[i] = g[i]
    BY <1>2
  <2>3. \A i \in 0..(n + 1) :
          h[i] = IF i = 0 THEN <<>>
                 ELSE IF s[i] \in T THEN Append(h[i - 1], s[i]) ELSE h[i - 1]
    <3> TAKE i \in 0..(n + 1)
    <3>1. CASE i = n + 1
      BY <1>2, <2>2, <3>1
    <3>2. CASE i # n + 1
      <4>1. i \in 0..n /\ (i # 0 => i - 1 \in 0..n)
        BY <1>2, <3>2
      <4>2. g[i] = IF i = 0 THEN <<>>
                   ELSE IF s[i] \in T THEN Append(g[i - 1], s[i]) ELSE g[i - 1]
        <5> HIDE DEF h, x
        <5> QED BY <2>1, <4>1, Zenon
      <4> QED
        <5> HIDE DEF h, x
        <5> QED BY <2>2, <4>1, <4>2, Zenon
    <3> QED
      BY <3>1, <3>2, Zenon
  <2>4. Sol(h, n + 1)
    <3>1. h = [i \in 0..(n + 1) |-> h[i]]
      BY Zenon
    <3> HIDE DEF h, x
    <3> QED
      BY <2>3, <3>1, Zenon
  <2>5. n + 1 \in Nat /\ \E f : Sol(f, n + 1)
    <3> HIDE DEF h, x, Sol
    <3> QED BY <2>4
  <2> QED
    BY <2>5, Zenon
<1>3. \A n \in Nat : n \in E
  <2> HIDE DEF E
  <2> QED BY <1>1, <1>2, SetInduction, Zenon
<1>4. Len(s) \in Nat
  BY LenProperties, Zenon
<1>5. \E g : Sol(g, Len(s))
  BY <1>3, <1>4, Zenon
<1> DEFINE u == CHOOSE g : Sol(g, Len(s))
<1>6. Sol(u, Len(s))
  BY <1>5, Zenon
<1>7. Sublist(s, T) = u[Len(s)]
  BY Zenon DEF Sublist
<1>8. Filters(u, s, T)
  <2> HIDE DEF u
  <2>1. \A i \in 0..Len(s) :
          u[i] = IF i = 0 THEN <<>>
                 ELSE IF s[i] \in T THEN Append(u[i - 1], s[i]) ELSE u[i - 1]
    BY <1>6, Zenon
  <2>2. 0 \in 0..Len(s) /\ \A i \in 1..Len(s) : i \in 0..Len(s) /\ i # 0
    BY <1>4
  <2>3. u[0] = <<>>
    BY <2>1, <2>2, Zenon
  <2>4. ASSUME NEW i \in 1..Len(s)
        PROVE  u[i] = IF s[i] \in T THEN Append(u[i - 1], s[i]) ELSE u[i - 1]
    BY <2>1, <2>2, Zenon
  <2> QED
    BY <2>3, <2>4, Zenon DEF Filters
<1> QED
  BY <1>7, <1>8, Zenon

\* The sublist of an empty sequence.
LEMMA SublistEmpty == \A T : Sublist(<<>>, T) = <<>>
<1> TAKE T
<1>1. <<>> \in Seq({}) /\ Len(<<>>) = 0
  OBVIOUS
<1>2. PICK f : Filters(f, <<>>, T) /\ Sublist(<<>>, T) = f[Len(<<>>)]
  BY <1>1, SublistDef, Zenon
<1>3. f[0] = <<>>
  BY <1>2, Zenon DEF Filters
<1> QED
  BY <1>1, <1>2, <1>3, Zenon

\* An appended element is the last one of the sublist, or not in it.
LEMMA SublistAppend ==
  ASSUME NEW S, NEW s \in Seq(S), NEW x \in S, NEW T
  PROVE  Sublist(Append(s, x), T) =
           IF x \in T THEN Append(Sublist(s, T), x) ELSE Sublist(s, T)
<1>0. PICK t : t = Append(s, x)
  BY Zenon
<1>1. /\ t \in Seq(S) /\ Len(t) = Len(s) + 1 /\ Len(s) \in Nat
      /\ \A i \in 1..Len(s) : s[i] = t[i]
      /\ t[Len(t)] = x
  BY <1>0, AppendProperties, LenProperties
<1>2. PICK f : Filters(f, s, T) /\ Sublist(s, T) = f[Len(s)]
  BY SublistDef, Zenon
<1>3. PICK g : Filters(g, t, T) /\ Sublist(t, T) = g[Len(t)]
  BY <1>1, SublistDef, Zenon
<1>4. f[Len(s)] = g[Len(s)]
  <2> DEFINE E == {n \in Nat : n <= Len(s) => f[n] = g[n]}
  <2>1. 0 \in E
    BY <1>2, <1>3, Zenon DEF Filters
  <2>2. ASSUME NEW n \in Nat, n \in E, n + 1 <= Len(s) PROVE f[n + 1] = g[n + 1]
    <3>1. n + 1 \in 1..Len(s) /\ n + 1 \in 1..Len(t) /\ (n + 1) - 1 = n
      BY <1>1, <2>2
    <3>2. f[n] = g[n] /\ s[n + 1] = t[n + 1]
      BY <1>1, <2>2, <3>1
    <3>3. f[n + 1] = IF s[n + 1] \in T THEN Append(f[n], s[n + 1]) ELSE f[n]
      BY <1>2, <3>1, Zenon DEF Filters
    <3>4. g[n + 1] = IF t[n + 1] \in T THEN Append(g[n], t[n + 1]) ELSE g[n]
      BY <1>3, <3>1, Zenon DEF Filters
    <3>5. CASE s[n + 1] \in T
      BY <3>2, <3>3, <3>4, <3>5, Zenon
    <3>6. CASE s[n + 1] \notin T
      BY <3>2, <3>3, <3>4, <3>6, Zenon
    <3> QED
      BY <3>5, <3>6, Zenon
  <2>3. \A n \in Nat : n \in E => n + 1 \in E
    BY <2>2
  <2>4. \A n \in Nat : n \in E
    <3> HIDE DEF E
    <3> QED BY <2>1, <2>3, SetInduction, Zenon
  <2> QED
    BY <1>1, <2>4
<1>5. g[Len(t)] = IF t[Len(t)] \in T THEN Append(g[Len(t) - 1], t[Len(t)]) ELSE g[Len(t) - 1]
  <2>1. Len(t) \in 1..Len(t)
    BY <1>1
  <2> QED
    BY <1>3, <2>1, Zenon DEF Filters
<1>6. Len(t) - 1 = Len(s)
  BY <1>1
<1>7. Sublist(t, T) = IF x \in T THEN Append(Sublist(s, T), x) ELSE Sublist(s, T)
  BY <1>1, <1>2, <1>3, <1>4, <1>5, <1>6, Zenon
<1> QED
  BY <1>0, <1>7, Zenon

\* A sublist holds elements of the sequence that are in T.
LEMMA SublistType ==
  ASSUME NEW S, NEW s \in Seq(S), NEW T, NEW R, \A e \in S : e \in T => e \in R
  PROVE  Sublist(s, T) \in Seq(R)
<1> DEFINE P == {u \in Seq(S) : Sublist(u, T) \in Seq(R)}
<1>1. <<>> \in P
  <2>1. <<>> \in Seq(S) /\ <<>> \in Seq(R)
    OBVIOUS
  <2> QED
    BY <2>1, SublistEmpty, Zenon
<1>2. ASSUME NEW u \in Seq(S), NEW e \in S, u \in P PROVE Append(u, e) \in P
  <2>1. Append(u, e) \in Seq(S)
    OBVIOUS
  <2>2. Sublist(Append(u, e), T) = IF e \in T THEN Append(Sublist(u, T), e) ELSE Sublist(u, T)
    BY SublistAppend, Zenon
  <2>3. PICK v \in Seq(R) : v = Sublist(u, T)
    BY <1>2, Zenon
  <2>4. e \in T => Append(v, e) \in Seq(R)
    OBVIOUS
  <2>5. Sublist(Append(u, e), T) \in Seq(R)
    BY <2>2, <2>3, <2>4, Zenon
  <2> QED
    BY <2>1, <2>5, Zenon
<1>3. Seq(S) \subseteq P
  <2> HIDE DEF P
  <2> QED BY <1>1, <1>2, ListInduction, Zenon
<1> QED
  BY <1>3, Zenon

\* The elements of T in front of a sequence are in front of its sublist.
LEMMA SublistCons ==
  ASSUME NEW S, NEW s \in Seq(S), NEW x \in S, NEW T
  PROVE  Sublist(<<x>> \o s, T) =
           IF x \in T THEN <<x>> \o Sublist(s, T) ELSE Sublist(s, T)
<1> DEFINE P == {u \in Seq(S) : Sublist(<<x>> \o u, T) =
                   IF x \in T THEN <<x>> \o Sublist(u, T) ELSE Sublist(u, T)}
<1>1. <<>> \in P
  <2>1. <<x>> \o <<>> = Append(<<>>, x) /\ <<>> \in Seq(S) /\ <<x>> \o <<>> = <<x>>
        /\ Append(<<>>, x) = <<x>>
    OBVIOUS
  <2>2. Sublist(Append(<<>>, x), T) = IF x \in T THEN Append(Sublist(<<>>, T), x)
                                                 ELSE Sublist(<<>>, T)
    BY <2>1, SublistAppend, ZenonT(40)
  <2>3. Sublist(<<>>, T) = <<>>
    BY SublistEmpty, Zenon
  <2>4. CASE x \in T
    BY <2>1, <2>2, <2>3, <2>4, Zenon
  <2>5. CASE x \notin T
    BY <2>1, <2>2, <2>3, <2>5, Zenon
  <2> QED
    BY <2>4, <2>5, Zenon
<1>2. ASSUME NEW u \in Seq(S), NEW e \in S, u \in P PROVE Append(u, e) \in P
  <2>1. /\ Append(u, e) \in Seq(S) /\ <<x>> \o u \in Seq(S)
        /\ <<x>> \o Append(u, e) = Append(<<x>> \o u, e)
    OBVIOUS
  <2>2. Sublist(Append(<<x>> \o u, e), T) =
          IF e \in T THEN Append(Sublist(<<x>> \o u, T), e) ELSE Sublist(<<x>> \o u, T)
    BY <2>1, SublistAppend, Zenon
  <2>3. Sublist(Append(u, e), T) = IF e \in T THEN Append(Sublist(u, T), e) ELSE Sublist(u, T)
    BY <2>1, SublistAppend, Zenon
  <2>4. Sublist(<<x>> \o u, T) = IF x \in T THEN <<x>> \o Sublist(u, T) ELSE Sublist(u, T)
    BY <1>2, Zenon
  <2>5. <<x>> \o Append(Sublist(u, T), e) = Append(<<x>> \o Sublist(u, T), e)
    <3>1. Sublist(u, T) \in Seq(S)
      BY SublistType, Zenon
    <3>2. \A v \in Seq(S) : <<x>> \o Append(v, e) = Append(<<x>> \o v, e)
      OBVIOUS
    <3> QED
      BY <3>1, <3>2, Zenon
  <2>6. Sublist(<<x>> \o Append(u, e), T) =
          IF x \in T THEN <<x>> \o Sublist(Append(u, e), T) ELSE Sublist(Append(u, e), T)
    <3>1. CASE x \in T /\ e \in T
      BY <2>1, <2>2, <2>3, <2>4, <2>5, <3>1, Zenon
    <3>2. CASE x \in T /\ e \notin T
      BY <2>1, <2>2, <2>3, <2>4, <2>5, <3>2, Zenon
    <3>3. CASE x \notin T /\ e \in T
      BY <2>1, <2>2, <2>3, <2>4, <2>5, <3>3, Zenon
    <3>4. CASE x \notin T /\ e \notin T
      BY <2>1, <2>2, <2>3, <2>4, <2>5, <3>4, Zenon
    <3> QED
      BY <3>1, <3>2, <3>3, <3>4, Zenon
  <2> QED
    BY <2>1, <2>6, Zenon
<1>3. Seq(S) \subseteq P
  <2> HIDE DEF P
  <2> QED BY <1>1, <1>2, ListInduction, Zenon
<1> QED
  BY <1>3, Zenon

\* Among the elements of S, W is the intersection of T and U.
Meet(S, T, U, W) == \A e \in S : e \in W <=> e \in T /\ e \in U

\* A sublist keeps the occurrences of the elements of T and has no other.
LEMMA SublistOcc ==
  ASSUME NEW S, NEW s \in Seq(S), NEW T, NEW U, NEW W, Meet(S, T, U, W)
  PROVE  Occurrences(Sublist(s, T), U) = Occurrences(s, W)
<1> DEFINE P == {u \in Seq(S) : Occurrences(Sublist(u, T), U) = Occurrences(u, W)}
<1>1. <<>> \in P
  <2>1. <<>> \in Seq(S)
    OBVIOUS
  <2> QED
    BY <2>1, SublistEmpty, OccEmpty, Zenon
<1>2. ASSUME NEW u \in Seq(S), NEW e \in S, u \in P PROVE Append(u, e) \in P
  <2>1. Append(u, e) \in Seq(S)
    OBVIOUS
  <2>2. Sublist(Append(u, e), T) = IF e \in T THEN Append(Sublist(u, T), e) ELSE Sublist(u, T)
    BY SublistAppend, Zenon
  <2>3. Occurrences(Append(u, e), W) = Occurrences(u, W) + (IF e \in W THEN 1 ELSE 0)
    BY OccAppend, Zenon
  <2>4. Sublist(u, T) \in Seq(S) /\ Occurrences(u, W) \in Nat
    BY SublistType, OccType, Zenon
  <2>5. Occurrences(Sublist(u, T), U) = Occurrences(u, W)
    BY <1>2, Zenon
  <2>6. Occurrences(Append(Sublist(u, T), e), U)
          = Occurrences(Sublist(u, T), U) + (IF e \in U THEN 1 ELSE 0)
    <3>1. \A v \in Seq(S) :
            Occurrences(Append(v, e), U) = Occurrences(v, U) + (IF e \in U THEN 1 ELSE 0)
      BY OccAppend, Zenon
    <3> QED
      BY <2>4, <3>1, Zenon
  <2>7. CASE e \in W
    <3>1. e \in T /\ e \in U
      BY <2>7, Zenon DEF Meet
    <3> QED
      BY <2>1, <2>2, <2>3, <2>5, <2>6, <2>7, <3>1, Zenon
  <2>8. CASE e \in T /\ e \notin U
    <3>1. e \notin W
      BY <2>8, Zenon DEF Meet
    <3> QED
      BY <2>1, <2>2, <2>3, <2>5, <2>6, <2>8, <3>1, Zenon
  <2>9. CASE e \notin T
    <3>1. e \notin W
      BY <2>9, Zenon DEF Meet
    <3>2. Occurrences(Append(u, e), W) = Occurrences(u, W) + 0
      BY <2>3, <3>1, Zenon
    <3>3. Occurrences(Append(u, e), W) = Occurrences(u, W)
      BY <2>4, <3>2
    <3> QED
      BY <2>1, <2>2, <2>5, <2>9, <3>3, Zenon
  <2> QED
    BY <2>7, <2>8, <2>9, Zenon DEF Meet
<1>3. Seq(S) \subseteq P
  <2> HIDE DEF P
  <2> QED BY <1>1, <1>2, ListInduction, Zenon
<1> QED
  BY <1>3, Zenon

\* Every position of a sequence counts if T holds all its elements.
LEMMA OccAll ==
  ASSUME NEW T, NEW s \in Seq(T)
  PROVE  Occurrences(s, T) = Len(s)
<1>1. {i \in DOMAIN s : s[i] \in T} = 1..Len(s) /\ Len(s) \in Nat
  BY LenProperties, ElementOfSeq, Zenon
<1>2. Cardinality(1..Len(s)) = Len(s)
  <2>1. \A n \in Nat : Cardinality(1..n) = IF 1 > n THEN 0 ELSE n - 1 + 1
    BY FS_Interval
  <2> QED
    BY <1>1, <2>1
<1> QED
  BY <1>1, <1>2, Zenon DEF Occurrences

\* Every position holds an element of T or one of its complement.
LEMMA OccPartition ==
  ASSUME NEW S, NEW s \in Seq(S), NEW T, NEW U, \A e \in S : e \in U <=> e \notin T
  PROVE  Occurrences(s, T) + Occurrences(s, U) = Len(s)
<1> DEFINE A == {i \in DOMAIN s : s[i] \in T}
           B == {i \in DOMAIN s : s[i] \in U}
<1>1. IsFiniteSet(A) /\ IsFiniteSet(B)
  BY OccType, Zenon
<1>2. A \cup B = 1..Len(s) /\ A \cap B = {} /\ Len(s) \in Nat
  BY LenProperties, ElementOfSeq
<1>3. Cardinality(1..Len(s)) = Len(s)
  <2>1. \A n \in Nat : Cardinality(1..n) = IF 1 > n THEN 0 ELSE n - 1 + 1
    BY FS_Interval
  <2> QED
    BY <1>2, <2>1
<1>4. Cardinality(A \cup B) = Cardinality(A) + Cardinality(B) - Cardinality(A \cap B)
  BY <1>1, FS_Union, Zenon
<1>5. Cardinality(A \cap B) = 0 /\ Cardinality(A) \in Nat /\ Cardinality(B) \in Nat
  BY <1>1, <1>2, FS_EmptySet, FS_CardinalityType, Zenon
<1>6. Cardinality(A) + Cardinality(B) = Len(s)
  <2> HIDE DEF A, B
  <2>1. Cardinality(A \cup B) = Len(s)
    BY <1>2, <1>3, Zenon
  <2> QED
    BY <1>4, <1>5, <2>1
<1> QED
  BY <1>6, Zenon DEF Occurrences

\* Among the elements of S, W is the disjoint union of T and U.
Split(S, T, U, W) ==
  \A e \in S : (e \in W <=> e \in T \/ e \in U) /\ ~(e \in T /\ e \in U)

\* The occurrences of two disjoint sets add up.
LEMMA OccSplit ==
  ASSUME NEW S, NEW s \in Seq(S), NEW T, NEW U, NEW W, Split(S, T, U, W)
  PROVE  Occurrences(s, W) = Occurrences(s, T) + Occurrences(s, U)
<1> DEFINE A == {i \in DOMAIN s : s[i] \in T}
           B == {i \in DOMAIN s : s[i] \in U}
           C == {i \in DOMAIN s : s[i] \in W}
<1>1. IsFiniteSet(A) /\ IsFiniteSet(B)
  BY OccType, Zenon
<1>2. \A i \in DOMAIN s : s[i] \in S
  BY LenProperties, ElementOfSeq, Zenon
<1>3. A \cup B = C /\ A \cap B = {}
  BY <1>2, Zenon DEF Split
<1>4. Cardinality(A \cup B) = Cardinality(A) + Cardinality(B) - Cardinality(A \cap B)
  BY <1>1, FS_Union, Zenon
<1>5. Cardinality(A \cap B) = 0 /\ Cardinality(A) \in Nat /\ Cardinality(B) \in Nat
  BY <1>1, <1>3, FS_EmptySet, FS_CardinalityType, Zenon
<1>6. Cardinality(C) = Cardinality(A) + Cardinality(B)
  <2> HIDE DEF A, B, C
  <2>1. Cardinality(A \cup B) = Cardinality(C)
    BY <1>3, Zenon
  <2> QED
    BY <1>4, <1>5, <2>1
<1> QED
  BY <1>6, Zenon DEF Occurrences

\* A sublist is as long as there are occurrences.
LEMMA SublistLen ==
  ASSUME NEW S, NEW s \in Seq(S), NEW T
  PROVE  Len(Sublist(s, T)) = Occurrences(s, T)
<1>1. Sublist(s, T) \in Seq(T)
  BY SublistType, Zenon
<1>2. \A v \in Seq(T) : Occurrences(v, T) = Len(v)
  BY OccAll, Zenon
<1>3. Occurrences(Sublist(s, T), T) = Occurrences(s, T)
  <2>1. Meet(S, T, T, T)
    BY Zenon DEF Meet
  <2>2. \A U, W : Meet(S, T, U, W) => Occurrences(Sublist(s, T), U) = Occurrences(s, W)
    BY SublistOcc
  <2> QED
    BY <2>1, <2>2, Zenon
<1> QED
  BY <1>1, <1>2, <1>3, Zenon

\* A set of natural numbers has a least element.
LEMMA LeastElement ==
  ASSUME NEW I \in SUBSET Nat, I # {}
  PROVE  \E z \in I : \A y \in I : z =< y
<1> DEFINE R == OpToRel(<, Nat)
<1>1. IsWellFoundedOn(R, Nat)
  BY NatLessThanWellFounded, Zenon
<1>2. PICK x \in I : \A y \in I : ~(<<y, x>> \in R)
  <2> HIDE DEF R
  <2> QED BY <1>1, WFMin, Zenon
<1>3. ASSUME NEW y \in I PROVE x =< y
  <2>1. x \in Nat /\ y \in Nat /\ ~(y < x)
    BY <1>2, Zenon DEF OpToRel
  <2> QED
    BY <2>1
<1> QED
  BY <1>3, Zenon

\* WithoutFirst takes one occurrence of x away, if there is one.
LEMMA OccWithoutFirst ==
  ASSUME NEW S, NEW s \in Seq(S), NEW x, NEW T
  PROVE  /\ WithoutFirst(s, x) \in Seq(S)
         /\ Occurrences(s, {x}) # 0 /\ x \in T
              => Occurrences(s, T) = Occurrences(WithoutFirst(s, x), T) + 1
         /\ ~(Occurrences(s, {x}) # 0 /\ x \in T)
              => Occurrences(s, T) = Occurrences(WithoutFirst(s, x), T)
<1>0. Len(s) \in Nat /\ DOMAIN s = 1..Len(s) /\ Occurrences(s, T) \in Nat
  BY LenProperties, OccType, Zenon
<1> DEFINE I == {i \in DOMAIN s : s[i] = x}
<1>10. Occurrences(s, {x}) # 0 <=> I # {}
  BY OccZero, Zenon
<1>1. CASE I # {}
  <2> DEFINE k == CHOOSE i \in I : \A j \in I : i <= j
             u == SubSeq(s, 1, k - 1)
             v == SubSeq(s, k + 1, Len(s))
  <2>1. I \in SUBSET Nat
    BY <1>0
  <2>2. k \in I
    <3> HIDE DEF I
    <3> QED BY <1>1, <2>1, LeastElement, Zenon
  <2>3. WithoutFirst(s, x) = u \o v
    BY <1>1, Zenon DEF WithoutFirst
  <2>4. k \in 1..Len(s) /\ s[k] = x /\ x \in S
    BY <2>2, ElementOfSeq
  <2> HIDE DEF I, k
  <2>5. u \in Seq(S) /\ v \in Seq(S) /\ s = (u \o <<x>>) \o v
    <3>1. \A i \in 1..Len(s) : s[i] \in S
      BY ElementOfSeq, Zenon
    <3>2. u \in Seq(S)
      <4>1. 1 \in Int /\ k - 1 \in Int /\ \A i \in 1..(k - 1) : s[i] \in S
        BY <1>0, <2>4, <3>1
      <4> QED
        BY <4>1, SubSeqProperties, Zenon
    <3>3. v \in Seq(S)
      <4>1. k + 1 \in Int /\ Len(s) \in Int /\ \A i \in (k + 1)..Len(s) : s[i] \in S
        BY <1>0, <2>4, <3>1
      <4> QED
        BY <4>1, SubSeqProperties, Zenon
    <3>4. 1 \in 1..Len(s) /\ k \in 1..Len(s) /\ 1 \in 1..(Len(s) + 1) /\ k \in (1 - 1)..Len(s)
          /\ Len(s) \in k..Len(s)
      BY <1>0, <2>4
    <3>5. SubSeq(s, 1, k) = u \o <<s[k]>>
      BY <3>4, SubSeqRecursiveSecond, Zenon
    <3>6. SubSeq(s, 1, k) \o v = SubSeq(s, 1, Len(s))
      BY <3>4, ConcatAdjacentSubSeq, Zenon
    <3>7. SubSeq(s, 1, Len(s)) = s
      BY SubSeqFull, Zenon
    <3> QED
      BY <2>4, <3>2, <3>3, <3>5, <3>6, <3>7, Zenon
  <2> HIDE DEF u, v
  <2>6. Occurrences(u \o v, T) = Occurrences(u, T) + Occurrences(v, T)
    BY <2>5, OccConcat, Zenon
  <2>7. <<x>> \in Seq(S) /\ u \o <<x>> \in Seq(S) /\ u \o v \in Seq(S)
    BY <2>4, <2>5
  <2>8. Occurrences((u \o <<x>>) \o v, T) = Occurrences(u \o <<x>>, T) + Occurrences(v, T)
    <3>1. \A w \in Seq(S) : Occurrences(w \o v, T) = Occurrences(w, T) + Occurrences(v, T)
      BY <2>5, OccConcat, Zenon
    <3> QED
      BY <2>7, <3>1, Zenon
  <2>9. Occurrences(u \o <<x>>, T) = Occurrences(u, T) + Occurrences(<<x>>, T)
    BY <2>5, <2>7, OccConcat, Zenon
  <2>10. Occurrences(u, T) \in Nat /\ Occurrences(v, T) \in Nat
    BY <2>5, OccType, Zenon
  <2>11. Occurrences(s, T) = Occurrences(u \o v, T) + (IF x \in T THEN 1 ELSE 0)
    <3>1. Occurrences(s, T) = Occurrences(u, T) + Occurrences(<<x>>, T) + Occurrences(v, T)
      BY <2>5, <2>8, <2>9, Zenon
    <3> QED
      BY <2>6, <2>10, <3>1, OccSingle
  <2>12. x \notin T => Occurrences(s, T) = Occurrences(u \o v, T)
    BY <2>6, <2>10, <2>11
  <2>13. x \in T => Occurrences(s, T) = Occurrences(u \o v, T) + 1
    BY <2>11, Zenon
  <2> QED
    BY <1>1, <1>10, <2>3, <2>7, <2>12, <2>13, Zenon
<1>2. CASE I = {}
  <2>1. WithoutFirst(s, x) = s
    BY <1>2, Zenon DEF WithoutFirst
  <2> QED
    BY <1>0, <1>10, <1>2, <2>1, Zenon
<1> QED
  BY <1>1, <1>2, Zenon

-----------------------------------------------------------------------------
(* One holder.  Somebody outside has g of a thing, each p in S has h[p] of it. *)

Alone(p, h, S) == h[p] = 1 /\ \A q \in S \ {p} : h[q] = 0

\* There are n of the thing, none or one.
Holders(n, g, h, S) == \/ g = n /\ \A p \in S : h[p] = 0
                       \/ n = 1 /\ g = 0 /\ \E p \in S : Alone(p, h, S)

\* Handing the thing over between p, q and the outside leaves one holder.
LEMMA HandOver ==
  ASSUME NEW n \in {0, 1}, NEW S, NEW g \in Nat, NEW h \in [S -> Nat],
         NEW k \in Nat, NEW f \in [S -> Nat], NEW p \in S, NEW q \in S,
         Holders(n, g, h, S), \A r \in S \ {p, q} : f[r] = h[r],
         p = q => k + f[p] = g + h[p],
         p # q => k + f[p] + f[q] = g + h[p] + h[q]
  PROVE  Holders(n, k, f, S)
<1>1. CASE g = n /\ \A r \in S : h[r] = 0
  <2>1. h[p] = 0 /\ h[q] = 0 /\ f[p] \in Nat /\ f[q] \in Nat
    BY <1>1, Zenon
  <2>2. CASE f[p] = 0 /\ f[q] = 0
    <3>1. k = n /\ \A r \in S : f[r] = 0
      BY <1>1, <2>1, <2>2
    <3> QED
      BY <3>1, Zenon DEF Holders
  <2>3. CASE f[p] # 0
    <3>1. n = 1 /\ k = 0 /\ f[p] = 1 /\ (q # p => f[q] = 0)
      BY <1>1, <2>1, <2>3
    <3>2. Alone(p, f, S)
      BY <1>1, <3>1, Zenon DEF Alone
    <3> QED
      BY <3>1, <3>2, Zenon DEF Holders
  <2>4. CASE f[q] # 0
    <3>1. n = 1 /\ k = 0 /\ f[q] = 1 /\ (q # p => f[p] = 0)
      BY <1>1, <2>1, <2>4
    <3>2. Alone(q, f, S)
      BY <1>1, <3>1, Zenon DEF Alone
    <3> QED
      BY <3>1, <3>2, Zenon DEF Holders
  <2> QED
    BY <2>2, <2>3, <2>4, Zenon
<1>2. ASSUME n = 1, g = 0, NEW r \in S, Alone(r, h, S) PROVE Holders(n, k, f, S)
  <2>1. h[r] = 1 /\ (\A u \in S \ {r} : h[u] = 0) /\ f[p] \in Nat /\ f[q] \in Nat
    BY <1>2, Zenon DEF Alone
  <2>2. CASE r # p /\ r # q
    <3>0. h[p] = 0 /\ h[q] = 0
      BY <2>1, <2>2, Zenon
    <3>1. k = 0 /\ f[p] = 0 /\ f[q] = 0
      <4>1. CASE p = q
        BY <1>2, <2>1, <3>0, <4>1
      <4>2. CASE p # q
        BY <1>2, <2>1, <3>0, <4>2
      <4> QED
        BY <4>1, <4>2, Zenon
    <3>2. Alone(r, f, S)
      BY <2>1, <2>2, <3>1, Zenon DEF Alone
    <3> QED
      BY <1>2, <3>1, <3>2, Zenon DEF Holders
  <2>3. CASE r = p \/ r = q
    <3>1. p = q => k + f[p] = 1
      BY <1>2, <2>1, <2>3
    <3>2. p # q => k + f[p] + f[q] = 1
      BY <1>2, <2>1, <2>3
    <3>3. \A u \in S \ {p, q} : f[u] = 0
      BY <2>1, <2>3, Zenon
    <3>4. CASE f[p] = 1
      <4>1. k = 0 /\ Alone(p, f, S)
        BY <2>1, <3>1, <3>2, <3>3, <3>4 DEF Alone
      <4> QED
        BY <1>2, <4>1, Zenon DEF Holders
    <3>5. CASE f[q] = 1
      <4>1. k = 0 /\ Alone(q, f, S)
        BY <2>1, <3>1, <3>2, <3>3, <3>5 DEF Alone
      <4> QED
        BY <1>2, <4>1, Zenon DEF Holders
    <3>6. CASE f[p] # 1 /\ f[q] # 1
      <4>1. k = 1 /\ f[p] = 0 /\ f[q] = 0
        BY <2>1, <3>1, <3>2, <3>6
      <4>2. \A u \in S : f[u] = 0
        BY <3>3, <4>1, Zenon
      <4> QED
        BY <1>2, <4>1, <4>2, Zenon DEF Holders
    <3> QED
      BY <3>4, <3>5, <3>6, Zenon
  <2> QED
    BY <2>2, <2>3, Zenon
<1> QED
  BY <1>1, <1>2, Zenon DEF Holders

\* A new thing is given to the outside or to p.
LEMMA FirstHolder ==
  ASSUME NEW S, NEW g \in Nat, NEW h \in [S -> Nat], NEW k, NEW f, Holders(0, g, h, S),
         \/ k = g + 1 /\ \A r \in S : f[r] = h[r]
         \/ k = g /\ \E p \in S : f[p] = h[p] + 1 /\ \A r \in S \ {p} : f[r] = h[r]
  PROVE  Holders(1, k, f, S)
<1>1. g = 0 /\ \A r \in S : h[r] = 0
  BY DEF Holders
<1>2. CASE k = g + 1 /\ \A r \in S : f[r] = h[r]
  BY <1>1, <1>2 DEF Holders
<1>3. ASSUME k = g, NEW p \in S, f[p] = h[p] + 1, \A r \in S \ {p} : f[r] = h[r]
      PROVE  Holders(1, k, f, S)
  BY <1>1, <1>3 DEF Holders, Alone
<1> QED
  BY <1>2, <1>3, Zenon

-----------------------------------------------------------------------------
(* Linked lists. *)

Injective(s) == \A i, k \in 1..Len(s) : s[i] = s[k] => i = k
Nodes(s) == {s[i] : i \in 1..Len(s)}

\* The links of f lead from p along s and out of A.
Path(p, f, A, s) ==
  /\ IF s = <<>> THEN p \notin A ELSE p = s[1]
  /\ \A i \in 1..Len(s) : IF i = Len(s) THEN f[s[i]] \notin A ELSE f[s[i]] = s[i + 1]

\* A list without repetition is no longer than the set of its elements.
LEMMA InjectiveLen ==
  ASSUME NEW A, IsFiniteSet(A), NEW s \in Seq(A), Injective(s)
  PROVE  Len(s) \in Nat /\ Cardinality(A) \in Nat /\ Len(s) <= Cardinality(A)
<1>1. Len(s) \in Nat /\ s \in [1..Len(s) -> A]
  BY LenProperties, SeqDef, Zenon
<1>2. s \in Injection(1..Len(s), A)
  BY <1>1, Zenon DEF Injective, Injection, IsInjective
<1>3. Cardinality(1..Len(s)) <= Cardinality(A)
  BY <1>2, FS_Injection, Zenon
<1>4. Cardinality(1..Len(s)) = Len(s)
  <2>1. \A n \in Nat : Cardinality(1..n) = IF 1 > n THEN 0 ELSE n - 1 + 1
    BY FS_Interval
  <2> QED
    BY <1>1, <2>1
<1> QED
  BY <1>1, <1>3, <1>4, FS_CardinalityType, Zenon

\* Follow returns the path, if it does not come back to itself.
LEMMA FollowPath ==
  ASSUME NEW A, IsFiniteSet(A), NEW p, NEW f, NEW s \in Seq(A), Injective(s), Path(p, f, A, s)
  PROVE  Follow(p, f, A) = s
<1> DEFINE n == Cardinality(A)
           L == Len(s)
           e == IF s = <<>> THEN p ELSE f[s[L]]
           w == [i \in 0..n |-> IF i < L THEN s[i + 1] ELSE e]
           Sol(g) == g = [i \in 0..n |-> IF i = 0 THEN p
                            ELSE IF g[i - 1] \in A THEN f[g[i - 1]] ELSE g[i - 1]]
           u == CHOOSE g : Sol(g)
<1>1. n \in Nat /\ L \in Nat /\ L <= n /\ (s = <<>> <=> L = 0) /\ \A i \in 1..L : s[i] \in A
  BY InjectiveLen, LenProperties, EmptySeq, ElementOfSeq, Zenon
<1>2. e \notin A /\ (L = 0 => p = e) /\ (L # 0 => p = s[1])
      /\ \A i \in 1..L : f[s[i]] = IF i = L THEN e ELSE s[i + 1]
  BY <1>1 DEF Path
<1>3. \A i \in 0..n : w[i] = IF i < L THEN s[i + 1] ELSE e
  BY Zenon
<1> HIDE DEF n, L, e
<1>4. \A i \in 0..n : w[i] = IF i = 0 THEN p
                             ELSE IF w[i - 1] \in A THEN f[w[i - 1]] ELSE w[i - 1]
  <2> SUFFICES ASSUME NEW i \in 0..n
               PROVE  w[i] = IF i = 0 THEN p
                             ELSE IF w[i - 1] \in A THEN f[w[i - 1]] ELSE w[i - 1]
    BY Zenon
  <2>1. w[i] = IF i < L THEN s[i + 1] ELSE e
    BY <1>3, Zenon
  <2>2. CASE i = 0
    BY <1>1, <1>2, <2>1, <2>2
  <2>3. CASE i # 0
    <3>1. i - 1 \in 0..n /\ (i - 1) + 1 = i
      BY <1>1, <2>3
    <3>2. w[i - 1] = IF i - 1 < L THEN s[i] ELSE e
      BY <1>3, <3>1, Zenon
    <3>3. CASE i - 1 < L
      <4>1. i \in 1..L /\ s[i] \in A /\ (i < L <=> i # L)
        BY <1>1, <2>3, <3>3
      <4>2. f[s[i]] = IF i = L THEN e ELSE s[i + 1]
        BY <1>2, <4>1, Zenon
      <4>3. w[i - 1] = s[i]
        BY <3>2, <3>3, Zenon
      <4> HIDE DEF w
      <4> QED
        BY <2>1, <2>3, <4>1, <4>2, <4>3, Zenon
    <3>4. CASE ~(i - 1 < L)
      <4>1. w[i] = e /\ w[i - 1] = e
        BY <1>1, <2>1, <3>2, <3>4
      <4> HIDE DEF w
      <4> QED
        BY <1>2, <2>3, <4>1, Zenon
    <3> QED
      BY <3>3, <3>4, Zenon
  <2> QED
    BY <2>2, <2>3, Zenon
<1>5. Sol(w)
  <2>1. w = [i \in 0..n |-> w[i]]
    BY Zenon
  <2> HIDE DEF w
  <2> QED
    BY <1>4, <2>1, Zenon
<1>6. Sol(u)
  <2> HIDE DEF w
  <2> QED
    BY <1>5, Zenon
<1>7. Follow(p, f, A) = [i \in 1..Cardinality({k \in 0..n : u[k] \in A}) |-> u[i - 1]]
  BY Zenon DEF Follow, n
<1> HIDE DEF u
<1>8. \A i \in 0..n : u[i] = IF i = 0 THEN p
                             ELSE IF u[i - 1] \in A THEN f[u[i - 1]] ELSE u[i - 1]
  <2> HIDE DEF w
  <2> QED
    BY <1>6, Zenon
<1>9. \A i \in 0..n : u[i] = w[i]
  <2> DEFINE E == {i \in Nat : i <= n => u[i] = w[i]}
  <2> HIDE DEF w, Sol
  <2>1. 0 \in E
    BY <1>1, <1>4, <1>8
  <2>2. ASSUME NEW i \in Nat, i \in E, i + 1 <= n PROVE u[i + 1] = w[i + 1]
    <3>1. i + 1 \in 0..n /\ (i + 1) - 1 = i /\ i + 1 # 0 /\ u[i] = w[i]
      BY <1>1, <2>2
    <3>2. u[i + 1] = IF u[i] \in A THEN f[u[i]] ELSE u[i]
      BY <1>8, <3>1, Zenon
    <3>3. w[i + 1] = IF w[i] \in A THEN f[w[i]] ELSE w[i]
      BY <1>4, <3>1, Zenon
    <3> QED
      BY <3>1, <3>2, <3>3
  <2>3. \A i \in Nat : i \in E => i + 1 \in E
    BY <2>2
  <2>4. \A i \in Nat : i \in E
    <3> HIDE DEF E
    <3> QED BY <2>1, <2>3, SetInduction, Zenon
  <2> QED
    BY <1>1, <2>4
<1>10. \A i \in 0..n : u[i] = IF i < L THEN s[i + 1] ELSE e
  <2> HIDE DEF w
  <2> QED
    BY <1>3, <1>9, Zenon
<1>11. {k \in 0..n : u[k] \in A} = 0..(L - 1)
  BY <1>1, <1>2, <1>10
<1>12. Cardinality(0..(L - 1)) = L
  <2>1. \A k \in Int : Cardinality(0..k) = IF 0 > k THEN 0 ELSE k - 0 + 1
    BY FS_Interval
  <2> QED
    BY <1>1, <2>1
<1>13. \A i \in 1..L : u[i - 1] = s[i]
  BY <1>1, <1>10
<1>14. Follow(p, f, A) = [i \in 1..L |-> s[i]]
  BY <1>7, <1>11, <1>12, <1>13, Zenon
<1> QED
  BY <1>14, LenProperties, Zenon DEF L

\* Where there is no element, the path is empty.
LEMMA PathEmpty ==
  ASSUME NEW A, NEW p, p \notin A, NEW f
  PROVE  /\ <<>> \in Seq(A) /\ Path(p, f, A, <<>>) /\ Injective(<<>>) /\ Nodes(<<>>) = {}
         /\ \A s \in Seq(A) : Path(p, f, A, s) => s = <<>>
<1>1. <<>> \in Seq(A) /\ Len(<<>>) = 0
  BY EmptySeq, Zenon
<1>2. \A s \in Seq(A) : s # <<>> => s[1] \in A
  OBVIOUS
<1> QED
  BY <1>1, <1>2 DEF Path, Injective, Nodes

\* A path depends on the links of its own elements only.
LEMMA PathSame ==
  ASSUME NEW A, NEW p, NEW f, NEW g, NEW s \in Seq(A), Path(p, f, A, s),
         \A a \in Nodes(s) : g[a] = f[a]
  PROVE  Path(p, g, A, s)
<1>1. \A i \in 1..Len(s) : g[s[i]] = f[s[i]]
  BY Zenon DEF Nodes
<1> QED
  BY <1>1, Zenon DEF Path

\* A new element in front of a path.
LEMMA PathCons ==
  ASSUME NEW A, NEW p, NEW f, NEW s \in Seq(A), Path(p, f, A, s), Injective(s),
         NEW a \in A, a \notin Nodes(s), f[a] = p \/ (p \notin A /\ f[a] \notin A)
  PROVE  /\ <<a>> \o s \in Seq(A) /\ Path(a, f, A, <<a>> \o s) /\ Injective(<<a>> \o s)
         /\ Nodes(<<a>> \o s) = Nodes(s) \cup {a}
<1>1. PICK t : t = <<a>> \o s
  BY Zenon
<1>2. /\ Len(s) \in Nat /\ Len(t) = Len(s) + 1 /\ t \in Seq(A) /\ t # <<>>
      /\ (s = <<>> <=> Len(s) = 0)
  BY <1>1, LenProperties
<1>3. t[1] = a /\ \A i \in 2..Len(t) : t[i] = s[i - 1]
  BY <1>1, <1>2
<1>4. \A i \in 1..Len(s) : t[i + 1] = s[i]
  BY <1>2, <1>3
<1>5. Nodes(t) = Nodes(s) \cup {a}
  <2>1. \A x \in Nodes(t) : x \in Nodes(s) \cup {a}
    <3> SUFFICES ASSUME NEW i \in 1..Len(t) PROVE t[i] \in Nodes(s) \cup {a}
      BY Zenon DEF Nodes
    <3>1. CASE i = 1
      BY <1>3, <3>1, Zenon
    <3>2. CASE i # 1
      <4>1. i \in 2..Len(t) /\ i - 1 \in 1..Len(s)
        BY <1>2, <3>2
      <4> QED
        BY <1>3, <4>1, Zenon DEF Nodes
    <3> QED
      BY <3>1, <3>2, Zenon
  <2>2. \A x \in Nodes(s) : x \in Nodes(t)
    <3> SUFFICES ASSUME NEW i \in 1..Len(s) PROVE s[i] \in Nodes(t)
      BY Zenon DEF Nodes
    <3>1. i + 1 \in 1..Len(t)
      BY <1>2
    <3> QED
      BY <1>4, <3>1, Zenon DEF Nodes
  <2>3. a \in Nodes(t)
    <3>1. 1 \in 1..Len(t)
      BY <1>2
    <3> QED
      BY <1>3, <3>1, Zenon DEF Nodes
  <2> QED
    BY <2>1, <2>2, <2>3, Zenon
<1>6. Injective(t)
  <2> SUFFICES ASSUME NEW i \in 1..Len(t), NEW k \in 1..Len(t), t[i] = t[k], i # k
               PROVE  FALSE
    BY Zenon DEF Injective
  <2>1. \A j \in 2..Len(t) : j - 1 \in 1..Len(s) /\ t[j] = s[j - 1] /\ t[j] # a
    BY <1>2, <1>3 DEF Nodes
  <2>2. CASE i = 1 \/ k = 1
    <3>1. (i = 1 /\ k \in 2..Len(t)) \/ (k = 1 /\ i \in 2..Len(t))
      BY <1>2, <2>2
    <3> QED
      BY <1>3, <2>1, <3>1, Zenon
  <2>3. CASE i # 1 /\ k # 1
    <3>1. i \in 2..Len(t) /\ k \in 2..Len(t)
      BY <1>2, <2>3
    <3>2. s[i - 1] = s[k - 1] /\ i - 1 \in 1..Len(s) /\ k - 1 \in 1..Len(s)
      BY <2>1, <3>1, Zenon
    <3>3. i - 1 = k - 1
      BY <3>2, Zenon DEF Injective
    <3> QED
      BY <3>1, <3>3
  <2> QED
    BY <2>2, <2>3, Zenon
<1>7. Path(a, f, A, t)
  <2> SUFFICES ASSUME NEW i \in 1..Len(t)
               PROVE  IF i = Len(t) THEN f[t[i]] \notin A ELSE f[t[i]] = t[i + 1]
    BY <1>2, <1>3, Zenon DEF Path
  <2>1. CASE i = 1
    <3>1. CASE s = <<>>
      BY <1>2, <1>3, <2>1, <3>1 DEF Path
    <3>2. CASE s # <<>>
      <4>1. p = s[1] /\ 1 \in 1..Len(s) /\ s[1] \in A
        BY <1>2, <3>2, ElementOfSeq DEF Path
      <4>2. f[a] = s[1] /\ t[2] = s[1]
        BY <1>4, <4>1
      <4> QED
        BY <1>2, <1>3, <2>1, <3>2, <4>2
    <3> QED
      BY <3>1, <3>2, Zenon
  <2>2. CASE i # 1
    <3>1. i \in 2..Len(t) /\ i - 1 \in 1..Len(s) /\ (i = Len(t) <=> i - 1 = Len(s))
          /\ (i - 1) + 1 = i
      BY <1>2, <2>2
    <3>2. t[i] = s[i - 1]
      BY <1>3, <3>1, Zenon
    <3>3. IF i - 1 = Len(s) THEN f[s[i - 1]] \notin A ELSE f[s[i - 1]] = s[i]
      BY <3>1, Zenon DEF Path
    <3>4. i # Len(t) => t[i + 1] = s[i]
      <4>1. i # Len(t) => i \in 1..Len(s)
        BY <1>2
      <4> QED
        BY <1>4, <4>1, Zenon
    <3> QED
      BY <3>1, <3>2, <3>3, <3>4, Zenon
  <2> QED
    BY <2>1, <2>2, Zenon
<1> QED
  BY <1>1, <1>2, <1>5, <1>6, <1>7, Zenon

\* The rest of a path.
LEMMA PathTail ==
  ASSUME NEW A, NEW p \in A, NEW f, NEW s \in Seq(A), Path(p, f, A, s), Injective(s)
  PROVE  /\ Tail(s) \in Seq(A) /\ Path(f[p], f, A, Tail(s)) /\ Injective(Tail(s))
         /\ Nodes(s) = Nodes(Tail(s)) \cup {p} /\ p \notin Nodes(Tail(s))
<1>1. PICK t : t = Tail(s)
  BY Zenon
<1>2. /\ Len(s) \in Nat /\ Len(s) # 0 /\ s[1] = p /\ s # <<>>
  BY LenProperties, EmptySeq, Zenon DEF Path
<1>3. /\ t \in Seq(A) /\ Len(t) = Len(s) - 1 /\ Len(t) \in Nat
      /\ (t = <<>> <=> Len(t) = 0)
      /\ \A i \in 1..Len(t) : t[i] = s[i + 1]
  <2>1. /\ t \in Seq(A) /\ Len(t) = Len(s) - 1
        /\ \A i \in 1..Len(t) : t[i] = s[i + 1]
    BY <1>1, <1>2, HeadTailProperties, Zenon
  <2>2. Len(t) \in Nat /\ (t = <<>> <=> Len(t) = 0)
    BY <2>1
  <2> QED
    BY <2>1, <2>2, Zenon
<1>4. \A i \in 1..Len(t) : i + 1 \in 1..Len(s) /\ i + 1 # 1 /\ (i = Len(t) <=> i + 1 = Len(s))
  BY <1>2, <1>3
<1>5. 1 \in 1..Len(s) /\ \A i \in 2..Len(s) : i \in 1..Len(s) /\ i - 1 \in 1..Len(t) /\ t[i - 1] = s[i]
  BY <1>2, <1>3
<1>6. p \notin Nodes(t)
  BY <1>2, <1>3, <1>4, <1>5 DEF Injective, Nodes
<1>7. Nodes(s) = Nodes(t) \cup {p}
  <2>1. \A i \in 1..Len(s) : i = 1 \/ i \in 2..Len(s)
    BY <1>2
  <2>2. \A i \in 1..Len(s) : s[i] \in Nodes(t) \cup {p}
    BY <1>2, <1>5, <2>1, Zenon DEF Nodes
  <2>3. \A i \in 1..Len(t) : t[i] \in Nodes(s)
    BY <1>3, <1>4, Zenon DEF Nodes
  <2> QED
    BY <1>2, <1>5, <2>2, <2>3 DEF Nodes
<1>8. Injective(t)
  <2> SUFFICES ASSUME NEW i \in 1..Len(t), NEW k \in 1..Len(t), t[i] = t[k]
               PROVE  i = k
    BY Zenon DEF Injective
  <2>1. s[i + 1] = s[k + 1] /\ i + 1 \in 1..Len(s) /\ k + 1 \in 1..Len(s)
    BY <1>3, <1>4, Zenon
  <2>2. i + 1 = k + 1
    BY <2>1, Zenon DEF Injective
  <2> QED
    BY <2>2
<1>9. Path(f[p], f, A, t)
  <2>1. IF t = <<>> THEN f[p] \notin A ELSE f[p] = t[1]
    <3>1. IF 1 = Len(s) THEN f[p] \notin A ELSE f[p] = s[1 + 1]
      BY <1>2, <1>5, Zenon DEF Path
    <3>2. t = <<>> <=> Len(s) = 1
      BY <1>2, <1>3
    <3>3. t # <<>> => t[1] = s[1 + 1]
      BY <1>2, <1>3
    <3> QED
      BY <3>1, <3>2, <3>3, Zenon
  <2>2. ASSUME NEW i \in 1..Len(t)
        PROVE  IF i = Len(t) THEN f[t[i]] \notin A ELSE f[t[i]] = t[i + 1]
    <3>1. t[i] = s[i + 1] /\ i + 1 \in 1..Len(s) /\ (i = Len(t) <=> i + 1 = Len(s))
      BY <1>3, <1>4, Zenon
    <3>2. IF i + 1 = Len(s) THEN f[s[i + 1]] \notin A ELSE f[s[i + 1]] = s[(i + 1) + 1]
      BY <3>1, Zenon DEF Path
    <3>3. i # Len(t) => t[i + 1] = s[(i + 1) + 1]
      BY <1>3
    <3> QED
      BY <3>1, <3>2, <3>3, Zenon
  <2> QED
    BY <2>1, <2>2, Zenon DEF Path
<1> QED
  BY <1>1, <1>3, <1>6, <1>7, <1>8, <1>9, Zenon
=============================================================================
