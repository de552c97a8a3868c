----------------------------- MODULE SetInduction -----------------------------
(***************************************************************************)
(* Induction over the natural numbers, and over sequences, for a set       *)
(* instead of a predicate: the set of those that have some property is     *)
(* formed where it is used.                                                *)
(***************************************************************************)
EXTENDS Integers, WellFoundedInduction, SequenceTheorems, TLAPS

LessThan == {ss \in Nat \X Nat : ss[1] < ss[2]}

LEMMA LessThanWellFounded == IsWellFoundedOn(LessThan, Nat)
BY NatLessThanWellFounded, Zenon DEF OpToRel, LessThan

\* A set of natural numbers has a least member.
LEMMA LeastMember ==
  ASSUME NEW T, T \subseteq Nat, T # {}
  PROVE  \E x \in T : \A y \in T : x <= y
<1>1. PICK x \in T : \A y \in T : <<y, x>> \notin LessThan
  BY WFMin, LessThanWellFounded
<1>2. \A y \in T : ~(y < x)
  <2>1. ASSUME NEW y \in T, y < x PROVE <<y, x>> \in LessThan
    BY <2>1 DEF LessThan
  <2> QED
    BY <1>1, <2>1
<1> QED
  BY <1>2

\* A set with 0 and the successor of every number in it holds every number.
LEMMA NatSetInduction ==
  ASSUME NEW S, 0 \in S, \A n \in Nat : n \in S => n + 1 \in S
  PROVE  Nat \subseteq S
<1> DEFINE T == Nat \ S
<1> SUFFICES ASSUME T # {} PROVE FALSE
  OBVIOUS
<1>1. PICK x \in T : \A y \in T : x <= y
  <2>1. T \subseteq Nat
    OBVIOUS
  <2> HIDE DEF T
  <2> QED
    BY <2>1, LeastMember
<1>3. x # 0 /\ x - 1 \in Nat /\ x - 1 < x /\ (x - 1) + 1 = x
  OBVIOUS
<1>4. x - 1 \in S
  BY <1>1, <1>3
<1> QED
  BY <1>3, <1>4

\* The same up to a bound.
LEMMA IntervalSetInduction ==
  ASSUME NEW N \in Nat, NEW S, 0 \in S, \A n \in 0 .. N - 1 : n \in S => n + 1 \in S
  PROVE  0 .. N \subseteq S
<1> DEFINE T == {n \in Nat : n <= N => n \in S}
<1>1. 0 \in T
  OBVIOUS
<1>2. ASSUME NEW n \in Nat, n \in T PROVE n + 1 \in T
  BY <1>2
<1>3. Nat \subseteq T
  <2> HIDE DEF T
  <2> QED
    BY <1>1, <1>2, NatSetInduction
<1> QED
  BY <1>3

\* A set with <<>> and every extension of a sequence in it holds every sequence.
LEMMA SeqSetInduction ==
  ASSUME NEW S, NEW T, <<>> \in T,
         \A s \in Seq(S) : s \in T => \A e \in S : Append(s, e) \in T
  PROVE  Seq(S) \subseteq T
<1> DEFINE L == {n \in Nat : \A s \in Seq(S) : Len(s) = n => s \in T}
<1>1. 0 \in L
  <2>1. \A s \in Seq(S) : Len(s) = 0 => s = <<>>
    BY EmptySeq
  <2> QED
    BY <2>1
<1>2. ASSUME NEW n \in Nat, n \in L PROVE n + 1 \in L
  <2> SUFFICES ASSUME NEW s \in Seq(S), Len(s) = n + 1 PROVE s \in T
    OBVIOUS
  <2>1. s # <<>>
    BY EmptySeq
  <2>2. PICK front \in Seq(S), e \in S : s = Append(front, e)
    BY <2>1, SequenceEmptyOrAppend
  <2>3. Len(s) = Len(front) + 1 /\ Len(front) \in Nat
    BY <2>2, AppendProperties, LenProperties
  <2>4. Len(front) = n
    BY <2>3
  <2>5. front \in T
    BY <1>2, <2>4
  <2> QED
    BY <2>2, <2>5
<1>3. Nat \subseteq L
  <2> HIDE DEF L
  <2> QED
    BY <1>1, <1>2, NatSetInduction
<1> QED
  BY <1>3, LenProperties

\* g runs from v through values of V by the steps of G.
Iterated(g, N, V, v, G) ==
  g \in [0 .. N -> V] /\ g[0] = v /\ \A n \in 1 .. N : g[n] = G[n][g[n - 1]]

\* What is defined by recursion over 0 .. N exists.
LEMMA Iterates ==
  ASSUME NEW N \in Nat, NEW V, NEW v \in V, NEW G \in [1 .. N -> [V -> V]]
  PROVE  \E g : Iterated(g, N, V, v, G)
<1> DEFINE R(m, g) == g[0] = v /\ \A n \in 1 .. m : g[n] = G[n][g[n - 1]]
           S == {m \in 0 .. N : \E g \in [0 .. m -> V] : R(m, g)}
<1>1. 0 \in S
  <2> DEFINE g == [n \in 0 .. 0 |-> v]
  <2>1. g \in [0 .. 0 -> V] /\ R(0, g)
    OBVIOUS
  <2> HIDE DEF g
  <2>2. \E k \in [0 .. 0 -> V] : R(0, k)
    BY <2>1
  <2> QED
    BY <2>2
<1>2. ASSUME NEW m \in 0 .. N - 1, m \in S PROVE m + 1 \in S
  <2>1. PICK g \in [0 .. m -> V] : R(m, g)
    BY <1>2
  <2> DEFINE h == [n \in 0 .. m + 1 |-> IF n = m + 1 THEN G[m + 1][g[m]] ELSE g[n]]
  <2>2. m + 1 \in 1 .. N /\ m \in 0 .. m /\ m + 1 \in 0 .. N
    OBVIOUS
  <2>3. G[m + 1][g[m]] \in V
    <3>1. G[m + 1] \in [V -> V] /\ g[m] \in V
      BY <2>1, <2>2
    <3> QED
      BY <3>1
  <2>4. h \in [0 .. m + 1 -> V]
    BY <2>1, <2>3
  <2>5. h[0] = v
    BY <2>1
  <2>6. ASSUME NEW n \in 1 .. m + 1 PROVE h[n] = G[n][h[n - 1]]
    <3>1. n - 1 \in 0 .. m /\ n - 1 # m + 1
      OBVIOUS
    <3>2. h[n - 1] = g[n - 1]
      BY <3>1
    <3>3. CASE n = m + 1
      BY <3>2, <3>3
    <3>4. CASE n # m + 1
      <4>1. n \in 1 .. m /\ h[n] = g[n]
        BY <3>4
      <4> QED
        BY <2>1, <3>2, <4>1
    <3> QED
      BY <3>3, <3>4
  <2> HIDE DEF h
  <2> QED
    BY <2>2, <2>4, <2>5, <2>6
<1>3. N \in S
  <2>1. 0 .. N \subseteq S
    <3> HIDE DEF S
    <3> QED
      BY <1>1, <1>2, IntervalSetInduction
  <2> HIDE DEF S
  <2> QED
    BY <2>1
<1> QED
  BY <1>3 DEF Iterated

\* The same without its type.
Follows(k, N, V, v, G) ==
  k[0] = v /\ \A n \in 1 .. N : k[n - 1] \in V => k[n] = G[n][k[n - 1]]

\* There is only one.
LEMMA IteratesOnce ==
  ASSUME NEW N \in Nat, NEW V, NEW v \in V, NEW G, NEW g, Iterated(g, N, V, v, G),
         NEW k, Follows(k, N, V, v, G)
  PROVE  \A n \in 0 .. N : k[n] = g[n]
<1> DEFINE S == {n \in 0 .. N : k[n] = g[n]}
<1>1. g \in [0 .. N -> V] /\ g[0] = v /\ \A n \in 1 .. N : g[n] = G[n][g[n - 1]]
  BY DEF Iterated
<1> k[0] = v /\ \A n \in 1 .. N : k[n - 1] \in V => k[n] = G[n][k[n - 1]]
  BY DEF Follows
<1>2. 0 \in S
  BY <1>1
<1>3. ASSUME NEW n \in 0 .. N - 1, n \in S PROVE n + 1 \in S
  <2> DEFINE m == n + 1
  <2>1. m \in 1 .. N /\ m \in 0 .. N /\ m - 1 = n
    OBVIOUS
  <2> HIDE DEF m
  <2>2. k[m - 1] = g[m - 1] /\ g[m - 1] \in V
    BY <1>1, <1>3, <2>1
  <2>3. k[m] = g[m]
    BY <1>1, <2>1, <2>2
  <2>4. m \in S
    BY <2>1, <2>3
  <2> QED
    BY <2>4 DEF m
<1>4. 0 .. N \subseteq S
  <2> HIDE DEF S
  <2> QED
    BY <1>2, <1>3, IntervalSetInduction
<1> QED
  BY <1>4
===============================================================================
