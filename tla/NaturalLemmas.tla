------------------------------ MODULE NaturalLemmas -----------------------------
(***************************************************************************)
(* Facts about the natural numbers that proofs over sequences and budgets  *)
(* rest on: least numbers, induction, functions defined by recursion, and  *)
(* finite images.  They speak of sets, where a textbook would speak of     *)
(* predicates, because a fact about every set can be cited for a set that  *)
(* is written down on the spot.                                            *)
(***************************************************************************)
EXTENDS Integers, FiniteSets, FiniteSetTheorems, WellFoundedInduction, TLAPS

\* A set of natural numbers that is not empty has a least element: among the
\* intervals that end in the set, finite as they are, one includes no other.
LEMMA LeastNatural ==
    ASSUME NEW T \in SUBSET Nat, T # {}
    PROVE  \E x \in T : \A y \in T : x <= y
<1> DEFINE Intervals == {X \in SUBSET Nat : \E n \in T : X = 0 .. n}
<1>1. \A X \in Intervals : X \in FiniteSubsetsOf(Nat)
  BY FS_Interval DEF FiniteSubsetsOf
<1>2. Intervals # {}
  <2>1. PICK n \in T : TRUE
    OBVIOUS
  <2>2. 0 .. n \in Intervals
    BY <2>1
  <2> QED
    BY <2>2
<1>3. IsWellFoundedOn(StrictSubsetOrdering(Nat), FiniteSubsetsOf(Nat))
  BY FS_StrictSubsetOrderingWellFounded
<1>4. PICK X \in Intervals : \A Y \in Intervals : ~(<<Y, X>> \in StrictSubsetOrdering(Nat))
  <2> HIDE DEF Intervals
  <2> QED
    BY <1>1, <1>2, <1>3, WFMin
<1>5. PICK x \in T : X = 0 .. x
  BY <1>4
<1>6. \A y \in T : x <= y
  <2> SUFFICES ASSUME NEW y \in T, y < x PROVE FALSE
    OBVIOUS
  <2>1. 0 .. y \in Intervals
    OBVIOUS
  <2>2. x \in 0 .. x /\ x \notin 0 .. y
    OBVIOUS
  <2>3. <<0 .. y, X>> \in StrictSubsetOrdering(Nat)
    BY <2>1, <2>2, <1>4, <1>5 DEF StrictSubsetOrdering
  <2> QED
    BY <2>1, <2>3, <1>4
<1> QED
  BY <1>5, <1>6

\* A set that holds zero and with each number the next one holds them all.
LEMMA NaturalInduction ==
    ASSUME NEW S \in SUBSET Nat, 0 \in S, \A n \in S : n + 1 \in S
    PROVE  S = Nat
<1> SUFFICES ASSUME Nat \ S # {} PROVE FALSE
  OBVIOUS
<1>1. PICK x \in Nat \ S : \A y \in Nat \ S : x <= y
  BY LeastNatural
<1>2. x - 1 \in S
  BY <1>1
<1> QED
  BY <1>1, <1>2

\* The function g on 0 .. n starts with a and goes on by the steps.
Recurs(n, A, a, step, g) ==
    g \in [0 .. n -> A] /\ g[0] = a /\ \A i \in 1 .. n : g[i] = step[i][g[i - 1]]

\* A function on the first n numbers that is defined by recursion exists, once
\* the values it may take are a set that every step stays in.
LEMMA RecursionExists ==
    ASSUME NEW n \in Nat, NEW A, NEW a \in A, NEW step \in [1 .. n -> [A -> A]]
    PROVE  \E g : Recurs(n, A, a, step, g)
<1> DEFINE Follows(m, g) == g[0] = a /\ \A i \in 1 .. m : g[i] = step[i][g[i - 1]]
           Some(m) == \E g \in [0 .. m -> A] : Follows(m, g)
           S == {m \in Nat : m <= n => Some(m)}
<1>1. 0 \in S
  <2>1. [i \in 0 .. 0 |-> a] \in [0 .. 0 -> A] /\ Follows(0, [i \in 0 .. 0 |-> a])
    OBVIOUS
  <2> QED
    BY <2>1
<1>2. \A m \in S : m + 1 \in S
  <2> SUFFICES ASSUME NEW m \in Nat, m \in S, m + 1 <= n PROVE Some(m + 1)
    <3> HIDE DEF Some
    <3> QED
      OBVIOUS
  <2>0. Some(m)
    <3> HIDE DEF Some
    <3> QED
      OBVIOUS
  <2>1. PICK g \in [0 .. m -> A] : Follows(m, g)
    BY <2>0
  <2> DEFINE e == step[m + 1][g[m]]
             h == [i \in 0 .. m + 1 |-> IF i <= m THEN g[i] ELSE e]
  <2>2. g[m] \in A /\ m + 1 \in 1 .. n
    OBVIOUS
  <2>3. e \in A
    BY <2>2
  <2> HIDE DEF e
  <2>4. h \in [0 .. m + 1 -> A]
    BY <2>3
  <2>5. ASSUME NEW i \in 1 .. m + 1 PROVE h[i] = step[i][h[i - 1]]
    <3>1. CASE i <= m
      BY <3>1, <2>1
    <3>2. CASE i = m + 1
      <4>1. h[m + 1] = e /\ h[m] = g[m]
        OBVIOUS
      <4>2. i - 1 = m
        BY <3>2
      <4> HIDE DEF h
      <4>3. h[i] = e /\ h[i - 1] = g[m]
        BY <3>2, <4>1, <4>2
      <4> QED
        BY <3>2, <4>3 DEF e
    <3> QED
      BY <3>1, <3>2
  <2>6. h[0] = a
    BY <2>1
  <2> HIDE DEF h
  <2> QED
    BY <2>4, <2>5, <2>6
<1>3. S = Nat
  <2> HIDE DEF S
  <2>1. S \in SUBSET Nat
    BY DEF S
  <2> QED
    BY <1>1, <1>2, <2>1, NaturalInduction
<1>4. n \in S
  BY <1>3
<1>5. Some(n)
  <2> HIDE DEF Some
  <2> QED
    BY <1>4
<1> QED
  BY <1>5 DEF Recurs

\* The running totals of n natural numbers exist.
LEMMA RunningTotals ==
    ASSUME NEW n \in Nat, NEW f \in [1 .. n -> Nat]
    PROVE  \E g \in [0 .. n -> Nat] : g[0] = 0 /\ \A i \in 1 .. n : g[i] = g[i - 1] + f[i]
<1> DEFINE step == [i \in 1 .. n |-> [k \in Nat |-> k + f[i]]]
<1>1. step \in [1 .. n -> [Nat -> Nat]]
  OBVIOUS
<1>2. \A i \in 1 .. n, k \in Nat : step[i][k] = k + f[i]
  OBVIOUS
<1> HIDE DEF step
<1>3. PICK g \in [0 .. n -> Nat] : g[0] = 0 /\ \A i \in 1 .. n : g[i] = step[i][g[i - 1]]
  <2>1. 0 \in Nat
    OBVIOUS
  <2>2. \E g : Recurs(n, Nat, 0, step, g)
    BY <1>1, <2>1, RecursionExists
  <2> QED
    BY <2>2 DEF Recurs
<1>4. \A i \in 1 .. n : g[i] = g[i - 1] + f[i]
  <2>1. \A i \in 1 .. n : g[i - 1] \in Nat
    OBVIOUS
  <2> QED
    BY <1>2, <1>3, <2>1
<1> QED
  BY <1>3, <1>4

\* A function on a finite set takes finitely many values.
LEMMA ImageIsFinite ==
    ASSUME NEW S, IsFiniteSet(S), NEW f, DOMAIN f = S, f = [x \in S |-> f[x]]
    PROVE  IsFiniteSet({f[x] : x \in S})
<1> DEFINE T == {f[x] : x \in S}
<1>1. f \in Surjection(S, T)
  BY DEF Surjection
<1> HIDE DEF T
<1>2. IsFiniteSet(T)
  BY <1>1, FS_Surjection
<1> QED
  BY <1>2 DEF T
================================================================================
