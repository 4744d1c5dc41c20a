------------------------------- MODULE Orders -------------------------------
(***************************************************************************)
(* Facts about numbers and orders that the proofs of several modules rest  *)
(* on: the least of a set of numbers, intervals, the larger of two, and    *)
(* the places in a strict total order on a finite set, which the final     *)
(* rankings of the three rules are.                                        *)
(***************************************************************************)
EXTENDS Integers, FiniteSetsExt, Functions, FiniteSetTheorems, WellFoundedInduction, TLAPS

-----------------------------------------------------------------------------
(* Numbers. *)

\* What replaces induction over the elements of a sequence: the least number for
\* which a fact fails is the one to look at.
LEMMA LeastNumber ==
    ASSUME NEW T \in SUBSET Nat, T # {}
    PROVE  \E m \in T : \A k \in T : m <= k
<1>1. PICK m \in T : \A k \in T : <<k, m>> \notin OpToRel(<, Nat)
  BY NatLessThanWellFounded, WFMin
<1>2. \A k \in T : ~(k < m)
  BY <1>1 DEF OpToRel
<1> QED
  BY <1>2

\* A fact that goes from each number to the next holds of all those from 0.
LEMMA StepByStep ==
    ASSUME NEW n \in Nat, NEW T, 0 \in T, \A k \in 1 .. n : k - 1 \in T => k \in T
    PROVE  0 .. n \subseteq T
<1> DEFINE fails == {k \in 0 .. n : k \notin T}
<1> SUFFICES ASSUME fails # {} PROVE FALSE
  OBVIOUS
<1>1. PICK m \in fails : \A k \in fails : m <= k
  <2>1. fails \in SUBSET Nat
    OBVIOUS
  <2> HIDE DEF fails
  <2> QED
    BY <2>1, LeastNumber
<1>2. m \in 1 .. n /\ m - 1 \in 0 .. n /\ ~(m <= m - 1)
  OBVIOUS
<1>3. m - 1 \in T
  BY <1>1, <1>2
<1> QED
  BY <1>2, <1>3

\* The folds of the community modules take the elements out from the last one.
LEMMA LargestOfInterval ==
    ASSUME NEW n \in Nat \ {0}
    PROVE  Max(1 .. n) = n
<1>1. n \in 1 .. n /\ \A y \in 1 .. n : n >= y
  OBVIOUS
<1>2. \A x \in 1 .. n : (\A y \in 1 .. n : x >= y) => x = n
  OBVIOUS
<1> QED
  BY <1>1, <1>2 DEF Max

\* What is left is shorter by one.
LEMMA IntervalWithoutLast ==
    ASSUME NEW n \in Nat \ {0}
    PROVE  (1 .. n) \ {n} = 1 .. (n - 1)
<1>1. \A i \in 1 .. n : i # n => i \in 1 .. (n - 1)
  OBVIOUS
<1>2. \A i \in 1 .. (n - 1) : i \in 1 .. n /\ i # n
  OBVIOUS
<1> QED
  BY <1>1, <1>2

-----------------------------------------------------------------------------
(* The smaller and the larger of two numbers. *)

\* Min answers one of the two, at most the other.
LEMMA MinOfTwo ==
    ASSUME NEW a \in Int, NEW b \in Int
    PROVE  Min({a, b}) \in {a, b} /\ Min({a, b}) <= a /\ Min({a, b}) <= b
<1>1. \E x \in {a, b} : \A y \in {a, b} : x <= y
    <2>1. CASE a <= b  BY <2>1
    <2>2. CASE b <= a  BY <2>2
    <2> QED  BY <2>1, <2>2
<1> QED  BY <1>1 DEF Min

\* Max answers one of the two, at least the other.
LEMMA MaxOfTwo ==
    ASSUME NEW a \in Int, NEW b \in Int
    PROVE  Max({a, b}) \in {a, b} /\ a <= Max({a, b}) /\ b <= Max({a, b})
<1>1. \E x \in {a, b} : \A y \in {a, b} : y <= x
    <2>1. CASE a <= b  BY <2>1
    <2>2. CASE b <= a  BY <2>2
    <2> QED  BY <2>1, <2>2
<1> QED  BY <1>1 DEF Max

-----------------------------------------------------------------------------
(* Places.  The order is a set R of pairs; the place of r is one more than the *)
(* number of those ahead of it.                                                *)

StrictTotalOrder(R, S) ==
    /\ \A a \in S : <<a, a>> \notin R
    /\ \A a, b, c \in S : <<a, b>> \in R /\ <<b, c>> \in R => <<a, c>> \in R
    /\ \A a, b \in S : a = b \/ <<a, b>> \in R \/ <<b, a>> \in R

Preceding(R, S, r) == {q \in S : <<q, r>> \in R}

PlaceIn(R, S, r) == Cardinality(Preceding(R, S, r)) + 1

\* A subset that misses an element is smaller.
LEMMA ProperSubsetIsSmaller ==
    ASSUME NEW S, IsFiniteSet(S), NEW T \in SUBSET S, T # S
    PROVE  /\ IsFiniteSet(T)
           /\ Cardinality(T) \in Nat
           /\ Cardinality(S) \in Nat
           /\ Cardinality(T) < Cardinality(S)
  BY FS_Subset, FS_CardinalityType, SMT

\* The place of an element lies between 1 and the number of elements.
LEMMA PlaceBounds ==
    ASSUME NEW R, NEW S, IsFiniteSet(S), StrictTotalOrder(R, S), NEW r \in S
    PROVE  PlaceIn(R, S, r) \in 1 .. Cardinality(S)
  <1>1. Preceding(R, S, r) \in SUBSET S /\ r \notin Preceding(R, S, r)
    BY DEF Preceding, StrictTotalOrder
  <1>2. Preceding(R, S, r) # S
    BY <1>1
  <1> QED
    BY <1>1, <1>2, ProperSubsetIsSmaller, SMT DEF PlaceIn

\* The one ahead has the smaller place.
LEMMA PlacesFollowOrder ==
    ASSUME NEW R, NEW S, IsFiniteSet(S), StrictTotalOrder(R, S),
           NEW a \in S, NEW b \in S, <<a, b>> \in R
    PROVE  PlaceIn(R, S, a) < PlaceIn(R, S, b)
  <1>1. Preceding(R, S, a) \subseteq Preceding(R, S, b)
    BY DEF Preceding, StrictTotalOrder
  <1>2. a \in Preceding(R, S, b) /\ a \notin Preceding(R, S, a)
    BY DEF Preceding, StrictTotalOrder
  <1>3. IsFiniteSet(Preceding(R, S, b))
    BY FS_Subset DEF Preceding
  <1> QED
    BY <1>1, <1>2, <1>3, ProperSubsetIsSmaller, SMT DEF PlaceIn

\* Every place is held, by one element only: the ranking is a bijection.
LEMMA PlacesAreABijection ==
    ASSUME NEW R, NEW S, IsFiniteSet(S), StrictTotalOrder(R, S)
    PROVE  /\ {PlaceIn(R, S, r) : r \in S} = 1 .. Cardinality(S)
           /\ \A a, b \in S : PlaceIn(R, S, a) = PlaceIn(R, S, b) => a = b
  <1> DEFINE T == 1 .. Cardinality(S)
             f == [r \in S |-> PlaceIn(R, S, r)]
  <1>1. f \in [S -> T]
    BY PlaceBounds
  <1>2. ASSUME NEW a \in S, NEW b \in S, f[a] = f[b]
        PROVE  a = b
    <2>1. PlaceIn(R, S, a) = PlaceIn(R, S, b) /\ PlaceIn(R, S, a) \in Int
      BY <1>2, PlaceBounds
    <2>2. CASE <<a, b>> \in R
      BY <2>1, <2>2, PlacesFollowOrder, SMT
    <2>3. CASE <<b, a>> \in R
      BY <2>1, <2>3, PlacesFollowOrder, SMT
    <2> QED
      BY <2>2, <2>3 DEF StrictTotalOrder
  <1>3. f \in Injection(S, T)
    BY <1>1, <1>2 DEF Injection, IsInjective
  <1>4. IsFiniteSet(T) /\ Cardinality(T) = Cardinality(S)
    BY FS_CardinalityType, FS_Interval, SMT
  <1>5. f \in Surjection(S, T)
    BY <1>3, <1>4, FS_Injection
  <1>6. \A t \in T : \E r \in S : f[r] = t
    BY <1>5 DEF Surjection
  <1> HIDE DEF T
  <1>7. {PlaceIn(R, S, r) : r \in S} = T
    BY <1>1, <1>6
  <1> QED
    BY <1>2, <1>7 DEF T

\* Somebody is first: nobody is ahead of it.
LEMMA SomeoneIsFirst ==
    ASSUME NEW R, NEW S, IsFiniteSet(S), StrictTotalOrder(R, S), S # {}
    PROVE  \E r \in S : \A q \in S : <<q, r>> \notin R
  <1>1. Cardinality(S) \in Nat \ {0}
    BY FS_CardinalityType, FS_EmptySet, SMT
  <1>2. 1 \in 1 .. Cardinality(S)
    BY <1>1
  <1>3. PICK r \in S : PlaceIn(R, S, r) = 1
    BY <1>2, PlacesAreABijection
  <1>4. IsFiniteSet(Preceding(R, S, r))
    BY FS_Subset DEF Preceding
  <1>5. Cardinality(Preceding(R, S, r)) = 0
    BY <1>3, <1>4, FS_CardinalityType, SMT DEF PlaceIn
  <1>6. Preceding(R, S, r) = {}
    BY <1>4, <1>5, FS_EmptySet
  <1> QED
    BY <1>6 DEF Preceding
=============================================================================
