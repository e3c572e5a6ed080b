------------------------------ MODULE NatFacts ------------------------------
(***************************************************************************)
(* Least elements and induction over the natural numbers in the form the   *)
(* proofs use them: about a set of numbers, not about a formula.           *)
(***************************************************************************)
EXTENDS FiniteSetTheorems, TLAPS

\* Every non-empty set of naturals has a least element
LEMMA LeastExists ==
  ASSUME NEW S, S \subseteq Nat, S # {}
  PROVE  \E x \in S : \A y \in S : x <= y
<1> DEFINE T == {0..x : x \in S}
<1>1. \A x \in S : 0..x \in FiniteSubsetsOf(Nat)
  BY FS_Interval DEF FiniteSubsetsOf
<1>2. PICK A \in T : \A B \in T : ~(<<B, A>> \in StrictSubsetOrdering(Nat))
  <2>1. T \subseteq FiniteSubsetsOf(Nat) /\ T # {}
    BY <1>1
  <2> QED
    BY <2>1, FS_StrictSubsetOrderingWellFounded, WFMin
<1>3. PICK x \in S : A = 0..x
  OBVIOUS
<1>4. ASSUME NEW y \in S PROVE x <= y
  <2>1. SUFFICES ASSUME y < x PROVE FALSE
    OBVIOUS
  <2>2. 0..y \subseteq 0..x /\ x \in 0..x /\ x \notin 0..y
    BY <2>1
  <2>3. <<0..y, 0..x>> \in StrictSubsetOrdering(Nat)
    BY <2>2 DEF StrictSubsetOrdering
  <2> QED
    BY <1>2, <1>3, <2>3
<1> QED
  BY <1>4

\* A set of naturals that has 0 and the successor of each of its members has all
LEMMA SetInduction ==
  ASSUME NEW S, 0 \in S, \A n \in Nat : n \in S => n + 1 \in S
  PROVE  Nat \subseteq S
<1> SUFFICES ASSUME Nat \ S # {} PROVE FALSE
  OBVIOUS
<1>1. PICK x \in Nat \ S : \A y \in Nat \ S : x <= y
  BY LeastExists
<1>2. x # 0 /\ x - 1 \in Nat /\ x - 1 \in S
  BY <1>1
<1> QED
  BY <1>1, <1>2

\* Subsets of an interval are finite, and their size is a natural number
LEMMA IntervalSubset ==
  ASSUME NEW a \in Int, NEW b \in Int, NEW S, S \subseteq a..b
  PROVE  /\ IsFiniteSet(S) /\ Cardinality(S) \in Nat
         /\ a <= b + 1 => Cardinality(S) <= b - a + 1
<1>1. IsFiniteSet(a..b) /\ Cardinality(a..b) = IF a > b THEN 0 ELSE b - a + 1
  BY FS_Interval
<1>2. IsFiniteSet(S) /\ Cardinality(S) <= Cardinality(a..b)
  BY <1>1, FS_Subset
<1>3. Cardinality(S) \in Nat
  BY <1>2, FS_CardinalityType
<1> QED
  BY <1>1, <1>2, <1>3

\* Moving every number of a finite set by the same distance keeps its size
LEMMA ShiftCardinality ==
  ASSUME NEW S, S \subseteq Int, IsFiniteSet(S), NEW d \in Int,
         NEW T, T \subseteq Int, \A n \in Int : n \in T <=> n - d \in S
  PROVE  IsFiniteSet(T) /\ Cardinality(T) = Cardinality(S)
<1> DEFINE f == [n \in S |-> n + d]
<1>1. f \in [S -> T] /\ \A t \in T : \E n \in S : f[n] = t
  <2>1. \A n \in S : n + d \in Int /\ (n + d) - d = n
    OBVIOUS
  <2>2. \A n \in S : n + d \in T
    BY <2>1
  <2>3. \A t \in T : t - d \in S /\ f[t - d] = t
    OBVIOUS
  <2> QED
    BY <2>2, <2>3
<1>2. \A m, n \in S : f[m] = f[n] => m = n
  OBVIOUS
<1> HIDE DEF f
<1>3. f \in Surjection(S, T) /\ f \in Injection(S, T)
  BY <1>1, <1>2 DEF Surjection, Injection, IsInjective
<1> QED
  BY <1>3, FS_Surjection
=============================================================================
