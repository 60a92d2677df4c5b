---------------------------- MODULE NaturalFacts ----------------------------
(***************************************************************************)
(* Facts about the naturals that the proofs of several modules rest on:    *)
(* smallest and largest elements, and induction over a set of naturals     *)
(* (the library's induction theorems take an operator, which the provers   *)
(* cannot instantiate; a set they can).                                    *)
(***************************************************************************)
EXTENDS Integers, FiniteSetsExt, WellFoundedInduction, TLAPS

-----------------------------------------------------------------------------
(* Smallest and largest elements *)

\* The order on the naturals as a set of pairs, the form WFMin takes.
LessThan == {ss \in Nat \X Nat : ss[1] < ss[2]}

LEMMA LessThanWellFounded == IsWellFoundedOn(LessThan, Nat)
<1>1. OpToRel(<, Nat) = LessThan
  BY DEF OpToRel, LessThan
<1>2. QED
  BY <1>1, NatLessThanWellFounded

\* Every non-empty set of naturals has a smallest element.
LEMMA SmallestExists ==
  ASSUME NEW S \in SUBSET Nat, S # {}
  PROVE  \E m \in S : \A y \in S : m <= y
<1>1. PICK m \in S : \A y \in S : ~ (<<y, m>> \in LessThan)
  BY WFMin, LessThanWellFounded
<1>2. \A y \in Nat : y < m => <<y, m>> \in LessThan
  BY DEF LessThan
<1>3. \A y \in S : ~ (y < m)
  BY <1>1, <1>2
<1>4. QED
  BY <1>3

\* Min returns the smallest element: the base offset that sealing and recovery
\* give a segment, the first record a read returns.
LEMMA MinOfNaturals ==
  ASSUME NEW S \in SUBSET Nat, S # {}
  PROVE  Min(S) \in S /\ \A x \in S : Min(S) <= x
  BY SmallestExists DEF Min

\* Max of a non-empty set of integers with a bound is its largest element: the
\* last offset of a segment, the tail that recovery finds and the frames it
\* keeps.
LEMMA MaxOfBounded ==
  ASSUME NEW N \in Int, NEW S \in SUBSET Int, S # {}, \A x \in S : x <= N
  PROVE  Max(S) \in S /\ \A x \in S : x <= Max(S)
<1> DEFINE T == {N - x : x \in S}
<1>1. T \in SUBSET Nat /\ T # {}
  <2>1. \A x \in S : x \in Int /\ N - x \in Nat
    OBVIOUS
  <2>2. \A t \in T : t \in Nat
    BY <2>1
  <2>3. QED
    BY <2>2
<1>2. \A y \in S : N - y \in T
  OBVIOUS
<1>3. \A m \in T : \E x \in S : m = N - x
  OBVIOUS
<1> HIDE DEF T
<1>4. PICK m \in T : \A y \in T : m <= y
  BY <1>1, SmallestExists
<1>5. PICK x \in S : m = N - x
  BY <1>3
<1>6. \A y \in S : y <= x
  BY <1>1, <1>2, <1>4, <1>5
<1>7. QED
  BY <1>6 DEF Max

-----------------------------------------------------------------------------
(* Induction *)

\* What holds of 0 and, up to N, of n + 1 whenever it holds of n, holds of all
\* of 0 .. N: the shape of every argument about a recursive function here.
LEMMA IntervalInduction ==
  ASSUME NEW N \in Nat, NEW S, 0 \in S, \A n \in 0 .. N : n \in S /\ n < N => n + 1 \in S
  PROVE  \A n \in 0 .. N : n \in S
<1> DEFINE Bad == {n \in 0 .. N : n \notin S}
<1>1. SUFFICES ASSUME Bad # {} PROVE FALSE
  OBVIOUS
<1>2. PICK m \in Bad : \A y \in Bad : m <= y
  <2>1. Bad \in SUBSET Nat
    OBVIOUS
  <2> HIDE DEF Bad
  <2>2. QED
    BY <1>1, <2>1, SmallestExists
<1>3. m \in 1 .. N /\ m \notin S /\ m - 1 \in 0 .. N /\ m - 1 < N /\ (m - 1) + 1 = m
  BY <1>2
<1>4. m - 1 \notin Bad
  BY <1>2, <1>3
<1>5. m - 1 \in S
  BY <1>3, <1>4
<1>6. QED
  BY <1>3, <1>5
=============================================================================
