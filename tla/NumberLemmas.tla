---------------------------- MODULE NumberLemmas ----------------------------
(***************************************************************************)
(* The smallest and the largest of a set of natural numbers: what a CHOOSE *)
(* of the modules relies on, from the well-foundedness of their order.     *)
(***************************************************************************)
EXTENDS Integers, WellFoundedInduction, TLAPS

\* The order of the natural numbers is well-founded.
LEMMA LessIsWellFounded ==
    \E less : /\ IsWellFoundedOn(less, Nat)
              /\ \A a, b \in Nat : <<a, b>> \in less <=> a < b
  <1>1. \A a, b \in Nat : <<a, b>> \in OpToRel(<, Nat) <=> a < b
    BY DEF OpToRel
  <1> QED
    BY <1>1, NatLessThanWellFounded, Zenon

\* A set of natural numbers that is not empty has a smallest one.
LEMMA SmallestExists ==
    ASSUME NEW T \in SUBSET Nat, T # {}
    PROVE  \E m \in T : \A u \in T : m <= u
  <1>1. PICK less : /\ IsWellFoundedOn(less, Nat)
                    /\ \A a, b \in Nat : <<a, b>> \in less <=> a < b
    BY LessIsWellFounded
  <1>2. T \subseteq Nat
    OBVIOUS
  <1>3. \E m \in T : \A u \in T : ~(<<u, m>> \in less)
    <2>1. IsWellFoundedOn(less, Nat)
      BY <1>1
    <2> QED
      BY <1>2, <2>1, WFMin
  <1>4. PICK m \in T : \A u \in T : ~(<<u, m>> \in less)
    BY <1>3
  <1>5. ASSUME NEW u \in T PROVE m <= u
    <2>1. u \in Nat /\ m \in Nat
      BY <1>2
    <2>2. ~(u < m)
      BY <1>1, <1>4, <2>1, Zenon
    <2> QED
      BY <2>1, <2>2
  <1> QED
    BY <1>5

\* A set of numbers that is bounded and not empty has a largest one.
LEMMA LargestExists ==
    ASSUME NEW n \in Nat, NEW S \in SUBSET (1 .. n), S # {}
    PROVE  \E m \in S : \A u \in S : u <= m
  <1> DEFINE T == {n - v : v \in S}
  <1>1. T \in SUBSET Nat /\ T # {}
    <2>1. \A v \in S : v \in Int /\ v <= n
      OBVIOUS
    <2>2. \A v \in S : n - v \in Nat
      BY <2>1
    <2>3. PICK v \in S : TRUE
      OBVIOUS
    <2>4. n - v \in T
      BY <2>3
    <2> QED
      BY <2>2, <2>4
  <1>2. PICK x \in T : \A y \in T : x <= y
    BY <1>1, SmallestExists
  <1>3. PICK m \in S : x = n - m
    OBVIOUS
  <1>4. ASSUME NEW u \in S PROVE u <= m
    <2>1. n - u \in T
      OBVIOUS
    <2>2. n - m <= n - u
      BY <1>2, <1>3, <2>1
    <2>3. n \in Int /\ u \in Int /\ m \in Int
      OBVIOUS
    <2> QED
      BY <2>2, <2>3
  <1> QED
    BY <1>4
=============================================================================
