------------------------------- MODULE Numbers ------------------------------
(***************************************************************************)
(* A fact about numbers that several proofs rest on.                       *)
(***************************************************************************)
EXTENDS Integers, WellFoundedInduction, TLAPS

(* A bounded set of numbers that is not empty has a largest one.             *)
LEMMA LargestExists ==
  ASSUME NEW n \in Nat, NEW S \in SUBSET (0..n), S # {}
  PROVE  \E x \in S : \A y \in S : y <= x
  <1> DEFINE T == {n - s : s \in S}
  <1>1. \A s \in S : n - s \in Nat
    OBVIOUS
  <1>2. T \subseteq Nat /\ T # {}
    <2>1. PICK s \in S : TRUE
      OBVIOUS
    <2>2. n - s \in T
      BY <2>1
    <2> QED
      BY <1>1, <2>2
  <1>3. PICK x \in T : \A y \in T : ~ (<<y, x>> \in OpToRel(<, Nat))
    <2> HIDE DEF T
    <2> QED
      BY <1>2, NatLessThanWellFounded, WFMin
  <1>4. \A y \in T : x <= y
    <2> HIDE DEF T
    <2> SUFFICES ASSUME NEW y \in T, y < x PROVE FALSE
      BY <1>2
    <2>1. <<y, x>> \in Nat \X Nat
      BY <1>2
    <2>2. <<y, x>>[1] < <<y, x>>[2]
      OBVIOUS
    <2>3. <<y, x>> \in OpToRel(<, Nat)
      BY <2>1, <2>2 DEF OpToRel
    <2> QED
      BY <1>3, <2>3
  <1>5. PICK s \in S : x = n - s
    BY <1>3
  <1>6. \A y \in S : y <= s
    BY <1>4, <1>5
  <1> QED
    BY <1>6

=============================================================================
