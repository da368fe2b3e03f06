---------------------------- MODULE LeastNumbers ----------------------------
(***************************************************************************)
(* Sets of natural numbers have a least element: what the other proofs use *)
(* where an induction would be used on paper.  It follows from the         *)
(* library's well-founded order on finite sets, of which 1..n is one.      *)
(***************************************************************************)
EXTENDS Naturals, FiniteSetTheorems, WellFoundedInduction, TLAPS

(* A non-empty set of natural numbers has a least element.                 *)
LEMMA LeastNumber ==
  ASSUME NEW T \in SUBSET Nat, T # {}
  PROVE  \E m \in T : \A k \in T : ~(k < m)
<1> DEFINE upTo == {1..n : n \in T}
           smaller == StrictSubsetOrdering(Nat)
<1>1. upTo # {} /\ upTo \subseteq FiniteSubsetsOf(Nat)
  <2>1. \A n \in T : 1..n \in SUBSET Nat /\ IsFiniteSet(1..n)
    BY FS_Interval
  <2> QED BY <2>1 DEF FiniteSubsetsOf
<1>2. \E x \in upTo : \A y \in upTo : ~(<<y, x>> \in smaller)
  <2>1. IsWellFoundedOn(smaller, FiniteSubsetsOf(Nat))
    BY FS_StrictSubsetOrderingWellFounded
  <2> HIDE DEF smaller, upTo
  <2> QED BY <1>1, <2>1, WFMin
<1>3. PICK m \in T : \A k \in T : ~(<<1..k, 1..m>> \in smaller)
  BY <1>2
<1>4. \A k \in T : ~(k < m)
  <2> SUFFICES ASSUME NEW k \in T, k < m PROVE FALSE
    OBVIOUS
  <2>1. 1..k \subseteq 1..m /\ m \in 1..m /\ m \notin 1..k
    OBVIOUS
  <2>2. <<1..k, 1..m>> \in smaller
    BY <2>1 DEF StrictSubsetOrdering
  <2> QED BY <1>3, <2>2
<1> HIDE DEF upTo, smaller
<1> QED BY <1>4
=============================================================================
