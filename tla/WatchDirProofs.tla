--------------------------- MODULE WatchDirProofs ---------------------------
(***************************************************************************)
(* What the operators of WatchDir.tla return.                              *)
(***************************************************************************)
EXTENDS WatchDir, Integers, WellFoundedInduction, TLAPS

\* A set of natural numbers that is not empty has a least element.
LEMMA LeastExists ==
    ASSUME NEW S \in SUBSET Nat, S # {}
    PROVE  \E x \in S : \A y \in S : x <= y
<1>1. \A x, y \in Nat : <<x, y>> \in OpToRel(<, Nat) <=> x < y
  BY DEF OpToRel
<1>2. PICK x \in S : \A y \in S : ~(<<y, x>> \in OpToRel(<, Nat))
  BY NatLessThanWellFounded, WFMin
<1>3. ASSUME NEW y \in S
      PROVE  x <= y
  <2>1. ~(y < x)
    BY <1>1, <1>2
  <2>. QED
    BY <2>1
<1>. QED
  BY <1>3

\* So a bounded one has a greatest element.
LEMMA GreatestExists ==
    ASSUME NEW n \in Nat, NEW S \in SUBSET (1..n), S # {}
    PROVE  \E x \in S : \A y \in S : y <= x
<1>. DEFINE D == {n - x : x \in S}
<1>1. D \in SUBSET Nat /\ D # {}
  <2>1. \A x \in S : n - x \in Nat
    OBVIOUS
  <2>. QED
    BY <2>1
<1>2. PICK d \in D : \A e \in D : d <= e
  BY <1>1, LeastExists
<1>3. PICK x \in S : d = n - x
  BY <1>2
<1>4. \A y \in S : n - x <= n - y
  BY <1>2, <1>3
<1>. QED
  BY <1>3, <1>4

\* The name LastName returns is the greatest there is.
LEMMA LastNameIsGreatest ==
    ASSUME NEW n \in Nat, NEW S \in SUBSET (1..n)
    PROVE  /\ LastName(S) \in Nat
           /\ S = {} => LastName(S) = 0
           /\ S # {} => LastName(S) \in S
           /\ \A y \in S : y <= LastName(S)
<1>1. CASE S = {}
  BY <1>1 DEF LastName, Nothing
<1>2. CASE S # {}
  <2>1. \E x \in S : \A y \in S : y <= x
    BY <1>2, GreatestExists
  <2>2. LastName(S) \in S /\ \A y \in S : y <= LastName(S)
    BY <1>2, <2>1, Zenon DEF LastName
  <2>3. LastName(S) \in 1..n
    BY <2>2, Zenon
  <2>4. LastName(S) \in Nat
    BY <2>3
  <2>. QED
    BY <1>2, <2>2, <2>4, Zenon
<1>. QED
  BY <1>1, <1>2
=============================================================================
