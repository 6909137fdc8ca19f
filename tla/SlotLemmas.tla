----------------------------- MODULE SlotLemmas -----------------------------
(* Facts about finite sets of slots that the proofs about every arena use. *)
EXTENDS Integers, FiniteSetTheorems, TLAPS

(* A nonempty set of slots has a largest element.                          *)
LEMMA MaxExists ==
  ASSUME NEW n \in Nat, NEW S \in SUBSET (0 .. n - 1), S # {}
  PROVE  \E m \in S : \A j \in S : j <= m
<1> DEFINE Above(i) == {j \in S : i < j}
           T == {Above(i) : i \in S}
<1>1. IsFiniteSet(S) /\ S \subseteq Int
  <2>1. IsFiniteSet(0 .. n - 1)
    BY FS_Interval
  <2>2. IsFiniteSet(S)
    BY <2>1, FS_Subset, Zenon
  <2>3. S \subseteq Int
    <3> SUFFICES ASSUME NEW k \in S PROVE k \in Int
      OBVIOUS
    <3>1. k \in 0 .. n - 1
      BY Zenon
    <3> QED BY <3>1
  <2> QED BY <2>2, <2>3
<1>2. T \subseteq FiniteSubsetsOf(S) /\ T # {}
  <2>1. \A i \in S : Above(i) \subseteq S
    OBVIOUS
  <2>2. \A i \in S : IsFiniteSet(Above(i))
    BY <1>1, <2>1, FS_Subset
  <2> QED BY <2>1, <2>2 DEF FiniteSubsetsOf
<1>3. \E x \in T : \A y \in T : ~ (<<y, x>> \in StrictSubsetOrdering(S))
  <2> HIDE DEF T
  <2> QED BY <1>2, FS_StrictSubsetOrderingWellFounded, WFMin, Zenon
<1>4. PICK m \in S : \A y \in T : <<y, Above(m)>> \notin StrictSubsetOrdering(S)
  BY <1>3, Zenon
<1>5. \A j \in S : j <= m
  <2> SUFFICES ASSUME NEW j \in S, m < j PROVE FALSE
    BY <1>1
  <2>1. j \in Above(m) /\ j \notin Above(j)
    BY <1>1
  <2>2. Above(j) \subseteq Above(m)
    <3> SUFFICES ASSUME NEW k \in S, j < k PROVE m < k
      OBVIOUS
    <3> QED BY <1>1
  <2>3. <<Above(j), Above(m)>> \in StrictSubsetOrdering(S)
    <3> Above(j) \in SUBSET S /\ Above(m) \in SUBSET S
      OBVIOUS
    <3> HIDE DEF Above
    <3> QED BY <2>1, <2>2 DEF StrictSubsetOrdering
  <2> QED BY <1>4, <2>3, Zenon
<1> QED BY <1>5

(* A nonempty set of numbers has a least element: what stands in for       *)
(* induction here.                                                         *)
LEMMA LeastNumber ==
  ASSUME NEW S \in SUBSET Nat, S # {}
  PROVE  \E m \in S : \A k \in S : m <= k
<1> DEFINE R == OpToRel(<, Nat)
<1>1. PICK m \in S : \A k \in S : ~ (<<k, m>> \in R)
  <2>1. IsWellFoundedOn(R, Nat)
    BY NatLessThanWellFounded
  <2> QED BY <2>1, WFMin, Zenon
<1>2. \A k \in S : ~ (k < m)
  BY <1>1 DEF OpToRel
<1> QED BY <1>2

(* Induction up to a number, over a set.                                   *)
LEMMA CountingUp ==
  ASSUME NEW n \in Nat, NEW S, 0 \in S, \A k \in 0 .. n - 1 : k \in S => k + 1 \in S
  PROVE  0 .. n \subseteq S
<1> DEFINE Out == (0 .. n) \ S
<1> SUFFICES ASSUME Out # {} PROVE FALSE
  OBVIOUS
<1>1. Out \in SUBSET Nat
  OBVIOUS
<1>2. PICK m \in Out : \A k \in Out : m <= k
  <2> HIDE DEF Out
  <2> QED BY <1>1, LeastNumber
<1>3. m # 0 /\ m - 1 \in 0 .. n - 1 /\ m - 1 \in S
  BY <1>2
<1> QED BY <1>2, <1>3
=============================================================================
