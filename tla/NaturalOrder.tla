---------------------------- MODULE NaturalOrder ----------------------------
(***************************************************************************)
(* Induction over the natural numbers, stated for sets: the theorems of    *)
(* NaturalsInduction take an operator.  The proofs about histories and     *)
(* mappings, sequences of any length, use it.                              *)
(***************************************************************************)
EXTENDS Integers, FiniteSets, FiniteSetTheorems, WellFoundedInduction, TLAPS

\* A set of natural numbers that is not empty has a least one.
LEMMA LeastNatural ==
    ASSUME NEW T \in SUBSET Nat, T # {}
    PROVE  \E x \in T : \A y \in T : x <= y
<1> DEFINE below(x) == 0..(x - 1)
           sets == {below(x) : x \in T}
<1>1. sets \subseteq FiniteSubsetsOf(Nat)
  <2>1. ASSUME NEW x \in T PROVE below(x) \subseteq Nat /\ IsFiniteSet(below(x))
    BY FS_Interval
  <2>2. QED
    BY <2>1 DEF FiniteSubsetsOf
<1>2. sets # {}
  OBVIOUS
<1> HIDE DEF sets
<1>3. PICK s \in sets : \A r \in sets : ~(<<r, s>> \in StrictSubsetOrdering(Nat))
  BY <1>1, <1>2, FS_StrictSubsetOrderingWellFounded, WFMin
<1> USE DEF sets
<1>4. PICK x \in T : s = below(x)
  OBVIOUS
<1>5. ASSUME NEW y \in T, y < x PROVE FALSE
  <2>1. below(y) \subseteq below(x) /\ y \in below(x) /\ y \notin below(y)
    BY <1>5
  <2>2. <<below(y), below(x)>> \in StrictSubsetOrdering(Nat)
    BY <2>1 DEF StrictSubsetOrdering
  <2>3. QED
    BY <1>3, <1>4, <2>2
<1>6. QED
  BY <1>4, <1>5

\* A set with 0 and the successor of each natural number in it has them all.
LEMMA NaturalsFrom0 ==
    ASSUME NEW S, 0 \in S, \A n \in Nat : n \in S => n + 1 \in S
    PROVE  Nat \subseteq S
<1> SUFFICES ASSUME Nat \ S # {} PROVE FALSE
  OBVIOUS
<1>1. PICK x \in Nat \ S : \A y \in Nat \ S : x <= y
  BY LeastNatural
<1>2. x # 0 /\ x - 1 \in Nat
  BY <1>1
<1>3. x - 1 \in S
  BY <1>1, <1>2
<1>4. QED
  BY <1>1, <1>2, <1>3
=============================================================================
