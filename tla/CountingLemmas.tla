---------------------------- MODULE CountingLemmas ----------------------------
(***************************************************************************)
(* Lemmas about numbers that the proofs about folds share.  A fold and a    *)
(* recursive function are defined by a choice of a function that follows    *)
(* the recursion; that there is one, and what it does, is built up number   *)
(* by number, from a least number that would fail.                          *)
(***************************************************************************)
EXTENDS Naturals, FiniteSetsExt, NaturalsInduction, WellFoundedInduction, TLAPS

\* A set of numbers has a least one.
LEMMA LeastNatural ==
    ASSUME NEW T \in SUBSET Nat, T # {}
    PROVE  \E x \in T : \A y \in T : x <= y
<1> DEFINE R == {ss \in Nat \X Nat : ss[1] < ss[2]}
<1>1. IsWellFoundedOn(R, Nat)
  BY NatLessThanWellFounded DEF OpToRel
<1> HIDE DEF R
<1>2. PICK x \in T : \A y \in T : ~ (<<y, x>> \in R)
  BY <1>1, WFMin
<1>3. ASSUME NEW y \in T PROVE x <= y
  <2>1. x \in Nat /\ y \in Nat /\ ~(y < x)
    BY <1>2 DEF R
  <2> QED BY <2>1
<1> QED BY <1>3

\* A set of numbers with 0 and with n + 1 for each n has all of them.
LEMMA AllNaturals ==
    ASSUME NEW T, 0 \in T, \A n \in Nat : n \in T => n + 1 \in T
    PROVE  \A n \in Nat : n \in T
<1> SUFFICES ASSUME NEW m \in Nat, m \notin T PROVE FALSE
  OBVIOUS
<1>1. PICK x \in Nat \ T : \A y \in Nat \ T : x <= y
  <2>1. Nat \ T \in SUBSET Nat /\ Nat \ T # {}
    OBVIOUS
  <2> QED BY <2>1, LeastNatural
<1>2. x # 0 /\ x \in Nat
  BY <1>1
<1>3. x - 1 \in Nat /\ x - 1 \in T
  BY <1>1, <1>2
<1>4. x - 1 + 1 \in T
  BY <1>3
<1> QED BY <1>1, <1>2, <1>4

LEMMA MaxOfRange ==
    ASSUME NEW k \in Nat \ {0}
    PROVE  Max(1..k) = k /\ (1..k) \ {Max(1..k)} = 1..(k - 1)
<1>1. Max(1..k) = k
  BY DEF Max
<1> QED BY <1>1

\* Some numbers up to n have a greatest one.
LEMMA MaxOfPart ==
    ASSUME NEW n \in Nat, NEW T \in SUBSET (1..n), T # {}
    PROVE  Max(T) \in T /\ \A y \in T : Max(T) >= y
<1>1. PICK y \in {n - k : k \in T} : \A z \in {n - k : k \in T} : y <= z
  <2>1. \A k \in T : n - k \in Nat
    OBVIOUS
  <2>2. {n - k : k \in T} \in SUBSET Nat
    BY <2>1
  <2>3. {n - k : k \in T} # {}
    OBVIOUS
  <2> QED BY <2>2, <2>3, LeastNatural
<1>2. PICK x \in T : y = n - x
  BY <1>1
<1>3. ASSUME NEW z \in T PROVE x >= z
  <2>1. y <= n - z /\ x \in Int /\ z \in Int
    BY <1>1
  <2> QED BY <1>2, <2>1
<1> QED BY <1>3 DEF Max
=============================================================================
