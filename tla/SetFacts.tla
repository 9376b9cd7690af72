-------------------------------- MODULE SetFacts --------------------------------
(***************************************************************************)
(* Facts about finite sets and numbers that the proofs of several modules  *)
(* need.  Induction is by a least counterexample: among subsets of a       *)
(* finite set some is minimal.                                             *)
(***************************************************************************)
EXTENDS Integers, FiniteSets, FiniteSetTheorems, WellFoundedInduction, TLAPS

Minimal(T, Some) == T \in Some /\ \A U \in Some : U \subseteq T => U = T

\* Of some subsets of a finite set, one has none of the others in it.
LEMMA MinimalSubset ==
  ASSUME NEW S, IsFiniteSet(S), NEW Some, Some \subseteq SUBSET S, Some # {}
  PROVE  \E T : Minimal(T, Some)
<1>1. IsWellFoundedOn(StrictSubsetOrdering(S), SUBSET S)
  BY FS_StrictSubsetOrderingWellFounded, FS_FiniteSubsetsOfFinite
<1>2. PICK T \in Some : \A U \in Some : ~(<<U, T>> \in StrictSubsetOrdering(S))
  BY <1>1, WFMin
<1>3. Minimal(T, Some)
  BY <1>2 DEF StrictSubsetOrdering, Minimal
<1> QED BY <1>3

\* Of some numbers, one is the least.
LEMMA LeastNumber ==
  ASSUME NEW S \in SUBSET Nat, S # {}
  PROVE  \E x \in S : \A y \in S : x <= y
<1>1. PICK n \in S : TRUE
  OBVIOUS
<1> DEFINE Below == {0..m : m \in {k \in S : k <= n}}
<1>2. IsFiniteSet(0..n)
  BY FS_Interval
<1>3. Below \subseteq SUBSET (0..n) /\ Below # {}
  OBVIOUS
<1>4. PICK T : Minimal(T, Below)
  <2> HIDE DEF Below
  <2> QED BY <1>2, <1>3, MinimalSubset
<1>5. PICK x \in S : x <= n /\ T = 0..x
  BY <1>4 DEF Minimal
<1>6. ASSUME NEW y \in S, y < x PROVE FALSE
  <2>1. 0..y \in Below /\ 0..y \subseteq T /\ x \notin 0..y /\ x \in T
    BY <1>5, <1>6
  <2> QED BY <1>4, <2>1 DEF Minimal
<1> QED BY <1>6

\* Of some of the first n numbers, one is the greatest.
LEMMA GreatestNumber ==
  ASSUME NEW n \in Nat, NEW S \in SUBSET (0..n), S # {}
  PROVE  \E x \in S : \A y \in S : y <= x
<1> DEFINE T == {n - y : y \in S}
<1>1. T \in SUBSET Nat /\ T # {}
  <2>1. \A y \in S : y \in 0..n /\ n - y \in Nat
    OBVIOUS
  <2> QED BY <2>1
<1>2. PICK z \in T : \A y \in T : z <= y
  <2> HIDE DEF T
  <2> QED BY <1>1, LeastNumber
<1>3. PICK x \in S : z = n - x
  BY <1>2
<1>4. ASSUME NEW y \in S PROVE y <= x
  <2>1. n - y \in T /\ x \in 0..n /\ y \in 0..n
    BY <1>3
  <2>2. n - x <= n - y
    BY <1>2, <1>3, <2>1
  <2> QED BY <2>1, <2>2
<1> QED BY <1>4
=============================================================================
