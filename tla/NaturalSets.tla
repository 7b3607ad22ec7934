----------------------------- MODULE NaturalSets ----------------------------
(***************************************************************************)
(* The least and the greatest element of a set of numbers, on which the     *)
(* orders of RouteRegistry (addresses) and of Selection (namespaces) rest,  *)
(* and the positions that Evaluation looks for in its lists.                *)
(***************************************************************************)
EXTENDS Naturals, FiniteSets, FiniteSetTheorems, TLAPS

(* A finite set of numbers that is not empty has a lowest one ...           *)
LEMMA LowestNatural ==
    ASSUME NEW S, S \subseteq Nat, S # {}, IsFiniteSet(S)
    PROVE  \E x \in S : \A y \in S : x <= y
<1> DEFINE Below(x) == {y \in S : y < x}
           F == {Below(x) : x \in S}
           R == StrictSubsetOrdering(S)
<1>1. PICK f \in F : \A g \in F : ~ (<<g, f>> \in R)
  <2>0. FiniteSubsetsOf(S) = SUBSET S
    BY FS_FiniteSubsetsOfFinite
  <2>1. F # {} /\ F \subseteq FiniteSubsetsOf(S)
    <3>1. F # {} /\ F \subseteq SUBSET S
      OBVIOUS
    <3> QED
      BY <3>1, <2>0
  <2>2. IsWellFoundedOn(R, FiniteSubsetsOf(S))
    BY FS_StrictSubsetOrderingWellFounded
  <2> HIDE DEF F, R
  <2> QED
    BY <2>1, <2>2, WFMin
<1>2. PICK x \in S : f = Below(x)
  OBVIOUS
<1>3. ASSUME NEW y \in S, y < x PROVE FALSE
  <2>1. Below(y) \in F /\ Below(y) \in SUBSET S /\ Below(x) \in SUBSET S
    OBVIOUS
  <2>2. Below(y) \subseteq Below(x)
    <3>1. \A z \in S : z < y /\ y < x => z < x
      OBVIOUS
    <3> QED
      BY <3>1, <1>3
  <2>3. y \in Below(x) /\ y \notin Below(y)
    BY <1>3
  <2>4. <<Below(y), Below(x)>> \in R
    BY <2>1, <2>2, <2>3 DEF StrictSubsetOrdering
  <2> QED
    BY <1>1, <1>2, <2>1, <2>4
<1>4. \A y \in S : x <= y
  BY <1>3
<1> QED
  BY <1>4

(* ... and a highest one.                                                   *)
LEMMA HighestNatural ==
    ASSUME NEW S, S \subseteq Nat, S # {}, IsFiniteSet(S)
    PROVE  \E x \in S : \A y \in S : y <= x
<1> DEFINE Above(x) == {y \in S : x < y}
           F == {Above(x) : x \in S}
           R == StrictSubsetOrdering(S)
<1>1. PICK f \in F : \A g \in F : ~ (<<g, f>> \in R)
  <2>0. FiniteSubsetsOf(S) = SUBSET S
    BY FS_FiniteSubsetsOfFinite
  <2>1. F # {} /\ F \subseteq FiniteSubsetsOf(S)
    <3>1. F # {} /\ F \subseteq SUBSET S
      OBVIOUS
    <3> QED
      BY <3>1, <2>0
  <2>2. IsWellFoundedOn(R, FiniteSubsetsOf(S))
    BY FS_StrictSubsetOrderingWellFounded
  <2> HIDE DEF F, R
  <2> QED
    BY <2>1, <2>2, WFMin
<1>2. PICK x \in S : f = Above(x)
  OBVIOUS
<1>3. ASSUME NEW y \in S, x < y PROVE FALSE
  <2>1. Above(y) \in F /\ Above(y) \in SUBSET S /\ Above(x) \in SUBSET S
    OBVIOUS
  <2>2. Above(y) \subseteq Above(x)
    <3>1. \A z \in S : x < y /\ y < z => x < z
      OBVIOUS
    <3> QED
      BY <3>1, <1>3
  <2>3. y \in Above(x) /\ y \notin Above(y)
    BY <1>3
  <2>4. <<Above(y), Above(x)>> \in R
    BY <2>1, <2>2, <2>3 DEF StrictSubsetOrdering
  <2> QED
    BY <1>1, <1>2, <2>1, <2>4
<1>4. \A y \in S : y <= x
  BY <1>3
<1> QED
  BY <1>4

(* A set of numbers has a lowest one, finite or not.                        *)
LEMMA LeastNatural ==
    ASSUME NEW S, S \subseteq Nat, S # {}
    PROVE  \E x \in S : \A y \in S : x <= y
<1>1. PICK n \in S : TRUE
  OBVIOUS
<1> DEFINE T == {y \in S : y <= n}
<1>2. n \in Nat /\ T \subseteq Nat /\ n \in T /\ \A y \in T : y <= n
  <2>1. n \in Nat
    BY <1>1
  <2>2. n \in T
    BY <1>1, <2>1
  <2> QED
    BY <2>1, <2>2
<1>3. IsFiniteSet(T)
  <2> HIDE DEF T
  <2> QED
    BY <1>2, FS_BoundedSetOfNaturals
<1>4. PICK x \in T : \A y \in T : x <= y
  <2> HIDE DEF T
  <2> QED
    BY <1>2, <1>3, LowestNatural
<1>5. ASSUME NEW y \in S PROVE x <= y
  <2>1. x \in Nat /\ y \in Nat /\ x <= n
    BY <1>2, <1>4
  <2>2. y \in T \/ n < y
    BY <1>2, <2>1
  <2> QED
    BY <1>2, <1>4, <2>1, <2>2
<1> QED
  BY <1>4, <1>5
=============================================================================
