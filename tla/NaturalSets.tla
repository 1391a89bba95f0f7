---------------------------- MODULE NaturalSets ----------------------------
(***************************************************************************)
(* Two facts about sets of natural numbers that the proofs about days,     *)
(* pages and log ids rest on.  A least element is found through the finite *)
(* initial segments of the set, which strict inclusion orders well.        *)
(***************************************************************************)
EXTENDS FiniteSetTheorems, WellFoundedInduction, TLAPS

\* A set of natural numbers has a least element.
LEMMA LeastNatural ==
  ASSUME NEW S \in SUBSET Nat, S # {}
  PROVE  \E x \in S : \A y \in S : x <= y
<1>. DEFINE UpTo(x) == {y \in S : y <= x}
            Segments == {UpTo(x) : x \in S}
            R == StrictSubsetOrdering(S)
<1>1. \A x \in S : IsFiniteSet(UpTo(x))
  <2>. SUFFICES ASSUME NEW x \in S PROVE IsFiniteSet(UpTo(x))
    OBVIOUS
  <2>1. UpTo(x) \subseteq 0 .. x
    <3>1. S \subseteq Nat /\ x \in Nat
      OBVIOUS
    <3>2. \A y \in S : y <= x => y \in 0 .. x
      BY <3>1
    <3>. QED
      BY <3>2
  <2>2. 0 \in Int /\ x \in Int
    OBVIOUS
  <2>. QED
    BY <2>1, <2>2, FS_Interval, FS_Subset, Zenon
<1>2. Segments \subseteq FiniteSubsetsOf(S) /\ Segments # {}
  BY <1>1 DEF FiniteSubsetsOf
<1>3. IsWellFoundedOn(R, FiniteSubsetsOf(S))
  BY FS_StrictSubsetOrderingWellFounded
<1>4. \E X \in Segments : \A Y \in Segments : ~ (<<Y, X>> \in R)
  <2>. HIDE DEF Segments, R
  <2>. QED
    BY <1>2, <1>3, WFMin, Zenon
<1>5. PICK x \in S : \A y \in S : ~ (<<UpTo(y), UpTo(x)>> \in R)
  BY <1>4
<1>6. \A y \in S : x <= y
  <2>. SUFFICES ASSUME NEW y \in S, y < x PROVE FALSE
    OBVIOUS
  <2>1. UpTo(y) \subseteq UpTo(x) /\ UpTo(y) # UpTo(x)
    <3>1. S \subseteq Nat /\ x \in Nat /\ y \in Nat
      OBVIOUS
    <3>2. ~(x <= y) /\ \A z \in S : z <= y => z <= x
      BY <3>1
    <3>3. x \in UpTo(x) /\ x \notin UpTo(y)
      BY <3>1, <3>2
    <3>. QED
      BY <3>2, <3>3
  <2>2. <<UpTo(y), UpTo(x)>> \in R
    BY <2>1 DEF StrictSubsetOrdering
  <2>. QED
    BY <1>5, <2>2
<1>. QED
  BY <1>6

\* A set of natural numbers with an upper bound has a greatest element.
LEMMA GreatestNatural ==
  ASSUME NEW S \in SUBSET Nat, S # {}, NEW bound \in Nat, \A x \in S : x <= bound
  PROVE  \E x \in S : \A y \in S : y <= x
<1>. DEFINE Below == {bound - x : x \in S}
<1>1. \A x \in S : x \in Nat /\ x <= bound
  OBVIOUS
<1>2. Below \in SUBSET Nat /\ Below # {}
  <2>1. \A x \in S : bound - x \in Nat
    BY <1>1
  <2>. QED
    BY <2>1
<1>3. PICK b \in Below : \A c \in Below : b <= c
  <2>. HIDE DEF Below
  <2>. QED
    BY <1>2, LeastNatural
<1>4. PICK x \in S : b = bound - x
  OBVIOUS
<1>5. \A y \in S : y <= x
  <2>. SUFFICES ASSUME NEW y \in S PROVE y <= x
    OBVIOUS
  <2>1. bound - x <= bound - y
    BY <1>3, <1>4
  <2>. QED
    BY <1>1, <2>1
<1>. QED
  BY <1>5

=============================================================================
