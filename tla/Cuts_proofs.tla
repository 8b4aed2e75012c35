----------------------------- MODULE Cuts_proofs -----------------------------
EXTENDS Integers, FiniteSets, FiniteSetTheorems, WellFoundedInduction, TLAPS

\* R is a strict total order of S.
StrictOrder(R, S) ==
  /\ \A x \in S : <<x, x>> \notin R
  /\ \A x, y, z \in S : <<x, y>> \in R /\ <<y, z>> \in R => <<x, z>> \in R
  /\ \A x, y \in S : x = y \/ <<x, y>> \in R \/ <<y, x>> \in R

Ahead(x, R, S) == {y \in S : <<y, x>> \in R}
\* The first k elements of S.
FirstOf(k, R, S) == {x \in S : Cardinality(Ahead(x, R, S)) < k}

\* A set with a member that has least.
LEMMA LeastSubset ==
  ASSUME NEW S, IsFiniteSet(S), NEW T, T \subseteq SUBSET S, T # {}
  PROVE  \E x \in T : \A y \in T : ~(y \subseteq x /\ y # x)
<1>1. T \subseteq FiniteSubsetsOf(S)
  BY FS_Subset DEF FiniteSubsetsOf
<1>2. \E x \in T : \A y \in T : <<y, x>> \notin StrictSubsetOrdering(S)
  BY <1>1, FS_StrictSubsetOrderingWellFounded, WFMin
<1> QED BY <1>2 DEF StrictSubsetOrdering

LEMMA AheadCounts ==
  ASSUME NEW S, IsFiniteSet(S), NEW R, StrictOrder(R, S)
  PROVE  /\ \A x \in S : Cardinality(Ahead(x, R, S)) \in Nat
         /\ \A x, y \in S : <<x, y>> \in R =>
              Cardinality(Ahead(x, R, S)) < Cardinality(Ahead(y, R, S))
<1>1. ASSUME NEW x \in S
      PROVE  IsFiniteSet(Ahead(x, R, S)) /\ Cardinality(Ahead(x, R, S)) \in Nat
  <2>1. Ahead(x, R, S) \in SUBSET S
    BY DEF Ahead
  <2> QED BY <2>1, FS_Subset, FS_CardinalityType
<1>2. ASSUME NEW x \in S, NEW y \in S, <<x, y>> \in R
      PROVE  Cardinality(Ahead(x, R, S)) < Cardinality(Ahead(y, R, S))
  <2>1. Ahead(x, R, S) \in SUBSET Ahead(y, R, S)
    BY <1>2 DEF Ahead, StrictOrder
  <2>2. x \in Ahead(y, R, S) /\ x \notin Ahead(x, R, S)
    BY <1>2 DEF Ahead, StrictOrder
  <2> HIDE DEF Ahead
  <2>3. /\ Cardinality(Ahead(x, R, S)) <= Cardinality(Ahead(y, R, S))
        /\ Cardinality(Ahead(y, R, S)) = Cardinality(Ahead(x, R, S)) =>
             Ahead(y, R, S) = Ahead(x, R, S)
    BY <1>1, <2>1, FS_Subset
  <2> QED BY <1>1, <2>2, <2>3
<1> QED BY <1>1, <1>2

\* What comes before one of the first k is one of them.
LEMMA FirstIsDownward ==
  ASSUME NEW S, IsFiniteSet(S), NEW R, StrictOrder(R, S), NEW k \in Nat,
         NEW x \in FirstOf(k, R, S), NEW y \in S, <<y, x>> \in R
  PROVE  y \in FirstOf(k, R, S)
BY AheadCounts DEF FirstOf

\* If there are more than k, one of the first k is the last of them.
LEMMA FirstHasLast ==
  ASSUME NEW S, IsFiniteSet(S), NEW R, StrictOrder(R, S), NEW k \in Nat \ {0},
         FirstOf(k, R, S) # S
  PROVE  \E x \in FirstOf(k, R, S) : \A y \in FirstOf(k, R, S) \ {x} : <<y, x>> \in R
<1> DEFINE F == FirstOf(k, R, S)
           A(x) == Ahead(x, R, S)
<1>1. F \subseteq S /\ S # {}
  BY DEF FirstOf
<1>2. F # {}
  <2> DEFINE T == {A(x) : x \in S}
  <2>1. T \subseteq SUBSET S /\ T # {}
    BY <1>1 DEF Ahead
  <2> HIDE DEF T
  <2>2. PICK a \in T : \A b \in T : ~(b \subseteq a /\ b # a)
    BY <2>1, LeastSubset
  <2>3. PICK x \in S : a = A(x)
    BY DEF T
  <2>4. \A y \in S : ~(A(y) \subseteq A(x) /\ A(y) # A(x))
    BY <2>2, <2>3 DEF T
  <2>5. A(x) = {}
    <3> SUFFICES ASSUME NEW y \in A(x) PROVE FALSE
      OBVIOUS
    <3>1. y \in S /\ A(y) \subseteq A(x) /\ y \notin A(y)
      BY DEF Ahead, StrictOrder
    <3> QED BY <2>4, <3>1
  <2> QED BY <2>5, FS_EmptySet DEF FirstOf
<1>3. PICK x \in F : \A y \in F : ~(A(x) \subseteq A(y) /\ A(x) # A(y))
  <2> DEFINE T == {S \ A(x) : x \in F}
  <2>1. T \subseteq SUBSET S /\ T # {}
    BY <1>2
  <2> HIDE DEF T
  <2>2. PICK a \in T : \A b \in T : ~(b \subseteq a /\ b # a)
    BY <2>1, LeastSubset
  <2>3. PICK x \in F : a = S \ A(x)
    BY DEF T
  <2>4. \A y \in F : ~(S \ A(y) \subseteq S \ A(x) /\ S \ A(y) # S \ A(x))
    BY <2>2, <2>3 DEF T
  <2>5. \A y \in S : A(y) \subseteq S
    BY DEF Ahead
  <2> QED BY <1>1, <2>4, <2>5
<1>4. ASSUME NEW y \in F \ {x} PROVE <<y, x>> \in R
  <2>1. ASSUME <<x, y>> \in R PROVE FALSE
    <3>1. A(x) \subseteq A(y) /\ x \in A(y) /\ x \notin A(x)
      BY <1>1, <2>1 DEF Ahead, StrictOrder
    <3> QED BY <1>3, <3>1
  <2> QED BY <1>1, <2>1 DEF StrictOrder
<1> QED BY <1>4
=============================================================================
