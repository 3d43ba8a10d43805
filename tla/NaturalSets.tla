---------------------------- MODULE NaturalSets ----------------------------
(***************************************************************************)
(* Least and greatest elements of sets of naturals, and their first few.   *)
(***************************************************************************)
EXTENDS Naturals, FiniteSets, FiniteSetTheorems, TLAPS, WellFoundedInduction

\* Every nonempty set of naturals has a least element.
LEMMA LeastExists ==
  ASSUME NEW S \in SUBSET Nat, S # {}
  PROVE  \E n \in S : \A m \in S : n <= m
<1> DEFINE R == OpToRel(<, Nat)
<1>1. \E n \in S : \A m \in S : <<m, n>> \notin R
  <2>1. IsWellFoundedOn(R, Nat)
    BY NatLessThanWellFounded
  <2> HIDE DEF R
  <2> QED
    BY <2>1, WFMin
<1>2. PICK n \in S : \A m \in S : <<m, n>> \notin R
  BY <1>1
<1>3. ASSUME NEW m \in S PROVE n <= m
  <2>1. n \in Nat /\ m \in Nat
    OBVIOUS
  <2>2. ~ (m < n)
    BY <1>2, <2>1 DEF OpToRel
  <2> QED
    BY <2>1, <2>2
<1> QED
  BY <1>3

\* Every nonempty bounded set of naturals has a greatest element.
LEMMA GreatestExists ==
  ASSUME NEW S \in SUBSET Nat, S # {}, NEW b \in Nat, \A m \in S : m <= b
  PROVE  \E n \in S : \A m \in S : m <= n
<1> DEFINE U == {u \in Nat : \A m \in S : m <= u}
<1>1. PICK n \in U : \A u \in U : n <= u
  <2>1. U \in SUBSET Nat /\ U # {}
    BY SMT
  <2> HIDE DEF U
  <2> QED
    BY <2>1, LeastExists
<1>2. n \in S
  <2>1. SUFFICES ASSUME n \notin S PROVE FALSE
    OBVIOUS
  <2>2. n \in Nat /\ \A m \in S : m \in Nat /\ m <= n
    BY <1>1
  <2>3. \A m \in S : m <= n - 1
    BY <2>1, <2>2
  <2>4. n - 1 \in U
    <3>1. PICK m \in S : m <= n - 1
      BY <2>3
    <3>2. n - 1 \in Nat
      BY <2>2, <3>1
    <3> QED
      BY <3>2, <2>3
  <2> QED
    BY <2>2, <2>4, <1>1
<1> QED
  BY <1>2, <1>1

\* A set with a greatest element has one that CHOOSE finds.
LEMMA GreatestIs ==
  ASSUME NEW S \in SUBSET Nat, NEW n \in S, \A m \in S : m <= n
  PROVE  n = CHOOSE g \in S : \A m \in S : m <= g
<1>1. PICK g \in S : /\ g = CHOOSE h \in S : \A m \in S : m <= h
                     /\ \A m \in S : m <= g
  BY Zenon
<1>2. g <= n /\ n <= g /\ g \in Nat /\ n \in Nat
  BY <1>1
<1> QED
  BY <1>1, <1>2

-----------------------------------------------------------------------------
(* The k least elements of a set: what a query with a limit gives.         *)

Few(S, k) == {n \in S : Cardinality({m \in S : m < n}) < k}

\* What is below an element is finite, and grows with it.
LEMMA BelowIs ==
  ASSUME NEW S \in SUBSET Nat, NEW n \in Nat
  PROVE  /\ IsFiniteSet({m \in S : m < n})
         /\ Cardinality({m \in S : m < n}) \in Nat
         /\ \A l \in Nat : l <= n =>
              /\ Cardinality({m \in S : m < l}) \in Nat
              /\ Cardinality({m \in S : m < l}) <= Cardinality({m \in S : m < n})
<1>1. ASSUME NEW l \in Nat PROVE IsFiniteSet({m \in S : m < l})
  <2> DEFINE B == {m \in S : m < l}
  <2>1. B \in SUBSET Nat
    OBVIOUS
  <2>2. ASSUME NEW m \in B PROVE m <= l
    <3>1. m \in Nat /\ m < l
      BY <2>1
    <3> QED
      BY <3>1
  <2>3. IsFiniteSet(B)
    <3> HIDE DEF B
    <3> QED
      BY <2>1, <2>2, FS_BoundedSetOfNaturals
  <2> QED
    BY <2>3
<1>2. ASSUME NEW l \in Nat, l <= n
      PROVE  {m \in S : m < l} \in SUBSET {m \in S : m < n}
  <2>1. ASSUME NEW m \in S, m < l PROVE m < n
    <3>1. m \in Nat
      OBVIOUS
    <3> QED
      BY <1>2, <2>1, <3>1
  <2> QED
    BY <2>1
<1> QED
  BY <1>1, <1>2, FS_Subset, FS_CardinalityType

LEMMA FewDown ==
  ASSUME NEW S \in SUBSET Nat, NEW k \in Nat, NEW x \in Few(S, k), NEW y \in S, y <= x
  PROVE  y \in Few(S, k)
<1>1. x \in Nat /\ y \in Nat
  BY DEF Few
<1>2. /\ Cardinality({m \in S : m < y}) \in Nat /\ Cardinality({m \in S : m < x}) \in Nat
      /\ Cardinality({m \in S : m < y}) <= Cardinality({m \in S : m < x})
  BY <1>1, BelowIs
<1> QED
  BY <1>2 DEF Few

\* The least element is the first of them.
LEMMA FewOne ==
  ASSUME NEW S \in SUBSET Nat, NEW n \in S, \A m \in S : n <= m
  PROVE  /\ Few(S, 1) = {n}
         /\ \A k \in Nat \ {0} : n \in Few(S, k)
<1>1. {m \in S : m < n} = {}
  <2>1. \A m \in S : m \in Nat /\ n \in Nat /\ n <= m
    OBVIOUS
  <2>2. \A m \in S : ~ (m < n)
    BY <2>1
  <2> QED
    BY <2>2
<1>2. \A k \in Nat \ {0} : n \in Few(S, k)
  BY <1>1, FS_EmptySet DEF Few
<1>3. ASSUME NEW x \in S, x # n PROVE x \notin Few(S, 1)
  <2>1. n \in {m \in S : m < x} /\ x \in Nat
    <3>1. n \in Nat /\ x \in Nat /\ n <= x /\ n # x
      BY <1>3
    <3> QED
      BY <3>1
  <2>2. /\ Cardinality({m \in S : m < x}) \in Nat /\ IsFiniteSet({m \in S : m < x})
    BY <2>1, BelowIs
  <2>3. Cardinality({m \in S : m < x}) # 0
    BY <2>1, <2>2, FS_EmptySet
  <2> QED
    BY <2>2, <2>3 DEF Few
<1>4. Few(S, 1) \subseteq S
  BY DEF Few
<1>5. n \in Few(S, 1)
  <2>1. 1 \in Nat \ {0}
    OBVIOUS
  <2> QED
    BY <1>2, <2>1
<1> QED
  BY <1>2, <1>3, <1>4, <1>5

\* Either they are all there are, or there are k of them.
LEMMA FewAll ==
  ASSUME NEW S \in SUBSET Nat, NEW k \in Nat \ {0}, Few(S, k) # S
  PROVE  Cardinality(Few(S, k)) = k
<1> DEFINE F == Few(S, k)
           B(n) == {m \in S : m < n}
<1>1. \A n \in Nat : Cardinality(B(n)) \in Nat /\ IsFiniteSet(B(n))
  BY BelowIs
<1>2. F \subseteq S /\ \A n \in S : n \in F <=> Cardinality(B(n)) < k
  BY DEF Few
<1>3. PICK n \in S \ F : \A m \in S \ F : n <= m
  BY <1>2, LeastExists
<1>4. F = B(n)
  <2>1. ASSUME NEW m \in F PROVE m < n
    <3>1. ~ (n <= m)
      BY <1>2, <1>3, <2>1, FewDown
    <3>2. m \in Nat /\ n \in Nat
      <4>1. m \in S
        BY <1>2, <2>1
      <4> QED
        BY <4>1
    <3> QED
      BY <3>1, <3>2
  <2>2. ASSUME NEW m \in S, m < n PROVE m \in F
    <3>1. m \in Nat /\ n \in Nat /\ ~(n <= m)
      BY <1>3, <2>2
    <3> QED
      BY <1>3, <2>2, <3>1
  <2> QED
    BY <1>2, <2>1, <2>2
<1>5. Cardinality(F) >= k /\ Cardinality(F) \in Nat
  BY <1>1, <1>2, <1>3, <1>4
<1>6. PICK g \in F : \A m \in F : m <= g
  <2>1. F # {}
    BY <1>5, FS_EmptySet
  <2>2. F \in SUBSET Nat /\ n \in Nat
    BY <1>2
  <2>3. \A m \in F : m < n
    BY <1>4
  <2>4. \A m \in F : m <= n
    BY <2>2, <2>3
  <2> HIDE DEF F
  <2> QED
    BY <2>1, <2>2, <2>4, GreatestExists
<1>7. F = B(g) \cup {g} /\ g \notin B(g)
  <2>1. g \in S /\ g < n /\ n \in Nat /\ g \in Nat
    BY <1>3, <1>4, <1>6
  <2>2. ASSUME NEW m \in B(g) PROVE m \in F
    BY <1>4, <2>1, <2>2
  <2>3. ASSUME NEW m \in F PROVE m \in B(g) \cup {g}
    BY <1>2, <1>6, <2>1, <2>3
  <2>4. g \notin B(g)
    BY <2>1
  <2>5. g \in F
    BY <1>6
  <2> HIDE DEF F, B
  <2> QED
    BY <2>2, <2>3, <2>4, <2>5
<1>8. Cardinality(F) = Cardinality(B(g)) + 1
  <2>1. g \in Nat /\ IsFiniteSet(B(g))
    BY <1>1, <1>2, <1>6
  <2> HIDE DEF B, F
  <2> QED
    BY <1>7, <2>1, FS_AddElement
<1>9. Cardinality(B(g)) < k /\ Cardinality(B(g)) \in Nat
  BY <1>1, <1>2, <1>6
<1> QED
  BY <1>5, <1>8, <1>9

\* When there are k of them already, more that are greater change nothing.
LEMMA FewStay ==
  ASSUME NEW S \in SUBSET Nat, NEW T \in SUBSET Nat, NEW k \in Nat,
         S \subseteq T, \A n \in T \ S : \A m \in S : m < n,
         Cardinality(Few(S, k)) = k
  PROVE  Few(T, k) = Few(S, k)
<1>1. ASSUME NEW n \in S PROVE {m \in T : m < n} = {m \in S : m < n}
  <2>1. ASSUME NEW m \in T, m < n, m \notin S PROVE FALSE
    <3>1. n < m /\ n \in Nat /\ m \in Nat
      BY <2>1
    <3> QED
      BY <2>1, <3>1
  <2> QED
    BY <2>1
<1>2. ASSUME NEW n \in T \ S PROVE n \notin Few(T, k)
  <2>1. Few(S, k) \in SUBSET {m \in T : m < n}
    BY <1>2 DEF Few
  <2>2. n \in Nat
    OBVIOUS
  <2>3. IsFiniteSet({m \in T : m < n}) /\ Cardinality({m \in T : m < n}) \in Nat
    BY <2>2, BelowIs
  <2>4. k <= Cardinality({m \in T : m < n})
    BY <2>1, <2>3, FS_Subset
  <2> QED
    BY <2>3, <2>4 DEF Few
<1> QED
  BY <1>1, <1>2 DEF Few
=============================================================================
