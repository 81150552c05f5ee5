-------------------------------- MODULE Extrema --------------------------------
(***************************************************************************)
(* Least and greatest elements of sets of naturals, for the definitions    *)
(* that choose one (the last of several routes, the first tunnel with a    *)
(* tag, the least free port), and such sets in their order, for those that *)
(* pick some members of a sequence (the tunnels a loop goes through, the   *)
(* data frames of a stream).                                               *)
(***************************************************************************)
EXTENDS Integers, WellFoundedInduction, FiniteSetTheorems, TLAPS

\* A non-empty set of naturals has a least element.
LEMMA LeastNat ==
  ASSUME NEW D \in SUBSET Nat, D # {}
  PROVE  \E d \in D : \A e \in D : d <= e
<1>1. PICK d \in D : \A e \in D : ~(<<e, d>> \in OpToRel(<, Nat))
  BY WFMin, NatLessThanWellFounded
<1>2. \A e \in D : ~(e < d)
  BY <1>1 DEF OpToRel
<1>3. QED
  BY <1>2

\* A bounded one has a greatest: the least distance to the bound.
LEMMA GreatestNat ==
  ASSUME NEW T \in SUBSET Nat, T # {}, NEW m \in Nat, \A n \in T : n <= m
  PROVE  \E n \in T : \A k \in T : k <= n
<1> DEFINE D == {m - n : n \in T}
<1>1. \A n \in T : n \in Nat /\ m - n \in Nat /\ m - n \in D
  OBVIOUS
<1>2. D \in SUBSET Nat /\ D # {}
  BY <1>1
<1>3. PICK d \in D : \A e \in D : d <= e
  BY <1>2, LeastNat
<1>4. PICK n \in T : d = m - n
  OBVIOUS
<1>5. ASSUME NEW k \in T  PROVE k <= n
  <2>1. m - n <= m - k
    BY <1>1, <1>3, <1>4
  <2>2. QED
    BY <1>1, <2>1
<1>6. QED
  BY <1>5

-------------------------------------------------------------------------------
\* There are n indices from 1 to n.
LEMMA IndicesFinite ==
  ASSUME NEW n \in Nat
  PROVE  IsFiniteSet(1..n) /\ Cardinality(1..n) = n
<1>1. Cardinality(1..n) = IF 1 > n THEN 0 ELSE n - 1 + 1
  BY FS_Interval
<1>2. IsFiniteSet(1..n)
  BY FS_Interval
<1>3. QED
  BY <1>1, <1>2

\* The members of a set of indices can be put in their order.
LEMMA InOrderExists ==
  \A n \in Nat : \A which \in SUBSET (1..n) :
    /\ Cardinality(which) \in Nat
    /\ \E f \in [1..Cardinality(which) -> which] : \A i, j \in DOMAIN f : i < j => f[i] < f[j]
<1> DEFINE Ordered(I) == \E f \in [1..Cardinality(I) -> I] : \A i, j \in DOMAIN f : i < j => f[i] < f[j]
           Bad == {n \in Nat : \E I \in SUBSET (1..n) : ~Ordered(I)}
<1>1. ASSUME NEW n \in Nat, NEW I \in SUBSET (1..n)
      PROVE  IsFiniteSet(I) /\ Cardinality(I) \in Nat
  BY IndicesFinite, FS_Subset, FS_CardinalityType
<1>2. Bad = {}
  <2>1. SUFFICES ASSUME Bad # {}  PROVE FALSE
    OBVIOUS
  <2>2. PICK n \in Bad : \A m \in Bad : n <= m
    BY <2>1, LeastNat
  <2>3. PICK I \in SUBSET (1..n) : ~Ordered(I)
    BY <2>2
  <2>4. n # 0
    <3>1. SUFFICES ASSUME n = 0  PROVE FALSE
      OBVIOUS
    <3>2. I = {}
      BY <2>3, <3>1
    <3>3. Cardinality(I) = 0
      BY <3>2, FS_EmptySet
    <3>4. PICK f \in [1..0 -> I] : DOMAIN f = 1..0
      <4>1. [i \in 1..0 |-> 0] \in [1..0 -> I]
        OBVIOUS
      <4>2. QED
        BY <4>1
    <3>5. Ordered(I)
      <4>1. f \in [1..Cardinality(I) -> I]
        BY <3>3
      <4>2. \A i, j \in DOMAIN f : i < j => f[i] < f[j]
        BY <3>4
      <4>3. QED
        BY <4>1, <4>2
    <3>6. QED
      BY <2>3, <3>5
  <2>5. n \in Nat /\ n - 1 \in Nat /\ n - 1 \notin Bad
    <3>1. n \in Nat /\ n - 1 \in Nat
      BY <2>2, <2>4
    <3> HIDE DEF Bad
    <3>2. QED
      BY <2>2, <3>1
  <2>6. \A J \in SUBSET (1..(n - 1)) : Ordered(J)
    <3> HIDE DEF Ordered
    <3>1. QED
      BY <2>5
  <2>7. CASE n \notin I
    <3>1. I \in SUBSET (1..(n - 1))
      BY <2>2, <2>3, <2>7
    <3>2. QED
      BY <2>3, <2>6, <3>1
  <2>8. CASE n \in I
    <3> DEFINE J == I \ {n}
               k == Cardinality(J)
    <3>1. J \in SUBSET (1..(n - 1))
      BY <2>2, <2>3
    <3>2. k \in Nat /\ Cardinality(I) = k + 1
      <4>1. IsFiniteSet(I) /\ Cardinality(I) \in Nat /\ Cardinality(J) = Cardinality(I) - 1
        BY <1>1, <2>2, <2>3, <2>8, FS_RemoveElement
      <4>2. k \in Nat
        BY <1>1, <2>5, <3>1
      <4>3. QED
        BY <4>1, <4>2
    <3>3. PICK f \in [1..k -> J] : \A i, j \in DOMAIN f : i < j => f[i] < f[j]
      BY <2>6, <3>1
    <3> HIDE DEF k, J
    <3> DEFINE g == [i \in 1..(k + 1) |-> IF i = k + 1 THEN n ELSE f[i]]
    <3>4. \A i \in 1..k : f[i] \in I /\ f[i] < n /\ f[i] \in Nat
      <4> TAKE i \in 1..k
      <4>1. f[i] \in J /\ J \subseteq I
        BY <3>3 DEF J
      <4>2. f[i] \in 1..(n - 1)
        BY <3>1, <4>1
      <4>3. QED
        BY <2>5, <4>1, <4>2
    <3>5. g \in [1..(k + 1) -> I]
      BY <2>8, <3>2, <3>4
    <3>6. ASSUME NEW i \in 1..(k + 1), NEW j \in 1..(k + 1), i < j  PROVE g[i] < g[j]
      <4>1. i \in 1..k /\ i # k + 1
        BY <3>2, <3>6
      <4>2. CASE j = k + 1
        BY <3>4, <4>1, <4>2
      <4>3. CASE j # k + 1
        <5>1. j \in 1..k
          BY <3>2, <4>3
        <5>2. QED
          BY <3>3, <3>6, <4>1, <4>3, <5>1
      <4>4. QED
        BY <4>2, <4>3
    <3>7. Ordered(I)
      <4> HIDE DEF g
      <4>1. DOMAIN g = 1..(k + 1)
        BY <3>5
      <4>2. QED
        BY <3>2, <3>5, <3>6, <4>1
    <3>8. QED
      BY <2>3, <3>7
  <2>9. QED
    BY <2>7, <2>8
<1>3. QED
  BY <1>1, <1>2

\* g lists, in order, the k members of S that are at most m, and a list of all of
\* them can begin with it.
InOrderUpTo(S, m, k, g) ==
  /\ \A i \in 1..k : g[i] \in S /\ g[i] <= m
  /\ \A i, j \in 1..k : i < j => g[i] < g[j]
  /\ \A d \in S : d <= m => \E i \in 1..k : g[i] = d

Continued(S, m, k, g) ==
  /\ Cardinality(S) \in Nat /\ k <= Cardinality(S)
  /\ \E f \in [1..Cardinality(S) -> S] :
       /\ \A i, j \in DOMAIN f : i < j => f[i] < f[j]
       /\ \A i \in 1..k : f[i] = g[i]
  /\ (\A d \in S : d <= m) => Cardinality(S) = k

\* An enumeration of the members up to a bound goes on to one of all.
LEMMA OrderExtends ==
  ASSUME NEW n \in Nat, NEW S \in SUBSET (1..n), NEW m \in Nat, NEW k \in Nat,
         NEW g \in [1..k -> Nat], InOrderUpTo(S, m, k, g)
  PROVE  Continued(S, m, k, g)
<1> USE DEF InOrderUpTo, Continued
<1> DEFINE A == {d \in S : d <= m}
           B == S \ A
           c == Cardinality(B)
<1>1. /\ A \in SUBSET (1..n) /\ B \in SUBSET (1..n)
      /\ \A d \in A : d \in S /\ d <= m
      /\ \A d \in B : d \in S /\ d \in Nat /\ m < d
  <2>1. \A d \in S : d \in 1..n /\ d \in Nat
    OBVIOUS
  <2>2. \A d \in S : ~(d <= m) => m < d
    BY <2>1
  <2>3. QED
    BY <2>1, <2>2
<1>2. g \in [1..k -> A]
  OBVIOUS
<1>3. \A d \in A : \E i \in 1..k : g[i] = d
  OBVIOUS
<1>4. S = A \cup B /\ A \cap B = {} /\ ((\A d \in S : d <= m) => B = {})
  OBVIOUS
<1> HIDE DEF A, B
<1>5. IsFiniteSet(A) /\ IsFiniteSet(B)
  BY <1>1, IndicesFinite, FS_Subset
<1>6. c \in Nat /\ \E h \in [1..c -> B] : \A i, j \in DOMAIN h : i < j => h[i] < h[j]
  BY <1>1, InOrderExists
<1> HIDE DEF c
<1>7. Cardinality(A) = k
  <2>1. \A i, j \in 1..k : g[i] = g[j] => i = j
    <3> TAKE i, j \in 1..k
    <3>1. i = j \/ i < j \/ j < i
      OBVIOUS
    <3>2. g[i] \in Nat /\ g[j] \in Nat
      OBVIOUS
    <3>3. QED
      BY <3>1, <3>2
  <2>2. g \in Injection(1..k, A)
    BY <1>2, <2>1 DEF Injection, IsInjective
  <2>3. g \in Surjection(1..k, A)
    BY <1>2, <1>3 DEF Surjection
  <2>4. g \in Bijection(1..k, A)
    BY <2>2, <2>3 DEF Bijection
  <2>5. QED
    BY <2>4, FS_CountingElements DEF ExistsBijection
<1>8. Cardinality(S) = k + c
  <2>1. Cardinality(A \cup B) = Cardinality(A) + Cardinality(B) - Cardinality(A \cap B)
    BY <1>5, FS_Union
  <2>2. Cardinality(A \cap B) = 0
    BY <1>4, FS_EmptySet
  <2>3. QED
    BY <1>4, <1>6, <1>7, <2>1, <2>2 DEF c
<1>9. PICK h \in [1..c -> B] : \A i, j \in DOMAIN h : i < j => h[i] < h[j]
  BY <1>6
<1> DEFINE f == [i \in 1..(k + c) |-> IF i <= k THEN g[i] ELSE h[i - k]]
<1>10. \A i \in 1..(k + c) :
         IF i <= k THEN i \in 1..k /\ f[i] = g[i] /\ f[i] \in A
                   ELSE i - k \in 1..c /\ f[i] = h[i - k] /\ f[i] \in B
  BY <1>2, <1>6, <1>9
<1>11. f \in [1..(k + c) -> S] /\ DOMAIN f = 1..(k + c)
  <2>1. \A i \in 1..(k + c) : f[i] \in S
    BY <1>4, <1>10
  <2>2. QED
    BY <2>1
<1> HIDE DEF f
<1>12. \A i, j \in 1..(k + c) : i < j => f[i] < f[j]
  <2> TAKE i, j \in 1..(k + c)
  <2> HAVE i < j
  <2>1. CASE j <= k
    BY <1>6, <1>10, <2>1
  <2>2. CASE k < i
    <3>1. i - k \in 1..c /\ j - k \in 1..c /\ i - k < j - k
      BY <1>6, <2>2
    <3>2. f[i] = h[i - k] /\ f[j] = h[j - k]
      BY <1>6, <1>10, <2>2
    <3>3. QED
      BY <1>9, <3>1, <3>2
  <2>3. CASE i <= k /\ k < j
    <3>1. f[i] \in A /\ f[j] \in B
      BY <1>6, <1>10, <2>3
    <3>2. f[i] \in Nat /\ f[i] <= m /\ f[j] \in Nat /\ m < f[j]
      BY <1>1, <3>1
    <3>3. QED
      BY <3>2
  <2>4. QED
    BY <1>6, <2>1, <2>2, <2>3
<1>13. \A i \in 1..k : f[i] = g[i]
  BY <1>6, <1>10
<1>14. B = {} => c = 0
  BY FS_EmptySet DEF c
<1>15. (\A d \in S : d <= m) => Cardinality(S) = k
  BY <1>4, <1>8, <1>14
<1>16. Cardinality(S) \in Nat /\ k <= Cardinality(S)
  BY <1>6, <1>8
<1>17. \E e \in [1..Cardinality(S) -> S] :
         /\ \A i, j \in DOMAIN e : i < j => e[i] < e[j]
         /\ \A i \in 1..k : e[i] = g[i]
  BY <1>8, <1>11, <1>12, <1>13
<1>18. QED
  BY <1>15, <1>16, <1>17
===============================================================================
