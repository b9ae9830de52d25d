------------------------------ MODULE SetLemmas ------------------------------
(***************************************************************************)
(* Finite sets of data: induction over them, their largest and smallest    *)
(* elements, and the sums that the reports and the detectors take over     *)
(* them.  Induction rests on the least number principle, which follows     *)
(* from the well-foundedness of < on the naturals.                         *)
(***************************************************************************)
EXTENDS Integers, FiniteSetsExt, FiniteSetTheorems, WellFoundedInduction, TLAPS

----------------------------------------------------------------------------
(* Induction.                                                               *)

(* A nonempty set of naturals has a least element.                          *)
LEMMA LeastNumber ==
    ASSUME NEW T \in SUBSET Nat, T # {}
    PROVE  \E m \in T : \A k \in T : m <= k
<1> DEFINE R == {ss \in Nat \X Nat : ss[1] < ss[2]}
<1>1. IsWellFoundedOn(R, Nat)
  BY NatLessThanWellFounded, Zenon DEF OpToRel
<1>2. PICK m \in T : \A y \in T : ~(<<y, m>> \in R)
  BY <1>1, WFMin, Zenon
<1>3. \A y \in T : ~(y < m)
  BY <1>2
<1>. QED  BY <1>3

(* Induction over the naturals, for a set that has what is to be shown.     *)
LEMMA NumberInduction ==
    ASSUME NEW P, 0 \in P, \A n \in Nat : n \in P => n + 1 \in P
    PROVE  Nat \subseteq P
<1>. SUFFICES ASSUME Nat \ P # {} PROVE FALSE
  OBVIOUS
<1>1. PICK m \in Nat \ P : \A k \in Nat \ P : m <= k
  BY LeastNumber
<1>2. m - 1 \in Nat /\ m - 1 \notin Nat \ P
  BY <1>1
<1>. QED  BY <1>1, <1>2

(* Induction over a finite set, by the subsets P that have what is to be    *)
(* shown.                                                                   *)
LEMMA SubsetInduction ==
    ASSUME NEW S, IsFiniteSet(S), NEW P, {} \in P,
           \A s \in SUBSET S : \A x \in S \ s : s \in P => s \cup {x} \in P
    PROVE  S \in P
<1> DEFINE N == {n \in Nat : \E s \in SUBSET S : s \notin P /\ Cardinality(s) = n}
<1>. SUFFICES ASSUME S \notin P PROVE FALSE
  OBVIOUS
<1>1. N # {}
  BY FS_CardinalityType
<1>. HIDE DEF N
<1>2. N \in SUBSET Nat
  BY DEF N
<1>3. PICK m \in N : \A k \in N : m <= k
  BY <1>1, <1>2, LeastNumber
<1>4. PICK s \in SUBSET S : s \notin P /\ Cardinality(s) = m
  BY <1>3 DEF N
<1>5. PICK x \in s : TRUE
  BY <1>4
<1>6. IsFiniteSet(s) /\ m \in Nat
  BY <1>4, FS_Subset, <1>3, <1>2
<1>7. Cardinality(s \ {x}) = m - 1 /\ Cardinality(s \ {x}) \in Nat
  BY <1>4, <1>5, <1>6, FS_RemoveElement, FS_CardinalityType
<1>8. s \ {x} \in P
  BY <1>3, <1>6, <1>7 DEF N
<1>9. (s \ {x}) \cup {x} = s
  BY <1>5
<1>. QED  BY <1>4, <1>5, <1>8, <1>9

(* An image is finite, and no larger.                                       *)
LEMMA ImageOfFinite ==
    ASSUME NEW S, IsFiniteSet(S), NEW f
    PROVE  /\ IsFiniteSet({f[x] : x \in S})
           /\ Cardinality({f[x] : x \in S}) <= Cardinality(S)
<1> DEFINE T == {f[x] : x \in S}
           m == [x \in S |-> f[x]]
<1>1. m \in [S -> T] /\ \A t \in T : \E x \in S : m[x] = t
  OBVIOUS
<1>. HIDE DEF T, m
<1>2. m \in Surjection(S, T)
  BY <1>1 DEF Surjection
<1>3. IsFiniteSet(T) /\ Cardinality(T) <= Cardinality(S)
  BY <1>2, FS_Surjection
<1>. QED  BY <1>3 DEF T

(* The ranks of a finite set of numbers are 1 to its size, once each.       *)
LEMMA RanksCount ==
    ASSUME NEW S \in SUBSET Nat, IsFiniteSet(S),
           NEW rank, rank = [k \in S |-> Cardinality({s \in S : s <= k})]
    PROVE  /\ \A k, l \in S : k < l => rank[k] < rank[l]
           /\ {rank[k] : k \in S} = 1 .. Cardinality(S)
<1> DEFINE upto(k) == {s \in S : s <= k}
           n == Cardinality(S)
<1>1. \A k \in S : /\ IsFiniteSet(upto(k)) /\ k \in upto(k) /\ upto(k) \in SUBSET S
                   /\ Cardinality(upto(k)) \in Nat /\ Cardinality(upto(k)) <= n
  <2>. SUFFICES ASSUME NEW k \in S
                PROVE  /\ IsFiniteSet(upto(k)) /\ k \in upto(k) /\ upto(k) \in SUBSET S
                       /\ Cardinality(upto(k)) \in Nat /\ Cardinality(upto(k)) <= n
    OBVIOUS
  <2>1. k \in upto(k) /\ upto(k) \in SUBSET S
    OBVIOUS
  <2>. HIDE DEF upto, n
  <2>. QED  BY <2>1, FS_Subset, FS_CardinalityType DEF n
<1>2. ASSUME NEW k \in S, NEW l \in S, k < l
      PROVE  Cardinality(upto(k)) < Cardinality(upto(l))
  <2>1. upto(k) \in SUBSET upto(l) /\ l \notin upto(k) /\ l \in upto(l)
    <3>1. \A s \in S : s <= k => s <= l
      BY <1>2
    <3>2. ~(l <= k) /\ l <= l
      BY <1>2
    <3>. QED  BY <3>1, <3>2
  <2>2. IsFiniteSet(upto(k)) /\ IsFiniteSet(upto(l))
    BY <1>1
  <2>3. Cardinality(upto(k)) \in Nat /\ Cardinality(upto(l)) \in Nat
    BY <1>1
  <2>. HIDE DEF upto
  <2>4. Cardinality(upto(k)) <= Cardinality(upto(l)) /\ upto(k) # upto(l)
    BY <2>1, <2>2, FS_Subset
  <2>5. Cardinality(upto(k)) # Cardinality(upto(l))
    BY <2>1, <2>2, <2>4, FS_Subset
  <2>. QED  BY <2>3, <2>4, <2>5
<1>3. \A k \in S : rank[k] = Cardinality(upto(k))
  OBVIOUS
<1>4. \A k, l \in S : k < l => rank[k] < rank[l]
  <2>. HIDE DEF upto
  <2>. QED  BY <1>2, <1>3
<1>5. \A k \in S : rank[k] \in 1 .. n
  <2>. SUFFICES ASSUME NEW k \in S PROVE rank[k] \in 1 .. n
    OBVIOUS
  <2>1. Cardinality(upto(k)) # 0
    <3>1. IsFiniteSet(upto(k)) /\ upto(k) # {}
      BY <1>1
    <3>. HIDE DEF upto
    <3>. QED  BY <3>1, FS_EmptySet
  <2>2. n \in Nat
    BY FS_CardinalityType
  <2>3. Cardinality(upto(k)) \in Nat /\ Cardinality(upto(k)) <= n
    BY <1>1
  <2>4. rank[k] = Cardinality(upto(k))
    BY <1>3
  <2>. HIDE DEF upto, n
  <2>. QED  BY <2>1, <2>2, <2>3, <2>4
<1>6. rank \in Injection(S, 1 .. n)
  <2>1. \A k, l \in S : rank[k] = rank[l] => k = l
    <3>. SUFFICES ASSUME NEW k \in S, NEW l \in S, rank[k] = rank[l], k # l PROVE FALSE
      OBVIOUS
    <3>1. k < l \/ l < k
      OBVIOUS
    <3>2. rank[k] \in Int /\ rank[l] \in Int
      BY <1>5
    <3>. QED  BY <1>4, <3>1, <3>2
  <2>2. rank \in [S -> 1 .. n]
    BY <1>5
  <2>. QED  BY <2>1, <2>2 DEF Injection, IsInjective
<1>7. IsFiniteSet(1 .. n) /\ Cardinality(1 .. n) = n
  <2>1. n \in Nat
    BY FS_CardinalityType
  <2>. HIDE DEF n
  <2>2. 1 \in Int /\ n \in Int /\ (IF 1 > n THEN 0 ELSE n - 1 + 1) = n
    BY <2>1
  <2>. QED  BY <2>2, FS_Interval
<1>8. rank \in Surjection(S, 1 .. n)
  BY <1>6, <1>7, FS_Injection
<1>. QED  BY <1>4, <1>8 DEF Surjection

(* A finite set of numbers keeps its size when shifted.                     *)
LEMMA ShiftedCount ==
    ASSUME NEW S \in SUBSET Nat, IsFiniteSet(S), NEW m \in Nat
    PROVE  /\ IsFiniteSet({m + s : s \in S})
           /\ Cardinality({m + s : s \in S}) = Cardinality(S)
<1> DEFINE T == {m + s : s \in S}
           f == [s \in S |-> m + s]
<1>1. f \in Surjection(S, T)
  BY DEF Surjection
<1>2. f \in Injection(S, T)
  <2>1. \A s, t \in S : m + s = m + t => s = t
    OBVIOUS
  <2>2. \A s \in S : f[s] = m + s /\ f[s] \in T
    OBVIOUS
  <2>. HIDE DEF T
  <2>. QED  BY <2>1, <2>2 DEF Injection, IsInjective
<1>. HIDE DEF T, f
<1>3. IsFiniteSet(T) /\ Cardinality(T) = Cardinality(S)
  BY <1>1, <1>2, FS_Surjection
<1>. QED  BY <1>3 DEF T

----------------------------------------------------------------------------
(* The largest and the smallest of finitely many numbers.                   *)

LEMMA MaxOfFinite ==
    ASSUME NEW S, IsFiniteSet(S), S \subseteq Int, S # {}
    PROVE  Max(S) \in S /\ \A y \in S : Max(S) >= y
<1> DEFINE P == {s \in SUBSET S : s = {} \/ \E m \in s : \A y \in s : m >= y}
<1>1. {} \in P
  OBVIOUS
<1>2. ASSUME NEW s \in SUBSET S, NEW x \in S \ s, s \in P
      PROVE  s \cup {x} \in P
  <2>1. CASE s = {}
    BY <2>1
  <2>2. CASE s # {}
    <3>1. PICK m \in s : \A y \in s : m >= y
      BY <2>2, <1>2
    <3>2. CASE m >= x
      <4>1. \A y \in s \cup {x} : m >= y
        BY <3>1, <3>2
      <4>. QED  BY <4>1, <3>1
    <3>3. CASE ~(m >= x)
      <4>1. \A y \in s \cup {x} : x >= y
        BY <3>1, <3>3
      <4>. QED  BY <4>1
    <3>. QED  BY <3>2, <3>3
  <2>. QED  BY <2>1, <2>2
<1>. HIDE DEF P
<1>3. S \in P
  BY <1>1, <1>2, SubsetInduction
<1>4. \E m \in S : \A y \in S : m >= y
  BY <1>3 DEF P
<1>. QED  BY <1>4 DEF Max

LEMMA MinOfFinite ==
    ASSUME NEW S, IsFiniteSet(S), S \subseteq Int, S # {}
    PROVE  Min(S) \in S /\ \A y \in S : Min(S) <= y
<1> DEFINE P == {s \in SUBSET S : s = {} \/ \E m \in s : \A y \in s : m <= y}
<1>1. {} \in P
  OBVIOUS
<1>2. ASSUME NEW s \in SUBSET S, NEW x \in S \ s, s \in P
      PROVE  s \cup {x} \in P
  <2>1. CASE s = {}
    BY <2>1
  <2>2. CASE s # {}
    <3>1. PICK m \in s : \A y \in s : m <= y
      BY <2>2, <1>2
    <3>2. CASE m <= x
      <4>1. \A y \in s \cup {x} : m <= y
        BY <3>1, <3>2
      <4>. QED  BY <4>1, <3>1
    <3>3. CASE ~(m <= x)
      <4>1. \A y \in s \cup {x} : x <= y
        BY <3>1, <3>3
      <4>. QED  BY <4>1
    <3>. QED  BY <3>2, <3>3
  <2>. QED  BY <2>1, <2>2
<1>. HIDE DEF P
<1>3. S \in P
  BY <1>1, <1>2, SubsetInduction
<1>4. \E m \in S : \A y \in S : m <= y
  BY <1>3 DEF P
<1>. QED  BY <1>4 DEF Min

----------------------------------------------------------------------------
(* Sums over finite sets.  F[x] is what x adds; AddsUp is the recursion     *)
(* that MapThenSumSet takes its value from.                                 *)

Sum(F, S) == MapThenSumSet(LAMBDA x : F[x], S)

Pick(s) == CHOOSE x \in s : TRUE
AddsUp(g, F, S) ==
    g = [s \in SUBSET S |-> IF s = {} THEN 0 ELSE F[Pick(s)] + g[s \ {Pick(s)}]]

LEMMA PickIn == ASSUME NEW s, s # {} PROVE Pick(s) \in s
  BY DEF Pick

LEMMA SumUnfolds ==
    ASSUME NEW F, NEW S
    PROVE  Sum(F, S) = (CHOOSE g : AddsUp(g, F, S))[S]
  BY Zenon DEF Sum, MapThenSumSet, MapThenFoldSet, AddsUp, Pick

(* The recursion has a solution on the subsets of up to n elements, for     *)
(* every n, each got from the one before.                                   *)
LEMMA AddsUpExists ==
    ASSUME NEW F, NEW S, IsFiniteSet(S)
    PROVE  \E g : AddsUp(g, F, S)
<1> DEFINE D(n) == {s \in SUBSET S : Cardinality(s) <= n}
           next(g, n) == [s \in D(n) |-> IF s = {} THEN 0
                                         ELSE F[Pick(s)] + g[s \ {Pick(s)}]]
           solves(g, n) == g = next(g, n)
           P == {n \in Nat : \E g : solves(g, n)}
<1>1. \A s \in SUBSET S : IsFiniteSet(s) /\ Cardinality(s) \in Nat
  BY FS_Subset, FS_CardinalityType
<1>2. \A n \in Nat : \A s \in D(n + 1) : s # {} => s \ {Pick(s)} \in D(n)
  <2>. SUFFICES ASSUME NEW n \in Nat, NEW s \in D(n + 1), s # {}
                PROVE  s \ {Pick(s)} \in D(n)
    OBVIOUS
  <2>1. Cardinality(s \ {Pick(s)}) = Cardinality(s) - 1
    BY <1>1, PickIn, FS_RemoveElement
  <2>. QED  BY <2>1, <1>1
<1>3. \A n \in Nat : D(n) \subseteq D(n + 1)
  BY <1>1
<1>4. 0 \in P
  <2>1. \A s \in D(0) : s = {}
    BY <1>1, FS_EmptySet
  <2> DEFINE g == [s \in D(0) |-> 0]
  <2>2. solves(g, 0)
    BY <2>1
  <2>. HIDE DEF solves, g
  <2>. QED  BY <2>2
<1>5. ASSUME NEW n \in Nat, n \in P
      PROVE  n + 1 \in P
  <2>1. PICK g : solves(g, n)
    BY <1>5
  <2> DEFINE h == next(g, n + 1)
  <2>2. \A s \in D(n) : h[s] = g[s]
    BY <2>1, <1>3
  <2>3. ASSUME NEW s \in D(n + 1), s # {}
        PROVE  h[s \ {Pick(s)}] = g[s \ {Pick(s)}]
    BY <2>2, <2>3, <1>2
  <2>4. solves(h, n + 1)
    BY <2>3
  <2>. HIDE DEF solves, h
  <2>. QED  BY <2>4
<1>. HIDE DEF P
<1>6. Cardinality(S) \in P
  BY <1>4, <1>5, NumberInduction, FS_CardinalityType
<1>7. PICK g : solves(g, Cardinality(S))
  BY <1>6 DEF P
<1>8. D(Cardinality(S)) = SUBSET S
  BY FS_Subset
<1>. QED  BY <1>7, <1>8 DEF AddsUp

(* Its solutions agree wherever the summands do.                            *)
LEMMA AddsUpUnique ==
    ASSUME NEW F, NEW G, NEW S, IsFiniteSet(S), NEW T \in SUBSET S,
           \A x \in T : F[x] = G[x],
           NEW g, AddsUp(g, F, S), NEW h, AddsUp(h, G, T)
    PROVE  g[T] = h[T]
<1> DEFINE N == {n \in Nat : \A s \in SUBSET T : Cardinality(s) = n => g[s] = h[s]}
<1>1. \A s \in SUBSET T : IsFiniteSet(s) /\ Cardinality(s) \in Nat
  BY FS_Subset, FS_CardinalityType
<1>2. 0 \in N
  BY <1>1, FS_EmptySet DEF AddsUp
<1>3. ASSUME NEW n \in Nat, n \in N
      PROVE  n + 1 \in N
  <2>. SUFFICES ASSUME NEW s \in SUBSET T, Cardinality(s) = n + 1
                PROVE  g[s] = h[s]
    OBVIOUS
  <2>1. s # {}
    BY FS_EmptySet
  <2>2. Pick(s) \in s
    BY <2>1, PickIn
  <2>3. Cardinality(s \ {Pick(s)}) = n
    BY <1>1, <2>2, FS_RemoveElement
  <2>4. g[s \ {Pick(s)}] = h[s \ {Pick(s)}]
    BY <1>3, <2>3
  <2>5. g[s] = F[Pick(s)] + g[s \ {Pick(s)}]
    BY <2>1 DEF AddsUp
  <2>6. h[s] = G[Pick(s)] + h[s \ {Pick(s)}]
    BY <2>1 DEF AddsUp
  <2>. QED  BY <2>2, <2>4, <2>5, <2>6
<1>. HIDE DEF N
<1>4. Cardinality(T) \in N
  BY <1>1, <1>2, <1>3, NumberInduction
<1>. QED  BY <1>4 DEF N

LEMMA SumIsFold ==
    ASSUME NEW F, NEW S, IsFiniteSet(S)
    PROVE  \E g : AddsUp(g, F, S) /\ \A T \in SUBSET S : Sum(F, T) = g[T]
<1>1. PICK g : AddsUp(g, F, S)
  BY AddsUpExists
<1>2. ASSUME NEW T \in SUBSET S
      PROVE  Sum(F, T) = g[T]
  <2> DEFINE h == CHOOSE h : AddsUp(h, F, T)
  <2>1. AddsUp(h, F, T)
    BY FS_Subset, AddsUpExists, Zenon
  <2>. HIDE DEF h
  <2>3. g[T] = h[T]
    <3>1. \A G : (\A x \in T : F[x] = G[x]) /\ AddsUp(h, G, T) => g[T] = h[T]
      BY <1>1, AddsUpUnique
    <3>. QED  BY <2>1, <3>1
  <2>4. Sum(F, T) = h[T]
    BY SumUnfolds, Zenon DEF h
  <2>. QED  BY <2>3, <2>4
<1>. QED  BY <1>1, <1>2

LEMMA SumEmpty == ASSUME NEW F PROVE Sum(F, {}) = 0
<1>1. PICK g : AddsUp(g, F, {}) /\ \A T \in SUBSET {} : Sum(F, T) = g[T]
  BY FS_EmptySet, SumIsFold
<1>2. g[{}] = 0
  BY <1>1 DEF AddsUp
<1>. QED  BY <1>1, <1>2

(* Equal summands, equal sums.                                              *)
LEMMA SumSame ==
    ASSUME NEW F, NEW G, NEW S, IsFiniteSet(S), \A x \in S : F[x] = G[x]
    PROVE  Sum(F, S) = Sum(G, S)
<1>1. PICK g : AddsUp(g, F, S) /\ \A T \in SUBSET S : Sum(F, T) = g[T]
  BY SumIsFold
<1>2. PICK h : AddsUp(h, G, S) /\ \A T \in SUBSET S : Sum(G, T) = h[T]
  BY SumIsFold
<1>3. g[S] = h[S]
  BY <1>1, <1>2, AddsUpUnique
<1>. QED  BY <1>1, <1>2, <1>3

(* Any element may be taken out first.                                      *)
LEMMA SumSplit ==
    ASSUME NEW F, NEW S, IsFiniteSet(S), \A x \in S : F[x] \in Int
    PROVE  /\ Sum(F, S) \in Int
           /\ \A x \in S : Sum(F, S) = F[x] + Sum(F, S \ {x})
<1>1. PICK g : AddsUp(g, F, S) /\ \A T \in SUBSET S : Sum(F, T) = g[T]
  BY SumIsFold
<1> DEFINE ok(s) == g[s] \in Int /\ \A x \in s : g[s] = F[x] + g[s \ {x}]
           N == {n \in Nat : \A s \in SUBSET S : Cardinality(s) <= n => ok(s)}
<1>2. \A s \in SUBSET S : IsFiniteSet(s) /\ Cardinality(s) \in Nat
  BY FS_Subset, FS_CardinalityType
<1>3. 0 \in N
  <2>1. g[{}] = 0
    BY <1>1 DEF AddsUp
  <2>2. \A s \in SUBSET S : Cardinality(s) <= 0 => s = {}
    BY <1>2, FS_EmptySet
  <2>3. ok({})
    BY <2>1
  <2>. HIDE DEF ok
  <2>. QED  BY <2>2, <2>3
<1>4. ASSUME NEW n \in Nat, n \in N
      PROVE  n + 1 \in N
  <2>. SUFFICES ASSUME NEW s \in SUBSET S, Cardinality(s) <= n + 1, s # {}
                PROVE  ok(s)
    <3>1. ok({})
      BY <1>1 DEF AddsUp
    <3>. HIDE DEF ok
    <3>. QED  BY <3>1
  <2> DEFINE p == Pick(s)
  <2>1. p \in s
    BY PickIn
  <2>2. g[s] = F[p] + g[s \ {p}]
    BY <1>1 DEF AddsUp
  <2>. HIDE DEF p
  <2>3. \A x \in s : Cardinality(s \ {x}) <= n
    <3>. SUFFICES ASSUME NEW x \in s PROVE Cardinality(s \ {x}) <= n
      OBVIOUS
    <3>1. IsFiniteSet(s) /\ Cardinality(s) \in Nat
      BY <1>2
    <3>2. Cardinality(s \ {x}) = Cardinality(s) - 1
      BY <3>1, FS_RemoveElement
    <3>. QED  BY <3>1, <3>2
  <2>4. \A x \in s : ok(s \ {x})
    <3>. SUFFICES ASSUME NEW x \in s PROVE ok(s \ {x})
      OBVIOUS
    <3>. QED  BY <2>3, <1>4
  <2>5. F[p] \in Int /\ g[s \ {p}] \in Int
    BY <2>1, <2>4
  <2>6. ASSUME NEW x \in s
        PROVE  g[s] = F[x] + g[s \ {x}]
    <3>1. CASE x = p
      BY <3>1, <2>2
    <3>2. CASE x # p
      <4> DEFINE rest == (s \ {p}) \ {x}
      <4>1. g[s \ {p}] = F[x] + g[rest]
        BY <2>1, <2>4, <3>2
      <4>2. rest = (s \ {x}) \ {p}
        OBVIOUS
      <4>3. g[s \ {x}] = F[p] + g[rest]
        BY <2>1, <2>4, <3>2, <4>2
      <4>4. g[rest] \in Int
        <5>1. IsFiniteSet(s \ {p}) /\ Cardinality(s \ {p}) \in Nat
          BY <1>2
        <5>2. Cardinality(rest) = Cardinality(s \ {p}) - 1
          BY <5>1, <3>2, FS_RemoveElement
        <5>3. Cardinality(rest) <= n /\ rest \in SUBSET S
          BY <5>1, <5>2, <2>1, <2>3
        <5>. QED  BY <5>3, <1>4
      <4>5. F[x] \in Int
        OBVIOUS
      <4>. HIDE DEF rest
      <4>. QED  BY <2>2, <2>5, <4>1, <4>3, <4>4, <4>5
    <3>. QED  BY <3>1, <3>2
  <2>7. g[s] \in Int
    BY <2>2, <2>5
  <2>. QED  BY <2>6, <2>7
<1>. HIDE DEF N
<1>5. Cardinality(S) \in N
  BY <1>2, <1>3, <1>4, NumberInduction
<1>6. ok(S)
  BY <1>5 DEF N
<1>. QED  BY <1>1, <1>6

LEMMA SumAdd ==
    ASSUME NEW F, NEW S, IsFiniteSet(S), NEW x, x \notin S,
           \A y \in S \cup {x} : F[y] \in Int
    PROVE  Sum(F, S \cup {x}) = F[x] + Sum(F, S)
<1>1. IsFiniteSet(S \cup {x})
  BY FS_AddElement
<1>2. Sum(F, S \cup {x}) = F[x] + Sum(F, (S \cup {x}) \ {x})
  BY <1>1, SumSplit
<1>3. (S \cup {x}) \ {x} = S
  OBVIOUS
<1>. QED  BY <1>2, <1>3

(* Disjoint sets add up.                                                    *)
LEMMA SumUnion ==
    ASSUME NEW F, NEW S, IsFiniteSet(S), NEW T, IsFiniteSet(T), S \cap T = {},
           \A x \in S \cup T : F[x] \in Int
    PROVE  Sum(F, S \cup T) = Sum(F, S) + Sum(F, T)
<1> DEFINE P == {s \in SUBSET T : Sum(F, S \cup s) = Sum(F, S) + Sum(F, s)}
<1>1. \A s : s \in P <=> s \in SUBSET T /\ Sum(F, S \cup s) = Sum(F, S) + Sum(F, s)
  OBVIOUS
<1>. HIDE DEF P
<1>2. {} \in P
  <2>1. S \cup {} = S /\ Sum(F, S) \in Int /\ Sum(F, {}) = 0
    BY SumEmpty, SumSplit
  <2>. QED  BY <1>1, <2>1
<1>3. ASSUME NEW s \in SUBSET T, NEW x \in T \ s, s \in P
      PROVE  s \cup {x} \in P
  <2>1. IsFiniteSet(s) /\ IsFiniteSet(S \cup s)
    BY FS_Subset, FS_Union
  <2>2. x \notin s /\ x \notin S \cup s /\ S \cup (s \cup {x}) = (S \cup s) \cup {x}
    OBVIOUS
  <2>3. Sum(F, s \cup {x}) = F[x] + Sum(F, s)
    <3>1. \A y \in s \cup {x} : F[y] \in Int
      OBVIOUS
    <3>. QED  BY <2>1, <2>2, <3>1, SumAdd
  <2>4. Sum(F, (S \cup s) \cup {x}) = F[x] + Sum(F, S \cup s)
    <3>1. \A y \in (S \cup s) \cup {x} : F[y] \in Int
      OBVIOUS
    <3>. QED  BY <2>1, <2>2, <3>1, SumAdd
  <2>5. Sum(F, S) \in Int /\ Sum(F, s) \in Int /\ F[x] \in Int
    <3>1. (\A y \in s : F[y] \in Int) /\ (\A y \in S : F[y] \in Int) /\ F[x] \in Int
      OBVIOUS
    <3>. QED  BY <2>1, <3>1, SumSplit
  <2>6. Sum(F, S \cup s) = Sum(F, S) + Sum(F, s)
    BY <1>1, <1>3
  <2>. QED  BY <1>1, <2>2, <2>3, <2>4, <2>5, <2>6
<1>4. T \in P
  BY <1>2, <1>3, SubsetInduction
<1>. QED  BY <1>1, <1>4

(* What adds nothing may be left out.                                       *)
LEMMA SumOfPart ==
    ASSUME NEW F, NEW S, IsFiniteSet(S), NEW T \in SUBSET S,
           \A x \in S : F[x] \in Int, \A x \in S \ T : F[x] = 0
    PROVE  Sum(F, S) = Sum(F, T)
<1> DEFINE P == {s \in SUBSET (S \ T) : Sum(F, T \cup s) = Sum(F, T)}
<1>1. \A s : s \in P <=> s \in SUBSET (S \ T) /\ Sum(F, T \cup s) = Sum(F, T)
  OBVIOUS
<1>. HIDE DEF P
<1>2. {} \in P
  BY <1>1
<1>3. ASSUME NEW s \in SUBSET (S \ T), NEW x \in (S \ T) \ s, s \in P
      PROVE  s \cup {x} \in P
  <2>1. IsFiniteSet(T \cup s)
    BY FS_Subset
  <2>2. Sum(F, (T \cup s) \cup {x}) = F[x] + Sum(F, T \cup s)
    BY <2>1, SumAdd
  <2>3. (T \cup s) \cup {x} = T \cup (s \cup {x})
    OBVIOUS
  <2>4. Sum(F, T \cup s) \in Int
    BY <2>1, SumSplit
  <2>. QED  BY <1>1, <1>3, <2>2, <2>3, <2>4
<1>4. S \ T \in P
  BY <1>2, <1>3, SubsetInduction, FS_Subset
<1>5. T \cup (S \ T) = S
  OBVIOUS
<1>. QED  BY <1>1, <1>4, <1>5

(* Elements counted by groups: the groups' sizes add up to the set's.       *)
Group(R, key, k) == {x \in R : key[x] = k}

LEMMA SumOfGroups ==
    ASSUME NEW R, IsFiniteSet(R), NEW K, IsFiniteSet(K),
           NEW key, \A x \in R : key[x] \in K
    PROVE  Sum([k \in K |-> Cardinality(Group(R, key, k))], K) = Cardinality(R)
<1> DEFINE F == [k \in K |-> Cardinality(Group(R, key, k))]
           of(s) == {x \in R : key[x] \in s}
           P == {s \in SUBSET K : Sum(F, s) = Cardinality(of(s))}
<1>1. \A s : s \in P <=> s \in SUBSET K /\ Sum(F, s) = Cardinality(of(s))
  OBVIOUS
<1>. HIDE DEF P
<1>2. \A s : IsFiniteSet(of(s)) /\ Cardinality(of(s)) \in Nat
  BY FS_Subset, FS_CardinalityType
<1>3. of({}) = {} /\ of(K) = R
  OBVIOUS
<1>4. \A s, k : of(s \cup {k}) = of(s) \cup Group(R, key, k)
  BY DEF Group
<1>5. \A s, k : k \notin s => of(s) \cap Group(R, key, k) = {}
  BY DEF Group
<1>6. \A k : /\ IsFiniteSet(Group(R, key, k))
             /\ Cardinality(Group(R, key, k)) \in Nat
  BY FS_Subset, FS_CardinalityType DEF Group
<1>. HIDE DEF of
<1>7. \A k \in K : F[k] = Cardinality(Group(R, key, k)) /\ F[k] \in Nat
  BY <1>6
<1>. HIDE DEF F
<1>8. {} \in P
  BY <1>1, <1>3, SumEmpty, FS_EmptySet
<1>9. ASSUME NEW s \in SUBSET K, NEW k \in K \ s, s \in P
      PROVE  s \cup {k} \in P
  <2>1. IsFiniteSet(s)
    BY FS_Subset
  <2>2. Sum(F, s \cup {k}) = F[k] + Sum(F, s)
    <3>1. \A y \in s \cup {k} : F[y] \in Int
      BY <1>7
    <3>. QED  BY <2>1, <3>1, SumAdd
  <2> DEFINE new == Group(R, key, k)
             old == of(s)
             both == of(s \cup {k})
  <2>3. Cardinality(both) = Cardinality(old) + Cardinality(new)
    <3>1. both = old \cup new /\ old \cap new = {}
      BY <1>4, <1>5
    <3>2. IsFiniteSet(old) /\ Cardinality(old) \in Nat
      BY <1>2
    <3>3. IsFiniteSet(new) /\ Cardinality(new) \in Nat
      BY <1>6
    <3>. HIDE DEF both, old, new
    <3>4. Cardinality(old \cup new)
            = Cardinality(old) + Cardinality(new) - Cardinality(old \cap new)
      BY <3>2, <3>3, FS_Union
    <3>5. Cardinality(both) = Cardinality(old \cup new)
      BY <3>1, Zenon
    <3>6. Cardinality(old \cap new) = 0
      BY <3>1, FS_EmptySet, Zenon
    <3>. QED  BY <3>2, <3>3, <3>4, <3>5, <3>6
  <2>4. Cardinality(old) \in Nat /\ Cardinality(new) \in Nat
    BY <1>2, <1>6
  <2>5. Sum(F, s \cup {k}) = Cardinality(both)
    <3>1. F[k] = Cardinality(new) /\ Sum(F, s) = Cardinality(old)
      BY <1>1, <1>7, <1>9
    <3>. HIDE DEF both, old, new
    <3>. QED  BY <2>2, <2>3, <2>4, <3>1
  <2>. QED  BY <1>1, <2>5
<1>10. K \in P
  BY <1>8, <1>9, SubsetInduction
<1>. QED  BY <1>1, <1>3, <1>10 DEF F

==============================================================================
