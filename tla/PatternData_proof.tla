--------------------------- MODULE PatternData_proof ---------------------------
(****************************************************************************)
(* The pure functions of a communication pattern, for every number of ranks *)
(* and all ranges: the sweep over the ends of the ranges reports a range    *)
(* exactly if two overlap, the search over sorted ends finds the owner of   *)
(* an index, and the indices a rank asks an owner for are numbered without  *)
(* a gap.                                                                   *)
(*                                                                          *)
(* Sums and the sweep are folds, so what they compute is shown by induction *)
(* over the subsets of a finite set.  The lemma for that names a set of     *)
(* subsets, not a predicate, and follows from the strict subset order being *)
(* well-founded.                                                            *)
(****************************************************************************)
EXTENDS PatternData, FiniteSetTheorems, WellFoundedInduction, TLAPS

\* Induction over the subsets of a finite set, for the members of a set of subsets.
LEMMA SubsetInduction ==
  ASSUME NEW S, IsFiniteSet(S), NEW F,
         \A T \in SUBSET S : (\A U \in SUBSET T : U # T => U \in F) => T \in F
  PROVE  \A T \in SUBSET S : T \in F
<1> DEFINE bad == {T \in SUBSET S : T \notin F}
<1>1. SUFFICES ASSUME bad # {} PROVE FALSE
  OBVIOUS
<1>2. PICK T \in bad : \A U \in bad : <<U, T>> \notin StrictSubsetOrdering(S)
  <2>1. bad \subseteq FiniteSubsetsOf(S)
    BY FS_FiniteSubsetsOfFinite
  <2>2. IsWellFoundedOn(StrictSubsetOrdering(S), FiniteSubsetsOf(S))
    BY FS_StrictSubsetOrderingWellFounded
  <2> HIDE DEF bad
  <2>3. QED
    BY <1>1, <2>1, <2>2, WFMin
<1>3. \A U \in SUBSET T : U # T => U \in F
  BY <1>2 DEF StrictSubsetOrdering
<1>4. QED
  BY <1>3

-----------------------------------------------------------------------------
\* A fold over a finite set, with the element that each set gives up first.
FoldsOf(S, V, base, h, c) ==
  {g \in [SUBSET S -> V] :
     \A T \in SUBSET S : g[T] = IF T = {} THEN base ELSE h[c[T]][g[T \ {c[T]}]]}

\* What a fold over the subsets of S needs: an element that each set gives, and values in V.
FoldData(S, V, base, h, c) ==
  /\ IsFiniteSet(S)
  /\ base \in V
  /\ h \in [S -> [V -> V]]
  /\ \A T \in SUBSET S : T # {} => c[T] \in T

\* Two folds have the same value at every set that both are defined for.
LEMMA FoldsAgree ==
  ASSUME NEW S, NEW V, NEW base, NEW h, NEW c, FoldData(S, V, base, h, c),
         NEW A \in SUBSET S, NEW B \in SUBSET S,
         NEW f \in FoldsOf(A, V, base, h, c), NEW g \in FoldsOf(B, V, base, h, c)
  PROVE  \A T \in SUBSET S : T \subseteq A /\ T \subseteq B => f[T] = g[T]
<1> DEFINE F == {T \in SUBSET S : T \subseteq A /\ T \subseteq B => f[T] = g[T]}
<1>1. ASSUME NEW T \in SUBSET S, \A U \in SUBSET T : U # T => U \in F
      PROVE  T \in F
  <2>1. SUFFICES ASSUME T \subseteq A, T \subseteq B, T # {} PROVE f[T] = g[T]
    BY DEF FoldsOf
  <2>2. c[T] \in T
    BY <2>1 DEF FoldData
  <2>3. f[T \ {c[T]}] = g[T \ {c[T]}]
    BY <1>1, <2>1, <2>2
  <2>4. QED
    BY <2>1, <2>3 DEF FoldsOf
<1>2. \A T \in SUBSET S : T \in F
  <2> HIDE DEF F
  <2>1. QED
    BY <1>1, SubsetInduction DEF FoldData
<1>3. QED
  BY <1>2

\* There is a fold over the subsets of every finite set.
LEMMA FoldsExist ==
  ASSUME NEW S, NEW V, NEW base, NEW h, NEW c, FoldData(S, V, base, h, c)
  PROVE  FoldsOf(S, V, base, h, c) # {}
<1> DEFINE F == {T \in SUBSET S : FoldsOf(T, V, base, h, c) # {}}
           fold(T) == CHOOSE g : g \in FoldsOf(T, V, base, h, c)
<1>1. ASSUME NEW T \in SUBSET S, \A U \in SUBSET T : U # T => U \in F
      PROVE  T \in F
  <2> DEFINE before == T \ {c[T]}
             g == [U \in SUBSET T |->
                     IF U # T THEN fold(U)[U]
                     ELSE IF T = {} THEN base ELSE h[c[T]][fold(before)[before]]]
  <2>1. \A U \in SUBSET T : U # T => fold(U) \in FoldsOf(U, V, base, h, c)
    BY <1>1
  <2>2. \A U \in SUBSET T : U # T => g[U] \in V
    BY <2>1 DEF FoldsOf
  <2>3. T # {} => before \in SUBSET T /\ before # T /\ c[T] \in S
    BY DEF FoldData
  <2>4. g[T] = IF T = {} THEN base ELSE h[c[T]][g[before]]
    BY <2>3
  <2>5. g[T] \in V
    <3>1. CASE T = {}
      BY <3>1, <2>4 DEF FoldData
    <3>2. CASE T # {}
      <4>1. h[c[T]] \in [V -> V] /\ g[before] \in V /\ g[T] = h[c[T]][g[before]]
        BY <3>2, <2>2, <2>3, <2>4 DEF FoldData
      <4> HIDE DEF g
      <4>2. QED
        BY <4>1
    <3>3. QED
      BY <3>1, <3>2
  <2>6. ASSUME NEW U \in SUBSET T, U # T
        PROVE  g[U] = IF U = {} THEN base ELSE h[c[U]][g[U \ {c[U]}]]
    <3> DEFINE W == U \ {c[U]}
    <3>1. fold(U)[U] = IF U = {} THEN base ELSE h[c[U]][fold(U)[W]]
      BY <2>1, <2>6 DEF FoldsOf
    <3>2. CASE U = {}
      BY <3>1, <3>2, <2>6
    <3>3. CASE U # {}
      <4>1. c[U] \in U /\ W \in SUBSET U /\ W # T
        BY <2>6, <3>3 DEF FoldData
      <4>2. fold(W)[W] = fold(U)[W]
        <5> HIDE DEF fold
        <5>1. fold(W) \in FoldsOf(W, V, base, h, c) /\ fold(U) \in FoldsOf(U, V, base, h, c)
          BY <2>1, <2>6, <4>1
        <5>2. QED
          BY <5>1, <4>1, FoldsAgree
      <4>3. g[W] = fold(W)[W] /\ g[U] = fold(U)[U]
        BY <4>1, <2>6
      <4> HIDE DEF g, fold
      <4>4. QED
        BY <3>1, <3>3, <4>2, <4>3
    <3>4. QED
      BY <3>2, <3>3
  <2>7. g \in FoldsOf(T, V, base, h, c)
    <3> HIDE DEF fold
    <3>1. g \in [SUBSET T -> V]
      <4>1. \A U \in SUBSET T : g[U] \in V
        BY <2>2, <2>5
      <4>2. g = [U \in SUBSET T |-> g[U]]
        OBVIOUS
      <4> HIDE DEF g
      <4>3. QED
        BY <4>1, <4>2
    <3> HIDE DEF g
    <3>2. QED
      BY <3>1, <2>4, <2>6 DEF FoldsOf
  <2>8. QED
    BY <2>7
<1>2. \A T \in SUBSET S : T \in F
  <2> HIDE DEF F
  <2>1. QED
    BY <1>1, SubsetInduction DEF FoldData
<1>3. QED
  BY <1>2

\* f is computed like the fold, where the values before are values.
AsFolded(f, S, V, base, h, c) ==
  \A T \in SUBSET S :
    /\ T = {} => f[T] = base
    /\ T # {} /\ f[T \ {c[T]}] \in V => f[T] = h[c[T]][f[T \ {c[T]}]]

\* What is computed like the fold is the fold.
LEMMA FoldIs ==
  ASSUME NEW S, NEW V, NEW base, NEW h, NEW c, FoldData(S, V, base, h, c),
         NEW g \in FoldsOf(S, V, base, h, c),
         NEW f, AsFolded(f, S, V, base, h, c)
  PROVE  \A T \in SUBSET S : f[T] = g[T]
<1> DEFINE F == {T \in SUBSET S : f[T] = g[T]}
<1>1. ASSUME NEW T \in SUBSET S, \A U \in SUBSET T : U # T => U \in F
      PROVE  T \in F
  <2>1. CASE T = {}
    BY <2>1 DEF FoldsOf, AsFolded
  <2>2. CASE T # {}
    <3> DEFINE U == T \ {c[T]}
    <3>1. U \in SUBSET T /\ U # T
      BY <2>2 DEF FoldData
    <3>2. f[U] = g[U] /\ g[U] \in V
      BY <1>1, <3>1 DEF FoldsOf
    <3>3. QED
      BY <2>2, <3>2 DEF FoldsOf, AsFolded
  <2>3. QED
    BY <2>1, <2>2
<1>2. \A T \in SUBSET S : T \in F
  <2> HIDE DEF F
  <2>1. QED
    BY <1>1, SubsetInduction DEF FoldData
<1>3. QED
  BY <1>2

\* The ranks are finitely many numbers.
LEMMA RankFinite == IsFiniteSet(Rank) /\ Rank \subseteq Nat
<1>1. 0 \in Int /\ NumProcs - 1 \in Int
  BY NumProcsAssumption
<1>2. QED
  BY <1>1, FS_Interval DEF Rank

\* The number of global indices is a number, and 0 if no rank has any.
LEMMA SumOfSizes ==
  ASSUME NEW rs, \A k \in Rank : Size(rs[k]) \in Int
  PROVE  /\ nGlobalIndices(rs) \in Int
         /\ (\A k \in Rank : Size(rs[k]) = 0) => nGlobalIndices(rs) = 0
<1> DEFINE c == [T \in SUBSET Rank |-> CHOOSE x \in T : TRUE]
           h == [k \in Rank |-> [v \in Int |-> Size(rs[k]) + v]]
           sum(f) == f = [T \in SUBSET Rank |->
                            IF T = {} THEN 0
                            ELSE LET x == CHOOSE y \in T : TRUE
                                 IN  Size(rs[x]) + f[T \ {x}]]
<1>1. FoldData(Rank, Int, 0, h, c)
  <2>1. h \in [Rank -> [Int -> Int]]
    OBVIOUS
  <2>2. \A T \in SUBSET Rank : T # {} => c[T] \in T
    OBVIOUS
  <2>3. IsFiniteSet(Rank) /\ 0 \in Int
    BY RankFinite
  <2> HIDE DEF h, c, sum
  <2>4. QED
    BY <2>1, <2>2, <2>3, Zenon DEF FoldData
<1>2. PICK g : g \in FoldsOf(Rank, Int, 0, h, c)
  <2> HIDE DEF h, c
  <2>1. QED
    BY <1>1, FoldsExist
<1>3. sum(g)
  <2>1. g = [T \in SUBSET Rank |-> g[T]] /\ \A T \in SUBSET Rank : g[T] \in Int
    BY <1>2 DEF FoldsOf
  <2>2. \A T \in SUBSET Rank : g[T] = IF T = {} THEN 0 ELSE Size(rs[c[T]]) + g[T \ {c[T]}]
    <3>1. \A T \in SUBSET Rank : g[T] = IF T = {} THEN 0 ELSE h[c[T]][g[T \ {c[T]}]]
      BY <1>2 DEF FoldsOf
    <3>2. \A T \in SUBSET Rank : T # {} => c[T] \in Rank
      OBVIOUS
    <3>3. QED
      BY <2>1, <3>1, <3>2
  <2>3. QED
    BY <2>1, <2>2
<1>4. nGlobalIndices(rs) = (CHOOSE f : sum(f))[Rank]
  BY DEF nGlobalIndices, MapThenSumSet, MapThenFoldSet
<1> DEFINE f == CHOOSE x : sum(x)
<1>5. sum(f)
  BY <1>3
<1>6. \A T \in SUBSET Rank : f[T] = g[T]
  <2>1. ASSUME NEW T \in SUBSET Rank
        PROVE  /\ T = {} => f[T] = 0
               /\ T # {} /\ f[T \ {c[T]}] \in Int => f[T] = h[c[T]][f[T \ {c[T]}]]
    <3>1. f[T] = IF T = {} THEN 0 ELSE Size(rs[c[T]]) + f[T \ {c[T]}]
      <4> HIDE DEF f
      <4>1. QED
        BY <1>5
    <3>2. T # {} => c[T] \in Rank
      OBVIOUS
    <3> HIDE DEF f, c
    <3>3. QED
      BY <3>1, <3>2
  <2>2. AsFolded(f, Rank, Int, 0, h, c)
    <3> HIDE DEF f, c, h, sum
    <3>1. QED
      BY <2>1 DEF AsFolded
  <2> HIDE DEF f, c, h, sum
  <2>3. QED
    BY <1>1, <1>2, <2>2, FoldIs
<1>7. nGlobalIndices(rs) = g[Rank] /\ g[Rank] \in Int
  <2>1. nGlobalIndices(rs) = f[Rank]
    BY <1>4
  <2> HIDE DEF f
  <2>2. QED
    BY <1>2, <1>6, <2>1 DEF FoldsOf
<1>8. ASSUME \A k \in Rank : Size(rs[k]) = 0
      PROVE  g[Rank] = 0
  <2> DEFINE F == {T \in SUBSET Rank : g[T] = 0}
  <2>1. ASSUME NEW T \in SUBSET Rank, \A U \in SUBSET T : U # T => U \in F
        PROVE  T \in F
    <3>1. g[T] = IF T = {} THEN 0 ELSE h[c[T]][g[T \ {c[T]}]]
      <4> HIDE DEF h, c
      <4>1. QED
        BY <1>2 DEF FoldsOf
    <3>2. T # {} => c[T] \in T /\ c[T] \in Rank
      OBVIOUS
    <3>3. T # {} => g[T \ {c[T]}] = 0
      <4> HIDE DEF c
      <4>1. QED
        BY <2>1, <3>2
    <3>4. T # {} => h[c[T]][0] = 0
      <4> HIDE DEF c
      <4>1. QED
        BY <1>8, <3>2
    <3> HIDE DEF c, h
    <3>5. QED
      BY <3>1, <3>3, <3>4
  <2>2. \A T \in SUBSET Rank : T \in F
    <3> HIDE DEF F
    <3>1. QED
      BY <2>1, RankFinite, SubsetInduction
  <2>3. QED
    BY <2>2
<1>9. QED
  BY <1>7, <1>8

-----------------------------------------------------------------------------
\* A set of natural numbers that is not empty has a least element.
LEMMA LeastNumber ==
  ASSUME NEW S \in SUBSET Nat, S # {}
  PROVE  \E x \in S : \A y \in S : x <= y
<1>1. IsWellFoundedOn(OpToRel(<, Nat), Nat)
  BY NatLessThanWellFounded
<1>2. PICK x \in S : \A y \in S : <<y, x>> \notin OpToRel(<, Nat)
  BY <1>1, WFMin
<1>3. \A y \in S : ~(y < x)
  BY <1>2 DEF OpToRel
<1>4. QED
  BY <1>3

\* The elements of S below x.
Below(S, x) == {y \in S : y < x}

\* The number of elements below x is less than that of S and grows with x.
LEMMA BelowCounts ==
  ASSUME NEW S \in SUBSET Int, IsFiniteSet(S), NEW x \in S
  PROVE  /\ IsFiniteSet(Below(S, x))
         /\ Cardinality(Below(S, x)) \in Nat
         /\ Cardinality(Below(S, x)) + 1 <= Cardinality(S)
         /\ \A y \in S : y < x => Cardinality(Below(S, y)) < Cardinality(Below(S, x))
<1>1. Below(S, x) \in SUBSET S /\ x \notin Below(S, x)
  BY DEF Below
<1>2. IsFiniteSet(Below(S, x)) /\ Cardinality(Below(S, x)) \in Nat /\ Cardinality(S) \in Nat
  BY <1>1, FS_Subset, FS_CardinalityType
<1>3. Cardinality(Below(S, x)) # Cardinality(S) /\ Cardinality(Below(S, x)) <= Cardinality(S)
  BY <1>1, FS_Subset
<1>4. ASSUME NEW y \in S, y < x
      PROVE  Cardinality(Below(S, y)) < Cardinality(Below(S, x))
  <2>1. Below(S, y) \in SUBSET Below(S, x) /\ y \in Below(S, x) /\ y \notin Below(S, y)
    <3>1. x \in Int /\ y \in Int /\ \A z \in S : z \in Int /\ (z < y => z < x)
      BY <1>4
    <3>2. /\ Below(S, y) = {z \in S : z < y} /\ Below(S, x) = {z \in S : z < x}
          /\ ~(y < y)
      BY <3>1 DEF Below
    <3>3. QED
      BY <1>4, <3>1, <3>2
  <2>2. IsFiniteSet(Below(S, y)) /\ Cardinality(Below(S, y)) \in Nat
    BY <1>2, <2>1, FS_Subset, FS_CardinalityType
  <2>3. /\ Cardinality(Below(S, y)) <= Cardinality(Below(S, x))
        /\ Cardinality(Below(S, y)) # Cardinality(Below(S, x))
    BY <1>2, <2>1, FS_Subset
  <2>4. QED
    BY <1>2, <2>2, <2>3
<1>5. QED
  BY <1>2, <1>3, <1>4

\* Ascending lists the set: each entry is an element, and each element has its place, the
\* number of smaller elements plus one.
LEMMA AscendingLists ==
  ASSUME NEW S \in SUBSET Int, IsFiniteSet(S)
  PROVE  /\ Cardinality(S) \in Nat
         /\ Ascending(S) \in [1 .. Cardinality(S) -> S]
         /\ \A x \in S : \E i \in 1 .. Cardinality(S) : Ascending(S)[i] = x
         /\ \A i \in 1 .. Cardinality(S) : Cardinality(Below(S, Ascending(S)[i])) = i - 1
<1> DEFINE n == Cardinality(S)
           place == [x \in S |-> Cardinality(Below(S, x)) + 1]
<1>1. n \in Nat
  BY FS_CardinalityType
<1>2. \A x \in S : place[x] \in 1 .. n
  BY <1>1, BelowCounts
<1>3. \A x, y \in S : place[x] = place[y] => x = y
  <2> SUFFICES ASSUME NEW x \in S, NEW y \in S, x # y PROVE place[x] # place[y]
    OBVIOUS
  <2>1. x < y \/ y < x
    OBVIOUS
  <2>2. QED
    BY <2>1, BelowCounts
<1>4. place \in Injection(S, 1 .. n)
  BY <1>2, <1>3 DEF Injection, IsInjective
<1>5. IsFiniteSet(1 .. n) /\ Cardinality(1 .. n) = n
  <2>1. 1 \in Int /\ n \in Int
    BY <1>1
  <2>2. IsFiniteSet(1 .. n) /\ Cardinality(1 .. n) = IF 1 > n THEN 0 ELSE n - 1 + 1
    <3> HIDE DEF n
    <3>1. QED
      BY <2>1, FS_Interval
  <2>3. QED
    BY <1>1, <2>2
<1>6. place \in Surjection(S, 1 .. n)
  <2> HIDE DEF place
  <2>1. QED
    BY <1>4, <1>5, FS_Injection
<1>7. \A i \in 1 .. n : \E x \in S : place[x] = i
  <2> HIDE DEF place
  <2>1. QED
    BY <1>6 DEF Surjection
<1>8. \A x \in S, i \in 1 .. n :
        place[x] = i <=> Cardinality({y \in S : y < x}) = i - 1
  <2> SUFFICES ASSUME NEW x \in S, NEW i \in 1 .. n
               PROVE  place[x] = i <=> Cardinality({y \in S : y < x}) = i - 1
    OBVIOUS
  <2>1. place[x] = Cardinality({y \in S : y < x}) + 1 /\ Cardinality({y \in S : y < x}) \in Nat
    BY BelowCounts DEF Below
  <2>2. QED
    BY <1>1, <2>1
<1>9. \A i \in 1 .. n : Ascending(S)[i] \in S /\ place[Ascending(S)[i]] = i
  <2> SUFFICES ASSUME NEW i \in 1 .. n
               PROVE  Ascending(S)[i] \in S /\ place[Ascending(S)[i]] = i
    OBVIOUS
  <2>1. Ascending(S)[i] = CHOOSE x \in S : Cardinality({y \in S : y < x}) = i - 1
    BY DEF Ascending
  <2>2. \E x \in S : Cardinality({y \in S : y < x}) = i - 1
    <3> HIDE DEF place
    <3>1. QED
      BY <1>7, <1>8
  <2>3. Ascending(S)[i] \in S /\ Cardinality({y \in S : y < Ascending(S)[i]}) = i - 1
    BY <2>1, <2>2
  <2> HIDE DEF place
  <2>4. QED
    BY <1>8, <2>3
<1>10. Ascending(S) = [i \in 1 .. n |-> Ascending(S)[i]]
  BY DEF Ascending
<1> HIDE DEF place
<1>11. \A x \in S : Ascending(S)[place[x]] = x
  BY <1>2, <1>3, <1>9
<1>12. \A i \in 1 .. n : Cardinality(Below(S, Ascending(S)[i])) = i - 1
  <2> SUFFICES ASSUME NEW i \in 1 .. n PROVE Cardinality(Below(S, Ascending(S)[i])) = i - 1
    OBVIOUS
  <2>1. /\ Ascending(S)[i] \in S /\ place[Ascending(S)[i]] = i
        /\ Cardinality(Below(S, Ascending(S)[i])) \in Nat
    BY <1>9, BelowCounts
  <2>2. place[Ascending(S)[i]] = Cardinality(Below(S, Ascending(S)[i])) + 1
    BY <2>1 DEF place
  <2>3. QED
    BY <2>1, <2>2
<1>13. QED
  BY <1>1, <1>2, <1>9, <1>10, <1>11, <1>12

-----------------------------------------------------------------------------
\* The ranges that pass the first check.
RangesOK(rs) ==
  \A k \in Rank : rs[k].first \in Nat /\ rs[k].second \in Nat /\ rs[k].first <= rs[k].second

\* No two ranges share an index.
Disjoint(rs) ==
  \A j, k \in Rank : j # k => Indices(rs[j]) \cap Indices(rs[k]) = {}

\* The keys of the owner search are numbers.
LEMMA SearchEnds ==
  ASSUME NEW rs, RangesOK(rs)
  PROVE  /\ nGlobalIndices(rs) \in Int
         /\ \A k \in Rank : SearchEnd(rs, k) \in Int
<1>1. \A k \in Rank : Size(rs[k]) \in Int
  BY DEF RangesOK, Size
<1>2. nGlobalIndices(rs) \in Int
  BY <1>1, SumOfSizes
<1>3. ASSUME NEW k \in Rank
      PROVE  SearchEnd(rs, k) \in Int
  <2>1. k \in Int /\ rs[k].second \in Int /\ nGlobalIndices(rs) + 1 + k \in Int
    BY <1>2, RankFinite DEF RangesOK
  <2>2. QED
    BY <2>1 DEF SearchEnd
<1>4. QED
  BY <1>2, <1>3

\* The search by range ends finds a rank, the one with the least end beyond the index.
LEMMA OwnerSearched ==
  ASSUME NEW rs, RangesOK(rs), NEW g \in Nat, EndsBeyond(rs, g) # {}
  PROVE  /\ procIdOf(rs, g) \in EndsBeyond(rs, g)
         /\ procIdOf(rs, g) \in Rank
         /\ \A j \in EndsBeyond(rs, g) : SearchEnd(rs, procIdOf(rs, g)) <= SearchEnd(rs, j)
<1> DEFINE ends == {SearchEnd(rs, k) : k \in EndsBeyond(rs, g)}
<1>1. \A k \in EndsBeyond(rs, g) : SearchEnd(rs, k) \in Nat
  BY SearchEnds DEF EndsBeyond
<1>2. ends \in SUBSET Nat /\ ends # {}
  BY <1>1
<1>3. \E e \in ends : \A f \in ends : e <= f
  <2> HIDE DEF ends
  <2>1. QED
    BY <1>2, LeastNumber
<1>4. \E k \in EndsBeyond(rs, g) : \A j \in EndsBeyond(rs, g) : SearchEnd(rs, k) <= SearchEnd(rs, j)
  BY <1>3
<1>5. QED
  BY <1>4 DEF procIdOf, EndsBeyond

\* If the ranges are disjoint, the rank that is found is the one that owns the index.
LEMMA OwnerIsFound ==
  ASSUME NEW rs, RangesOK(rs), Disjoint(rs), NEW k \in Rank, NEW g \in Indices(rs[k]),
         rs[k].second <= nGlobalIndices(rs)
  PROVE  EndsBeyond(rs, g) # {} /\ procIdOf(rs, g) = k
<1>1. g \in Nat /\ rs[k].first <= g /\ g < rs[k].second /\ ~IsEmpty(rs[k])
  BY DEF RangesOK, Indices, IsEmpty
<1>2. k \in EndsBeyond(rs, g) /\ SearchEnd(rs, k) = rs[k].second
  BY <1>1 DEF EndsBeyond, SearchEnd
<1>3. ASSUME NEW j \in EndsBeyond(rs, g), j # k
      PROVE  SearchEnd(rs, k) < SearchEnd(rs, j)
  <2>1. j \in Rank /\ j \in Nat
    BY RankFinite DEF EndsBeyond
  <2>2. CASE IsEmpty(rs[j])
    BY <1>2, <2>1, <2>2, SearchEnds DEF SearchEnd, RangesOK
  <2>3. CASE ~IsEmpty(rs[j])
    <3>1. g < rs[j].second /\ SearchEnd(rs, j) = rs[j].second
      BY <1>3, <2>3 DEF EndsBeyond, SearchEnd
    <3>2. g \notin Indices(rs[j]) /\ rs[j].first \notin Indices(rs[k])
      <4>1. rs[j].first \in Indices(rs[j])
        BY <2>1, <2>3 DEF Indices, RangesOK, IsEmpty
      <4>2. QED
        BY <1>3, <2>1, <4>1 DEF Disjoint
    <3>3. /\ rs[j].first \in Nat /\ rs[j].second \in Nat
          /\ rs[k].first \in Nat /\ rs[k].second \in Nat
      BY <2>1 DEF RangesOK
    <3>4. ~(rs[j].first <= g)
      BY <1>1, <3>1, <3>2, <3>3 DEF Indices
    <3>5. ~(rs[j].first <= rs[k].second - 1)
      BY <1>1, <3>2, <3>3, <3>4 DEF Indices
    <3>6. rs[j].first <= rs[j].second
      BY <2>1 DEF RangesOK
    <3>7. rs[j].first # rs[j].second
      BY <2>3 DEF IsEmpty
    <3>8. QED
      BY <1>2, <3>1, <3>3, <3>5, <3>6, <3>7
  <2>4. QED
    BY <2>2, <2>3
<1>4. QED
  <2>1. procIdOf(rs, g) \in EndsBeyond(rs, g) /\ SearchEnd(rs, procIdOf(rs, g)) <= SearchEnd(rs, k)
    BY <1>1, <1>2, OwnerSearched
  <2>2. procIdOf(rs, g) # k => SearchEnd(rs, k) < SearchEnd(rs, procIdOf(rs, g))
    BY <1>3, <2>1
  <2>3. SearchEnd(rs, k) \in Int /\ SearchEnd(rs, procIdOf(rs, g)) \in Int
    BY <1>2, <2>1, SearchEnds DEF EndsBeyond
  <2>4. QED
    BY <1>2, <2>1, <2>2, <2>3

\* The local numbers of the ghost indices of one owner have no gaps, if all indices between
\* two of an owner are of this owner.
LEMMA NumbersAreContiguous ==
  ASSUME NEW rs, RangesOK(rs), NEW G \in SUBSET Nat, IsFiniteSet(G), NEW k \in Rank,
         \A g \in G : procIdOf(rs, g) = k <=> g \in Indices(rs[k])
  PROVE  checkContiguity({localGhostIndex(G, g) : g \in GhostsOf(rs, G, k)})
<1> DEFINE mine == GhostsOf(rs, G, k)
           v == {localGhostIndex(G, g) : g \in mine}
<1>1. mine \in SUBSET G /\ mine = {g \in G : g \in Indices(rs[k])}
  BY DEF GhostsOf
<1>2. \A g \in G : localGhostIndex(G, g) = Cardinality(Below(G, g)) /\ localGhostIndex(G, g) \in Nat
  BY BelowCounts DEF localGhostIndex, Below
<1> SUFFICES ASSUME NEW i \in v PROVE i = Min(v) \/ i - 1 \in v
  BY DEF checkContiguity
<1>3. PICK g \in mine : i = localGhostIndex(G, g)
  OBVIOUS
<1>4. CASE \A m \in mine : ~(m < g)
  <2>1. \A m \in mine : i <= localGhostIndex(G, m)
    <3> SUFFICES ASSUME NEW m \in mine PROVE i <= localGhostIndex(G, m)
      OBVIOUS
    <3>1. m = g \/ g < m
      <4>1. m \in Nat /\ g \in Nat /\ ~(m < g)
        BY <1>1, <1>4
      <4>2. QED
        BY <4>1
    <3>2. QED
      BY <1>1, <1>2, <1>3, <3>1, BelowCounts
  <2>2. \A j \in v : i <= j /\ j \in Nat
    BY <1>1, <1>2, <2>1
  <2> HIDE DEF v
  <2>3. Min(v) \in v /\ Min(v) <= i
    BY <2>2 DEF Min
  <2>4. QED
    BY <2>2, <2>3
<1>5. CASE \E m \in mine : m < g
  <2>1. PICK m \in mine : m < g
    BY <1>5
  <2> DEFINE below == Below(G, g)
             gaps == {g - h : h \in below}
  <2>2. g \in Nat /\ m \in below /\ \A h \in below : h \in Nat /\ h < g /\ h \in G
    BY <1>1, <2>1 DEF Below
  <2>3. gaps \in SUBSET Nat /\ gaps # {}
    <3> HIDE DEF below
    <3>1. QED
      BY <2>2
  <2>4. PICK x \in gaps : \A y \in gaps : x <= y
    <3> HIDE DEF gaps
    <3>1. QED
      BY <2>3, LeastNumber
  <2>5. PICK last \in below : x = g - last
    OBVIOUS
  <2>6. \A h \in below : h <= last
    <3> SUFFICES ASSUME NEW h \in below PROVE h <= last
      OBVIOUS
    <3>1. g - last <= g - h
      BY <2>4, <2>5
    <3> HIDE DEF below
    <3>2. QED
      BY <2>2, <3>1
  <2>7. last \in mine
    <3>1. last \in G /\ m <= last /\ last < g /\ last \in Nat /\ m \in Nat
      BY <2>2, <2>6
    <3>2. rs[k].first \in Nat /\ rs[k].second \in Nat
      BY DEF RangesOK
    <3>3. last \in Indices(rs[k])
      BY <1>1, <2>1, <2>2, <3>1, <3>2 DEF Indices
    <3>4. QED
      BY <1>1, <3>1, <3>3
  <2>8. below = Below(G, last) \cup {last} /\ last \notin Below(G, last)
    <3>1. Below(G, last) \subseteq below
      BY <2>2 DEF Below
    <3>2. \A h \in below : h = last \/ h \in Below(G, last)
      <4> SUFFICES ASSUME NEW h \in below, h # last PROVE h \in Below(G, last)
        OBVIOUS
      <4>1. h \in G /\ h \in Nat /\ last \in Nat /\ h <= last
        BY <2>2, <2>6
      <4>2. QED
        BY <4>1 DEF Below
    <3>3. last \notin Below(G, last)
      BY <2>2 DEF Below
    <3>4. QED
      BY <3>1, <3>2, <3>3
  <2>9. IsFiniteSet(Below(G, last)) /\ Cardinality(Below(G, last)) \in Nat
    BY <1>1, <2>7, BelowCounts
  <2>10. Cardinality(below) = Cardinality(Below(G, last)) + 1
    <3> HIDE DEF below
    <3>1. QED
      BY <2>8, <2>9, FS_AddElement
  <2>11. i = Cardinality(below) /\ localGhostIndex(G, last) = Cardinality(Below(G, last))
    BY <1>1, <1>2, <1>3, <2>7
  <2>12. i - 1 = localGhostIndex(G, last)
    BY <2>9, <2>10, <2>11
  <2>13. QED
    BY <2>7, <2>12
<1>6. QED
  BY <1>4, <1>5

-----------------------------------------------------------------------------
\* The sweep over the ends of the ranges.
NonEmpty(rs) == {k \in Rank : ~IsEmpty(rs[k])}
\* The two events of a range, its start and its end.
start(rs, k) == [Id |-> rs[k].first, rangeId |-> k, isRangeStart |-> TRUE]
end(rs, k) == [Id |-> rs[k].second, rangeId |-> k, isRangeStart |-> FALSE]

\* A range that is not empty starts before it ends.
LEMMA NonEmptyRange ==
  ASSUME NEW rs, RangesOK(rs), NEW k \in NonEmpty(rs)
  PROVE  /\ k \in Rank /\ k \in Int
         /\ rs[k].first \in Int /\ rs[k].second \in Int /\ rs[k].first < rs[k].second
         /\ rs[k].first \in Indices(rs[k])
<1>1. k \in Rank /\ rs[k].first # rs[k].second
  BY DEF NonEmpty, IsEmpty
<1>2. QED
  BY <1>1, RankFinite DEF RangesOK, Indices

\* The events are the starts and the ends of the ranges that are not empty.
LEMMA EventsAre ==
  ASSUME NEW rs
  PROVE  /\ \A k \in NonEmpty(rs) : start(rs, k) \in Events(rs) /\ end(rs, k) \in Events(rs)
         /\ \A e \in Events(rs) :
              e.rangeId \in NonEmpty(rs) /\ (e = start(rs, e.rangeId) \/ e = end(rs, e.rangeId))
<1>1. Events(rs) = UNION {{start(rs, k), end(rs, k)} : k \in NonEmpty(rs)}
  BY DEF Events, NonEmpty, start, end
<1>2. \A k : start(rs, k).rangeId = k /\ end(rs, k).rangeId = k
  BY DEF start, end
<1>3. ASSUME NEW e \in Events(rs)
      PROVE  e.rangeId \in NonEmpty(rs) /\ (e = start(rs, e.rangeId) \/ e = end(rs, e.rangeId))
  <2>1. PICK k \in NonEmpty(rs) : e = start(rs, k) \/ e = end(rs, k)
    BY <1>1
  <2>2. QED
    BY <1>2, <2>1
<1>4. QED
  BY <1>1, <1>3

\* A start is no end, and the events of two ranges differ.
LEMMA EventFields ==
  \A rs, k :
    /\ start(rs, k).Id = rs[k].first /\ start(rs, k).rangeId = k
    /\ start(rs, k).isRangeStart = TRUE
    /\ end(rs, k).Id = rs[k].second /\ end(rs, k).rangeId = k
    /\ end(rs, k).isRangeStart = FALSE
BY DEF start, end

\* The events are finitely many.
LEMMA EventsFinite ==
  ASSUME NEW rs
  PROVE  IsFiniteSet(Events(rs))
<1> DEFINE pair == [k \in NonEmpty(rs) |-> {start(rs, k), end(rs, k)}]
           pairs == {{start(rs, k), end(rs, k)} : k \in NonEmpty(rs)}
<1>1. IsFiniteSet(NonEmpty(rs))
  BY RankFinite, FS_Subset DEF NonEmpty
<1>2. pair \in Surjection(NonEmpty(rs), pairs)
  BY DEF Surjection
<1>3. IsFiniteSet(pairs)
  <2> HIDE DEF pair, pairs
  <2>1. QED
    BY <1>1, <1>2, FS_Surjection
<1>4. \A p \in pairs : IsFiniteSet(p)
  <2>1. \A k : IsFiniteSet({start(rs, k)} \cup {end(rs, k)})
    BY FS_Singleton, FS_AddElement
  <2>2. \A k : {start(rs, k), end(rs, k)} = {start(rs, k)} \cup {end(rs, k)}
    OBVIOUS
  <2>3. QED
    BY <2>1, <2>2
<1>5. Events(rs) = UNION pairs
  BY DEF Events, NonEmpty, start, end
<1>6. QED
  <2> HIDE DEF pairs
  <2>1. QED
    BY <1>3, <1>4, <1>5, FS_UNION

\* The events are strictly and totally ordered.
LEMMA EventOrder ==
  ASSUME NEW rs, RangesOK(rs),
         NEW x \in Events(rs), NEW y \in Events(rs), NEW z \in Events(rs)
  PROVE  /\ ~compareRangeMetaData(x, x)
         /\ compareRangeMetaData(x, y) => ~compareRangeMetaData(y, x)
         /\ compareRangeMetaData(x, y) /\ compareRangeMetaData(y, z) => compareRangeMetaData(x, z)
         /\ x # y => compareRangeMetaData(x, y) \/ compareRangeMetaData(y, x)
<1> DEFINE typed(e) == e.Id \in Int /\ e.isRangeStart \in BOOLEAN /\ e.rangeId \in Int
<1>1. ASSUME NEW e \in Events(rs)
      PROVE  typed(e)
  <2>1. PICK k \in NonEmpty(rs) : e = start(rs, k) \/ e = end(rs, k)
    BY EventsAre
  <2>2. rs[k].first \in Int /\ rs[k].second \in Int /\ k \in Int
    BY NonEmptyRange
  <2>3. CASE e = start(rs, k)
    BY <2>2, <2>3, EventFields
  <2>4. CASE e = end(rs, k)
    BY <2>2, <2>4, EventFields
  <2>5. QED
    BY <2>1, <2>3, <2>4
<1>2. typed(x) /\ typed(y) /\ typed(z)
  BY <1>1
<1>3. x.rangeId = y.rangeId /\ x.isRangeStart = y.isRangeStart => x = y
  BY EventsAre DEF start, end
<1>4. ~compareRangeMetaData(x, x)
  BY <1>2 DEF compareRangeMetaData
<1>5. compareRangeMetaData(x, y) => ~compareRangeMetaData(y, x)
  BY <1>2 DEF compareRangeMetaData
<1>6. compareRangeMetaData(x, y) /\ compareRangeMetaData(y, z) => compareRangeMetaData(x, z)
  BY <1>2 DEF compareRangeMetaData
<1>7. x # y => compareRangeMetaData(x, y) \/ compareRangeMetaData(y, x)
  BY <1>2, <1>3 DEF compareRangeMetaData
<1>8. QED
  BY <1>4, <1>5, <1>6, <1>7

\* Some event of E comes after all others of it.
HasLast(E) == \E x \in E : \A y \in E \ {x} : compareRangeMetaData(y, x)

\* LastEvent is the event of a set that comes after all others.
LEMMA LastOfEvents ==
  ASSUME NEW rs, RangesOK(rs), NEW E \in SUBSET Events(rs), E # {}
  PROVE  /\ LastEvent(E) \in E
         /\ \A y \in E \ {LastEvent(E)} : compareRangeMetaData(y, LastEvent(E))
<1> DEFINE F == {T \in SUBSET Events(rs) : T # {} => HasLast(T)}
<1>1. ASSUME NEW T \in SUBSET Events(rs), \A U \in SUBSET T : U # T => U \in F
      PROVE  T \in F
  <2> SUFFICES ASSUME T # {} PROVE HasLast(T)
    OBVIOUS
  <2>1. PICK x \in T : TRUE
    OBVIOUS
  <2>2. CASE T \ {x} = {}
    BY <2>1, <2>2 DEF HasLast
  <2>3. CASE T \ {x} # {}
    <3>1. T \ {x} \in F
      BY <1>1, <2>1
    <3>2. PICK y \in T \ {x} : \A u \in (T \ {x}) \ {y} : compareRangeMetaData(u, y)
      BY <2>3, <3>1 DEF HasLast
    <3>3. x \in Events(rs) /\ y \in Events(rs) /\ x # y
      OBVIOUS
    <3>4. CASE compareRangeMetaData(x, y)
      BY <3>2, <3>4 DEF HasLast
    <3>5. CASE compareRangeMetaData(y, x)
      <4>1. \A u \in T \ {x} : compareRangeMetaData(u, x)
        <5> SUFFICES ASSUME NEW u \in T \ {x} PROVE compareRangeMetaData(u, x)
          OBVIOUS
        <5>1. u = y \/ compareRangeMetaData(u, y)
          BY <3>2
        <5>2. u \in Events(rs)
          OBVIOUS
        <5>3. QED
          BY <3>3, <3>5, <5>1, <5>2, EventOrder
      <4>2. QED
        BY <4>1 DEF HasLast
    <3>6. QED
      BY <3>3, <3>4, <3>5, EventOrder
  <2>4. QED
    BY <2>2, <2>3
<1>2. \A T \in SUBSET Events(rs) : T \in F
  <2> HIDE DEF F
  <2>1. QED
    BY <1>1, EventsFinite, SubsetInduction
<1>3. HasLast(E)
  BY <1>2
<1>4. QED
  BY <1>3 DEF HasLast, LastEvent

\* The states of the sweep, and the one it starts in.
SweepStates == [open : Rank \cup {None}, added : BOOLEAN, ids : SUBSET Rank]
AtFirst == [open |-> None, added |-> FALSE, ids |-> {}]

\* A history of the sweep: its state after each set of events.
IsSweep(rs, g) ==
  /\ \A E \in SUBSET Events(rs) : g[E] \in SweepStates
  /\ g[{}] = AtFirst
  /\ \A E \in SUBSET Events(rs) :
       E # {} => g[E] = SweepStep(rs, LastEvent(E), g[E \ {LastEvent(E)}])

\* A step of the sweep leads to a state of it.
LEMMA SweepStepType ==
  ASSUME NEW rs, NEW e \in Events(rs), NEW s \in SweepStates
  PROVE  SweepStep(rs, e, s) \in SweepStates
<1>1. e.rangeId \in Rank
  BY EventsAre DEF NonEmpty
<1>2. s.open \in Rank \cup {None} /\ s.added \in BOOLEAN /\ s.ids \in SUBSET Rank
  BY DEF SweepStates
<1>3. \A o \in Rank \cup {None} : [s EXCEPT !.open = o, !.added = FALSE] \in SweepStates
  BY DEF SweepStates
<1>4. CASE e.isRangeStart /\ s.open = None
  BY <1>1, <1>3, <1>4 DEF SweepStep
<1>5. CASE e.isRangeStart /\ s.open # None
  <2> DEFINE longer == rs[e.rangeId].second > rs[s.open].second
             o == IF longer THEN e.rangeId ELSE s.open
             i == s.ids \cup {e.rangeId} \cup IF s.added THEN {} ELSE {s.open}
  <2>1. o \in Rank \cup {None} /\ i \in SUBSET Rank
    BY <1>1, <1>2, <1>5
  <2>2. SweepStep(rs, e, s) = [open |-> o, added |-> TRUE, ids |-> i]
    BY <1>5 DEF SweepStep
  <2> HIDE DEF o, i
  <2>3. QED
    BY <2>1, <2>2 DEF SweepStates
<1>6. CASE ~e.isRangeStart /\ e.rangeId = s.open
  BY <1>3, <1>6 DEF SweepStep
<1>7. CASE ~e.isRangeStart /\ e.rangeId # s.open
  BY <1>7 DEF SweepStep
<1>8. e.isRangeStart \in BOOLEAN
  <2>1. PICK k \in NonEmpty(rs) : e = start(rs, k) \/ e = end(rs, k)
    BY EventsAre
  <2>2. start(rs, k).isRangeStart = TRUE /\ end(rs, k).isRangeStart = FALSE
    BY EventFields
  <2>3. QED
    BY <2>1, <2>2, Zenon
<1>9. QED
  BY <1>4, <1>5, <1>6, <1>7, <1>8

\* getOverlappingRangeIds is what a sweep has after all events.
LEMMA SweepIs ==
  ASSUME NEW rs, RangesOK(rs)
  PROVE  \E g : IsSweep(rs, g) /\ getOverlappingRangeIds(rs) = g[Events(rs)].ids
<1> DEFINE c == [E \in SUBSET Events(rs) |-> LastEvent(E)]
           h == [e \in Events(rs) |-> [s \in SweepStates |-> SweepStep(rs, e, s)]]
           sweep(f) == f = [E \in SUBSET Events(rs) |->
                              IF E = {} THEN [open |-> None, added |-> FALSE, ids |-> {}]
                              ELSE LET x == LastEvent(E)
                                   IN  SweepStep(rs, x, f[E \ {x}])]
           f == CHOOSE x : sweep(x)
<1>1. FoldData(Events(rs), SweepStates, AtFirst, h, c)
  <2>1. h \in [Events(rs) -> [SweepStates -> SweepStates]]
    BY SweepStepType
  <2>2. \A E \in SUBSET Events(rs) : E # {} => c[E] \in E
    BY LastOfEvents
  <2>3. AtFirst \in SweepStates
    BY DEF AtFirst, SweepStates
  <2> HIDE DEF h, c, sweep, f
  <2>4. QED
    BY <2>1, <2>2, <2>3, EventsFinite DEF FoldData
<1>2. PICK g : g \in FoldsOf(Events(rs), SweepStates, AtFirst, h, c)
  <2> HIDE DEF h, c
  <2>1. QED
    BY <1>1, FoldsExist
<1>3. /\ g = [E \in SUBSET Events(rs) |-> g[E]]
      /\ \A E \in SUBSET Events(rs) : g[E] \in SweepStates
  <2> HIDE DEF h, c
  <2>1. QED
    BY <1>2 DEF FoldsOf
<1>4. \A E \in SUBSET Events(rs) :
        g[E] = IF E = {} THEN AtFirst ELSE SweepStep(rs, LastEvent(E), g[E \ {LastEvent(E)}])
  <2> SUFFICES ASSUME NEW E \in SUBSET Events(rs)
               PROVE  g[E] = IF E = {} THEN AtFirst
                             ELSE SweepStep(rs, LastEvent(E), g[E \ {LastEvent(E)}])
    OBVIOUS
  <2>1. g[E] = IF E = {} THEN AtFirst ELSE h[c[E]][g[E \ {c[E]}]]
    <3> HIDE DEF h, c
    <3>1. QED
      BY <1>2 DEF FoldsOf
  <2>2. c[E] = LastEvent(E) /\ (E # {} => LastEvent(E) \in Events(rs))
    BY LastOfEvents
  <2>3. g[E \ {LastEvent(E)}] \in SweepStates
    BY <1>3
  <2> HIDE DEF c
  <2>4. QED
    BY <2>1, <2>2, <2>3
<1>5. sweep(g)
  BY <1>3, <1>4 DEF AtFirst
<1>6. sweep(f)
  BY <1>5
<1>7. AsFolded(f, Events(rs), SweepStates, AtFirst, h, c)
  <2> SUFFICES ASSUME NEW E \in SUBSET Events(rs)
               PROVE  /\ E = {} => f[E] = AtFirst
                      /\ E # {} /\ f[E \ {c[E]}] \in SweepStates =>
                           f[E] = h[c[E]][f[E \ {c[E]}]]
    <3> HIDE DEF f, h, c
    <3>1. QED
      BY DEF AsFolded
  <2>1. f[E] = IF E = {} THEN AtFirst ELSE SweepStep(rs, LastEvent(E), f[E \ {LastEvent(E)}])
    <3> HIDE DEF f
    <3>1. QED
      BY <1>6 DEF AtFirst
  <2>2. c[E] = LastEvent(E) /\ (E # {} => LastEvent(E) \in Events(rs))
    BY LastOfEvents
  <2> HIDE DEF f, c
  <2>3. QED
    BY <2>1, <2>2
<1>8. \A E \in SUBSET Events(rs) : f[E] = g[E]
  <2> HIDE DEF f, h, c
  <2>1. QED
    BY <1>1, <1>2, <1>7, FoldIs
<1>9. getOverlappingRangeIds(rs) = f[Events(rs)].ids
  BY DEF getOverlappingRangeIds, MapThenFoldSet
<1>10. IsSweep(rs, g)
  BY <1>3, <1>4 DEF IsSweep
<1>11. QED
  <2> HIDE DEF f
  <2>1. QED
    BY <1>8, <1>9, <1>10

\* All events before one of E are in E.
Initial(rs, E) ==
  \A x \in E, y \in Events(rs) : compareRangeMetaData(y, x) => y \in E

\* As long as nothing is reported, the ranges that have started are disjoint, and all of
\* them but the open one have ended; if the ranges are disjoint, nothing is reported.
SweepInv(rs, E, s) ==
  /\ s.ids = {} =>
       /\ \A j, k \in NonEmpty(rs) :
            j # k /\ start(rs, j) \in E /\ start(rs, k) \in E =>
              Indices(rs[j]) \cap Indices(rs[k]) = {}
       /\ \A k \in NonEmpty(rs) : start(rs, k) \in E /\ k # s.open => end(rs, k) \in E
       /\ s.open # None => /\ s.open \in NonEmpty(rs)
                           /\ start(rs, s.open) \in E /\ end(rs, s.open) \notin E
  /\ Disjoint(rs) => s.ids = {}

\* The start of a range comes before its end.
LEMMA StartBeforeEnd ==
  ASSUME NEW rs, RangesOK(rs), NEW k \in NonEmpty(rs)
  PROVE  compareRangeMetaData(start(rs, k), end(rs, k)) /\ start(rs, k) # end(rs, k)
BY NonEmptyRange, EventFields DEF compareRangeMetaData

\* The start of a range keeps the invariant of the sweep.
LEMMA StartKeeps ==
  ASSUME NEW rs, RangesOK(rs), NEW E \in SUBSET Events(rs), Initial(rs, E),
         NEW k \in NonEmpty(rs), start(rs, k) \in E, LastEvent(E) = start(rs, k),
         NEW s \in SweepStates, SweepInv(rs, E \ {start(rs, k)}, s)
  PROVE  SweepInv(rs, E, SweepStep(rs, start(rs, k), s))
<1> DEFINE e == start(rs, k)
           before == E \ {e}
           t == SweepStep(rs, e, s)
<1>1. /\ \A y \in before : compareRangeMetaData(y, e)
      /\ e \in Events(rs) /\ e.isRangeStart = TRUE /\ e.rangeId = k
  BY LastOfEvents, EventFields
<1>2. end(rs, k) \notin E /\ end(rs, k) # e /\ end(rs, k) \in Events(rs)
  <2>1. end(rs, k) \in Events(rs) /\ compareRangeMetaData(e, end(rs, k)) /\ e # end(rs, k)
    BY EventsAre, StartBeforeEnd
  <2>2. QED
    BY <1>1, <2>1, EventOrder
<1>3. \A j \in NonEmpty(rs) : j # k => start(rs, j) # e
  BY EventFields
<1>4. \A j \in NonEmpty(rs) : end(rs, j) # e
  BY EventFields
<1>5. CASE s.open = None
  <2>1. t.open = k /\ t.ids = s.ids
    BY <1>1, <1>5 DEF SweepStep, SweepStates
  <2>2. Disjoint(rs) => t.ids = {}
    BY <2>1 DEF SweepInv
  <2>3. ASSUME t.ids = {}, NEW j \in NonEmpty(rs), j # k, start(rs, j) \in E
        PROVE  end(rs, j) \in E /\ Indices(rs[j]) \cap Indices(rs[k]) = {}
    <3>1. j # s.open /\ start(rs, j) \in before
      BY <1>3, <1>5, <2>3, NonEmptyRange, RankFinite DEF None
    <3>2. end(rs, j) \in before
      BY <2>1, <2>3, <3>1 DEF SweepInv
    <3>3. compareRangeMetaData(end(rs, j), e)
      BY <1>1, <3>2
    <3>4. rs[j].second <= rs[k].first
      BY <3>3, EventFields, NonEmptyRange DEF compareRangeMetaData
    <3>5. QED
      BY <3>2, <3>4, NonEmptyRange DEF Indices
  <2>4. ASSUME t.ids = {}, NEW i \in NonEmpty(rs), NEW j \in NonEmpty(rs),
               i # j, start(rs, i) \in E, start(rs, j) \in E
        PROVE  Indices(rs[i]) \cap Indices(rs[j]) = {}
    <3>1. CASE i = k \/ j = k
      BY <2>3, <2>4, <3>1
    <3>2. CASE i # k /\ j # k
      BY <1>3, <2>1, <2>4, <3>2 DEF SweepInv
    <3>3. QED
      BY <3>1, <3>2
  <2>5. QED
    BY <1>2, <2>1, <2>2, <2>3, <2>4 DEF SweepInv
<1>6. CASE s.open # None
  <2>1. k \in t.ids
    BY <1>1, <1>6 DEF SweepStep
  <2>2. ASSUME Disjoint(rs)
        PROVE  FALSE
    <3> DEFINE j == s.open
    <3>1. /\ j \in NonEmpty(rs) /\ start(rs, j) \in before /\ end(rs, j) \notin before
      BY <1>6, <2>2 DEF SweepInv
    <3>2. j # k
      BY <3>1
    <3>3. end(rs, j) \notin E /\ end(rs, j) \in Events(rs)
      BY <1>4, <3>1, EventsAre
    <3>4. ~compareRangeMetaData(end(rs, j), e)
      BY <1>1, <3>3 DEF Initial
    <3>5. compareRangeMetaData(start(rs, j), e)
      BY <1>1, <3>1
    <3>6. /\ rs[j].first \in Int /\ rs[j].second \in Int
          /\ rs[k].first \in Int /\ rs[k].first \in Indices(rs[k])
          /\ j \in Rank /\ k \in Rank
      BY <3>1, NonEmptyRange
    <3>7. rs[j].first <= rs[k].first
      BY <3>5, <3>6, EventFields DEF compareRangeMetaData
    <3>8. rs[k].first < rs[j].second
      <4>1. /\ end(rs, j).Id = rs[j].second /\ end(rs, j).isRangeStart = FALSE
            /\ e.Id = rs[k].first /\ e.isRangeStart = TRUE
        BY EventFields
      <4>2. ~(rs[j].second < rs[k].first) /\ rs[j].second # rs[k].first
        BY <3>4, <4>1 DEF compareRangeMetaData
      <4>3. QED
        BY <3>6, <4>2
    <3>9. rs[k].first \in Indices(rs[j])
      BY <3>6, <3>7, <3>8 DEF Indices
    <3>10. QED
      BY <2>2, <3>2, <3>6, <3>9 DEF Disjoint
  <2>3. QED
    BY <2>1, <2>2 DEF SweepInv
<1>7. QED
  BY <1>5, <1>6

\* The end of a range keeps the invariant of the sweep.
LEMMA EndKeeps ==
  ASSUME NEW rs, RangesOK(rs), NEW E \in SUBSET Events(rs), Initial(rs, E),
         NEW k \in NonEmpty(rs), end(rs, k) \in E, LastEvent(E) = end(rs, k),
         NEW s \in SweepStates, SweepInv(rs, E \ {end(rs, k)}, s)
  PROVE  SweepInv(rs, E, SweepStep(rs, end(rs, k), s))
<1> DEFINE e == end(rs, k)
           before == E \ {e}
           t == SweepStep(rs, e, s)
<1>1. e.isRangeStart = FALSE /\ e.rangeId = k
  BY EventFields
<1>2. \A j \in NonEmpty(rs) : start(rs, j) # e /\ (end(rs, j) = e => j = k)
  BY EventFields
<1>3. k \in Rank /\ k # None
  BY NonEmptyRange, RankFinite DEF None
<1>4. CASE s.open = k
  <2>1. t.open = None /\ t.ids = s.ids
    BY <1>1, <1>4 DEF SweepStep, SweepStates
  <2>2. Disjoint(rs) => t.ids = {}
    BY <2>1 DEF SweepInv
  <2>3. ASSUME t.ids = {}, NEW j \in NonEmpty(rs), start(rs, j) \in E
        PROVE  end(rs, j) \in E
    BY <1>2, <1>4, <2>1, <2>3 DEF SweepInv
  <2>4. ASSUME t.ids = {}, NEW i \in NonEmpty(rs), NEW j \in NonEmpty(rs),
               i # j, start(rs, i) \in E, start(rs, j) \in E
        PROVE  Indices(rs[i]) \cap Indices(rs[j]) = {}
    BY <1>2, <2>1, <2>4 DEF SweepInv
  <2>5. QED
    BY <2>1, <2>2, <2>3, <2>4 DEF SweepInv
<1>5. CASE s.open # k
  <2>1. t = s
    BY <1>1, <1>5 DEF SweepStep
  <2>2. start(rs, k) \in before
    <3>1. compareRangeMetaData(start(rs, k), e) /\ start(rs, k) \in Events(rs)
      BY StartBeforeEnd, EventsAre
    <3>2. QED
      BY <1>2, <3>1 DEF Initial
  <2>3. s.ids # {}
    BY <1>5, <2>2 DEF SweepInv
  <2>4. QED
    BY <2>1, <2>3 DEF SweepInv
<1>6. QED
  BY <1>4, <1>5

\* Without its last event, an initial set of events is one.
LEMMA InitialBefore ==
  ASSUME NEW rs, RangesOK(rs), NEW E \in SUBSET Events(rs), E # {}, Initial(rs, E)
  PROVE  Initial(rs, E \ {LastEvent(E)})
<1> SUFFICES ASSUME NEW x \in E \ {LastEvent(E)}, NEW y \in Events(rs),
                    compareRangeMetaData(y, x)
             PROVE  y \in E /\ y # LastEvent(E)
  BY DEF Initial
<1>1. y \in E
  BY DEF Initial
<1>2. compareRangeMetaData(x, LastEvent(E)) /\ x \in Events(rs)
  BY LastOfEvents
<1>3. QED
  BY <1>1, <1>2, EventOrder

\* The sweep reports a range exactly if two ranges share an index.
THEOREM SweepFindsOverlap ==
  ASSUME NEW rs, RangesOK(rs)
  PROVE  getOverlappingRangeIds(rs) = {} <=> Disjoint(rs)
<1>1. PICK g : IsSweep(rs, g) /\ getOverlappingRangeIds(rs) = g[Events(rs)].ids
  BY SweepIs
<1> DEFINE F == {E \in SUBSET Events(rs) : Initial(rs, E) => SweepInv(rs, E, g[E])}
<1>2. ASSUME NEW E \in SUBSET Events(rs), \A U \in SUBSET E : U # E => U \in F
      PROVE  E \in F
  <2> SUFFICES ASSUME Initial(rs, E) PROVE SweepInv(rs, E, g[E])
    OBVIOUS
  <2>1. CASE E = {}
    <3>1. g[E].ids = {} /\ g[E].open = None
      BY <1>1, <2>1 DEF IsSweep, AtFirst
    <3>2. QED
      BY <2>1, <3>1 DEF SweepInv
  <2>2. CASE E # {}
    <3> DEFINE e == LastEvent(E)
               before == E \ {e}
    <3>1. e \in E /\ before \in SUBSET E /\ before # E
      BY <2>2, LastOfEvents
    <3>2. SweepInv(rs, before, g[before])
      BY <1>2, <2>2, <3>1, InitialBefore
    <3>3. g[before] \in SweepStates /\ g[E] = SweepStep(rs, e, g[before])
      BY <1>1, <2>2 DEF IsSweep
    <3>4. PICK k \in NonEmpty(rs) : e = start(rs, k) \/ e = end(rs, k)
      BY <3>1, EventsAre
    <3>5. CASE e = start(rs, k)
      BY <3>1, <3>2, <3>3, <3>5, StartKeeps
    <3>6. CASE e = end(rs, k)
      BY <3>1, <3>2, <3>3, <3>6, EndKeeps
    <3>7. QED
      BY <3>4, <3>5, <3>6
  <2>3. QED
    BY <2>1, <2>2
<1>3. \A E \in SUBSET Events(rs) : E \in F
  <2> HIDE DEF F
  <2>1. QED
    BY <1>2, EventsFinite, SubsetInduction
<1>4. SweepInv(rs, Events(rs), g[Events(rs)])
  BY <1>3 DEF Initial
<1>5. ASSUME g[Events(rs)].ids = {}
      PROVE  Disjoint(rs)
  <2> SUFFICES ASSUME NEW j \in Rank, NEW k \in Rank, j # k
               PROVE  Indices(rs[j]) \cap Indices(rs[k]) = {}
    BY DEF Disjoint
  <2>1. CASE j \in NonEmpty(rs) /\ k \in NonEmpty(rs)
    BY <1>4, <1>5, <2>1, EventsAre DEF SweepInv
  <2>2. \A i \in Rank : i \notin NonEmpty(rs) => Indices(rs[i]) = {}
    BY DEF NonEmpty, IsEmpty, Indices, RangesOK
  <2>3. QED
    BY <2>1, <2>2
<1>6. QED
  BY <1>1, <1>4, <1>5 DEF SweepInv

=============================================================================
