-------------------- MODULE BandParallelization_proof --------------------
(***************************************************************************)
(* For all numbers of ranks, pools, band groups, k-points and bands, and   *)
(* all block sizes: no block of bands reaches past the last one, and every *)
(* wave function is filtered by exactly one band group.  First come facts  *)
(* about multiples, the ranges of the band groups and the grid of ranks:   *)
(* the ranks of one place are one of each band group.  Then the blocks: on *)
(* hosts a block may cross the border of a group and belongs to the group  *)
(* of its end, on devices the checks make every block end within a group.  *)
(* Then the inductive invariant IInv, action by action.                    *)
(*                                                                         *)
(* The second part is about the density: the shares of the k-points as     *)
(* sums over the pools, the ranks of one place in all pools, and RhoInv,   *)
(* which says what each of the two sums leaves.                            *)
(***************************************************************************)
EXTENDS BandParallelization, FiniteSetTheorems, WellFoundedInduction, TLAPS

\* Arithmetic of quotients and multiples.
LEMMA DivBounds ==
  \A x \in Int, c \in Nat \ {0} :
    /\ x \div c \in Int /\ (x \div c) * c <= x /\ x < (x \div c) * c + c
    /\ x % c = x - (x \div c) * c
OBVIOUS

LEMMA DivIs ==
  \A x \in Int, k \in Int, c \in Nat \ {0} : k * c <= x /\ x < k * c + c => x \div c = k
OBVIOUS

LEMMA MulMono == \A a \in Int, b \in Int, c \in Nat : a <= b => a * c <= b * c
OBVIOUS

LEMMA MulStep ==
  ASSUME NEW a \in Int, NEW b \in Int, NEW c \in Nat, a < b
  PROVE  a * c + c <= b * c
<1>1. (a + 1) * c <= b * c
  <2>1. a + 1 \in Int /\ a + 1 <= b
    OBVIOUS
  <2>2. QED
    BY <2>1, MulMono
<1>2. (a + 1) * c = a * c + c
  OBVIOUS
<1>3. QED
  BY <1>1, <1>2

LEMMA MulMod == \A k \in Int, c \in Nat \ {0} : (k * c) % c = 0 /\ (k * c) \div c = k
OBVIOUS

LEMMA ModMul == \A x \in Int, c \in Nat \ {0} : x % c = 0 => (x \div c) * c = x
OBVIOUS

LEMMA MulPos == \A a \in Nat \ {0}, b \in Nat \ {0} : a * b \in Nat \ {0}
OBVIOUS

\* Multiples of v differ by v at least, and their sums are multiples.
LEMMA Multiples ==
  ASSUME NEW v \in Nat \ {0}, NEW x \in Int, NEW y \in Int, x % v = 0, y % v = 0
  PROVE  /\ (x + y) % v = 0 /\ (x + v) % v = 0
         /\ x < y => x + v <= y
<1> DEFINE a == x \div v
           b == y \div v
<1>1. a \in Int /\ b \in Int /\ a * v = x /\ b * v = y
  BY ModMul
<1>2. (a + b) * v = x + y /\ (a + 1) * v = x + v
  BY <1>1
<1>3. (x + y) % v = 0 /\ (x + v) % v = 0
  <2>1. ((a + b) * v) % v = 0 /\ ((a + 1) * v) % v = 0
    BY <1>1, MulMod
  <2>2. QED
    BY <2>1, <1>2
<1>4. ASSUME x < y PROVE x + v <= y
  <2>1. a < b
    <3> SUFFICES ASSUME b <= a PROVE FALSE
      BY <1>1
    <3>1. b * v <= a * v
      BY <1>1, MulMono
    <3>2. QED
      BY <3>1, <1>1, <1>4
  <2>2. (a + 1) * v <= b * v
    BY <2>1, <1>1, MulMono
  <2>3. QED
    BY <2>2, <1>1, <1>2
<1>5. QED
  BY <1>3, <1>4

LEMMA MultipleSum ==
  \A v \in Nat \ {0}, x \in Int, y \in Int : x % v = 0 /\ y % v = 0 => (x + y) % v = 0
BY Multiples

LEMMA MultipleNext == \A v \in Nat \ {0}, x \in Int : x % v = 0 => (x + v) % v = 0
BY Multiples

LEMMA MultipleGap ==
  \A v \in Nat \ {0}, x \in Int, y \in Int : x % v = 0 /\ y % v = 0 /\ x < y => x + v <= y
BY Multiples

\* Multiples of multiples.
LEMMA MultipleOfMultiple ==
  ASSUME NEW v \in Nat \ {0}, NEW x \in Int, x % v = 0, NEW k \in Int
  PROVE  (k * x) % v = 0
<1> DEFINE a == x \div v
<1>1. a \in Int /\ a * v = x
  BY ModMul
<1>2. k * x = (k * a) * v
  BY <1>1
<1>3. k * a \in Int
  BY <1>1
<1>4. ((k * a) * v) % v = 0
  BY <1>3, MulMod
<1>5. QED
  BY <1>2, <1>4

-----------------------------------------------------------------------------
\* Every end from 1 to n lies in one band group and no other: no block of bands
\* is lost between two groups, or filtered by both, whatever remainder the
\* division of the bands leaves (createBandParallelizationIndices).
THEOREM EveryEndInOneGroup ==
  ASSUME NEW n \in Nat, NEW groups \in Nat \ {0}, n \div groups # 0, NEW end \in 1 .. n
  PROVE  \E i \in 0 .. groups - 1 : \A k \in 0 .. groups - 1 :
           EndsInGroup(n, groups, k, end) <=> k = i
<1> DEFINE s == n \div groups
           g == (end - 1) \div s
<1>1. s \in Nat \ {0} /\ s = n \div groups
  OBVIOUS
<1> HIDE DEF s
<1>2. g \in Int /\ 0 <= g /\ g * s <= end - 1 /\ end - 1 < g * s + s
  <2>1. g \in Int /\ g * s <= end - 1 /\ end - 1 < g * s + s
    <3>1. end - 1 \in Int
      OBVIOUS
    <3>2. QED
      BY <1>1, <3>1, DivBounds
  <2>2. 0 <= g
    <3> SUFFICES ASSUME g + 1 <= 0 PROVE FALSE
      BY <2>1
    <3>1. g * s + s <= 0 * s
      BY <1>1, <2>1, MulStep
    <3>2. QED
      BY <3>1, <2>1, <1>1
  <2>3. QED
    BY <2>1, <2>2
<1>3. \A k \in 0 .. groups - 1 : k * s \in Int /\ (k + 1) * s = k * s + s
  BY <1>1
<1> HIDE DEF g
<1>4. \A k \in 0 .. groups - 1 : EndsInGroup(n, groups, k, end) <=>
        /\ k * s < end
        /\ k < groups - 1 => end <= k * s + s
  BY <1>1, <1>3 DEF EndsInGroup, bandGroupLow, bandGroupHigh
<1>5. CASE g >= groups - 1
  <2> DEFINE l == groups - 1
  <2>1. l \in 0 .. groups - 1 /\ l <= g
    BY <1>5, <1>2
  <2>2. \A k \in 0 .. groups - 1 : k < groups - 1 => k + 1 <= l
    OBVIOUS
  <2> HIDE DEF l
  <2>3. l * s \in Int /\ g * s \in Int
    BY <2>1, <1>1, <1>2
  <2>4. l * s < end
    BY <2>1, <2>3, <1>1, <1>2, MulMono
  <2>5. ASSUME NEW k \in 0 .. groups - 1, k < groups - 1 PROVE k * s + s < end
    <3>1. k \in Int /\ k < l
      BY <2>2, <2>5, <2>1
    <3>2. k * s + s <= l * s
      BY <3>1, <2>1, <1>1, MulStep
    <3>3. k * s \in Int
      BY <3>1, <1>1
    <3>4. QED
      BY <3>2, <3>3, <2>4, <2>3, <1>1
  <2>6. l = groups - 1
    BY DEF l
  <2>7. \A k \in 0 .. groups - 1 : EndsInGroup(n, groups, k, end) <=> k = l
    BY <2>1, <2>4, <2>5, <2>6, <1>3, <1>4
  <2>8. QED
    BY <2>1, <2>7
<1>6. CASE g < groups - 1
  <2>1. g \in 0 .. groups - 1
    BY <1>2, <1>6
  <2>2. ASSUME NEW k \in 0 .. groups - 1 PROVE EndsInGroup(n, groups, k, end) <=> k = g
    <3>1. k < g => k * s + s <= g * s
      BY <1>2, <1>1, MulStep
    <3>2. g < k => g * s + s <= k * s
      BY <1>2, <1>1, MulStep
    <3>3. QED
      BY <3>1, <3>2, <1>2, <1>3, <1>4, <1>6, <1>1
  <2>3. QED
    BY <2>1, <2>2
<1>7. QED
  BY <1>5, <1>6, <1>2

-----------------------------------------------------------------------------
\* The place of a rank in a communicator that is an interval of ranks.
LEMMA RankInInterval ==
  ASSUME NEW a \in Int, NEW b \in Int, NEW q \in a .. b
  PROVE  RankIn(a .. b, q) = q - a
<1>1. {r \in a .. b : r < q} = a .. q - 1
  OBVIOUS
<1>2. Cardinality(a .. q - 1) = q - a
  <2>1. q - 1 \in Int /\ q \in Int /\ a <= q
    OBVIOUS
  <2>2. Cardinality(a .. q - 1) = IF a > q - 1 THEN 0 ELSE (q - 1) - a + 1
    BY <2>1, FS_Interval
  <2>3. QED
    BY <2>1, <2>2
<1>3. QED
  BY <1>1, <1>2 DEF RankIn

\* The division of the ranks, once both pools are split.
Divides ==
  /\ params.procs % params.npool = 0
  /\ (params.procs \div params.npool) % params.nbandGrps = 0

kPointRanks == params.procs \div params.npool
DomainRanks == kPointRanks \div params.nbandGrps
FirstOf(p) == (p \div kPointRanks) * kPointRanks
PlaceIn(p) == (p - FirstOf(p)) % DomainRanks

LEMMA Grid ==
  ASSUME params \in ParametersType, Divides
  PROVE  /\ params.procs \in Nat \ {0} /\ params.npool \in Nat \ {0} /\ params.nbandGrps \in Nat \ {0}
         /\ kPointRanks \in Nat \ {0} /\ params.npool * kPointRanks = params.procs
         /\ DomainRanks \in Nat \ {0} /\ params.nbandGrps * DomainRanks = kPointRanks
<1>1. params.procs \in Nat \ {0} /\ params.npool \in Nat \ {0} /\ params.nbandGrps \in Nat \ {0}
  BY DEF ParametersType
<1>2. \A a \in Nat \ {0}, b \in Nat \ {0} :
        a % b = 0 => a \div b \in Nat \ {0} /\ b * (a \div b) = a
  OBVIOUS
<1>3. kPointRanks \in Nat \ {0} /\ params.npool * kPointRanks = params.procs
  BY <1>1, <1>2 DEF Divides, kPointRanks
<1>4. DomainRanks \in Nat \ {0} /\ params.nbandGrps * DomainRanks = kPointRanks
  BY <1>1, <1>2, <1>3 DEF Divides, DomainRanks, kPointRanks
<1>5. QED
  BY <1>1, <1>3, <1>4

\* A rank of a pool of k-points has the place after its first rank.
LEMMA KPointPoolIs ==
  ASSUME params \in ParametersType, Divides, NEW p \in Proc
  PROVE  /\ FirstOf(p) \in Nat
         /\ FirstOf(p) <= p /\ p < FirstOf(p) + kPointRanks
         /\ FirstOf(p) + kPointRanks <= params.procs
         /\ kPointPool(p) = FirstOf(p) .. FirstOf(p) + kPointRanks - 1
         /\ poolSize(kPointPool(p), params.nbandGrps) = DomainRanks
<1> DEFINE S == kPointRanks
           k == p \div S
<1>1. S \in Nat \ {0} /\ params.procs \in Nat \ {0} /\ params.npool \in Nat \ {0}
  BY Grid
<1>2. p \in Nat /\ p < params.procs
  BY <1>1 DEF Proc
<1> HIDE DEF S
<1>3. k \in Nat /\ k * S \in Nat /\ k * S <= p /\ p < k * S + S
  <2>1. k \in Int /\ k * S <= p /\ p < k * S + S
    BY <1>1, <1>2, DivBounds
  <2>2. k \in Nat
    <3> SUFFICES ASSUME k < 0 PROVE FALSE
      BY <2>1
    <3>1. k * S + S <= 0 * S
      BY <1>1, <2>1, MulStep
    <3>2. QED
      BY <3>1, <2>1, <1>1, <1>2
  <2>3. QED
    BY <2>1, <2>2, <1>1
<1>4. FirstOf(p) = k * S
  BY DEF FirstOf, S
<1> HIDE DEF k
<1>5. k * S + S <= params.procs
  <2>1. params.npool * S = params.procs
    BY Grid DEF S
  <2>2. k < params.npool
    <3> SUFFICES ASSUME params.npool <= k PROVE FALSE
      BY <1>1, <1>3
    <3>1. params.npool * S <= k * S
      BY <1>1, <1>3, MulMono
    <3>2. QED
      BY <3>1, <2>1, <1>1, <1>2, <1>3
  <2>3. k * S + S <= params.npool * S
    BY <2>2, <1>1, <1>3, MulStep
  <2>4. QED
    BY <2>1, <2>3
<1>6. \A q \in Proc : q \in Nat /\ RankIn(Proc, q) = q
  <2> SUFFICES ASSUME NEW q \in Proc PROVE q \in Nat /\ RankIn(Proc, q) = q
    OBVIOUS
  <2>1. q \in 0 .. params.procs - 1 /\ params.procs - 1 \in Int /\ q \in Nat
    BY <1>1 DEF Proc
  <2>2. RankIn(0 .. params.procs - 1, q) = q - 0
    BY <2>1, RankInInterval
  <2>3. QED
    BY <2>1, <2>2 DEF Proc
<1>7. poolSize(Proc, params.npool) = S
  <2>1. Cardinality(0 .. params.procs - 1) = params.procs
    <3>1. params.procs - 1 \in Int /\ 0 <= params.procs - 1
      BY <1>1
    <3>2. Cardinality(0 .. params.procs - 1) = (params.procs - 1) - 0 + 1
      BY <3>1, FS_Interval
    <3>3. QED
      BY <3>2, <1>1
  <2>2. QED
    BY <2>1 DEF poolSize, Proc, S, kPointRanks
<1>8. kPointPool(p) = {q \in Proc : q \div S = k}
  BY <1>6, <1>7 DEF kPointPool, intrapool, k
<1>9. kPointPool(p) = k * S .. k * S + S - 1
  <2>1. ASSUME NEW q \in Proc, q \div S = k PROVE q \in k * S .. k * S + S - 1
    <3>1. (q \div S) * S <= q /\ q < (q \div S) * S + S
      <4>1. q \in Int
        BY <1>6
      <4>2. QED
        BY <4>1, <1>1, DivBounds
    <3>2. QED
      BY <3>1, <2>1, <1>1, <1>3, <1>6
  <2>2. ASSUME NEW q \in k * S .. k * S + S - 1 PROVE q \in Proc /\ q \div S = k
    <3>1. q \in Nat /\ k * S <= q /\ q < k * S + S
      BY <1>1, <1>3
    <3>2. q \div S = k
      BY <3>1, <1>1, <1>3, DivIs
    <3>3. QED
      BY <3>1, <3>2, <1>1, <1>3, <1>5 DEF Proc
  <2>3. QED
    BY <1>8, <2>1, <2>2
<1>10. Cardinality(kPointPool(p)) = S
  <2>1. k * S + S - 1 \in Int /\ k * S \in Int /\ k * S <= k * S + S - 1
    BY <1>1, <1>3
  <2>2. Cardinality(k * S .. k * S + S - 1) = (k * S + S - 1) - k * S + 1
    BY <2>1, FS_Interval
  <2>3. QED
    BY <2>2, <1>1, <1>3, <1>9
<1>11. QED
  BY <1>3, <1>4, <1>5, <1>9, <1>10 DEF poolSize, S, DomainRanks

\* The ranks of all band groups at p's place: one of each band group, in their order.
Member(p, i) == FirstOf(p) + PlaceIn(p) + i * DomainRanks

LEMMA MembersAre ==
  ASSUME params \in ParametersType, Divides, NEW p \in Proc
  PROVE  /\ \A i \in 0 .. params.nbandGrps - 1 :
              /\ Member(p, i) \in Proc
              /\ FirstOf(Member(p, i)) = FirstOf(p)
              /\ PlaceIn(Member(p, i)) = PlaceIn(p)
         /\ interBandGroupComm(p) = {Member(p, i) : i \in 0 .. params.nbandGrps - 1}
<1> DEFINE S == kPointRanks
           D == DomainRanks
           f == FirstOf(p)
           r == PlaceIn(p)
           G == params.nbandGrps
           c == p \div S
<1>1. /\ S \in Nat \ {0} /\ D \in Nat \ {0} /\ G \in Nat \ {0} /\ G * D = S
      /\ params.procs \in Nat
  BY Grid
<1>2. /\ f \in Nat /\ f <= p /\ p < f + S /\ f + S <= params.procs
      /\ kPointPool(p) = f .. f + S - 1
      /\ poolSize(kPointPool(p), G) = D
  BY KPointPoolIs
<1>3. p \in Nat /\ f = c * S /\ c \in Int
  BY <1>1, DivBounds DEF Proc, FirstOf
<1>4. r = (p - f) % D /\ r \in 0 .. D - 1
  BY <1>1, <1>2, <1>3 DEF PlaceIn
<1>5. \A i \in 0 .. G - 1 : Member(p, i) = f + r + i * D
  BY DEF Member
<1>6. Proc = 0 .. params.procs - 1
  BY DEF Proc
<1>7. \A q \in f .. f + S - 1 : q \in Proc /\ FirstOf(q) = f /\ PlaceIn(q) = (q - f) % D
  <2> SUFFICES ASSUME NEW q \in f .. f + S - 1
               PROVE  q \in Proc /\ FirstOf(q) = f /\ PlaceIn(q) = (q - f) % D
    OBVIOUS
  <2>1. q \in Int /\ f <= q /\ q < f + S
    BY <1>1, <1>2
  <2>2. q \in Proc
    BY <2>1, <1>1, <1>2, <1>6
  <2>3. q \div S = c
    BY <2>1, <1>1, <1>3, DivIs
  <2>4. FirstOf(q) = f
    BY <2>3, <1>3 DEF FirstOf
  <2>5. QED
    BY <2>2, <2>4 DEF PlaceIn
<1> HIDE DEF S, D, f, r, G, c
<1>8. ASSUME NEW i \in 0 .. G - 1
      PROVE  /\ f + r + i * D \in f .. f + S - 1
             /\ ((f + r + i * D) - f) % D = r
             /\ ((f + r + i * D) - f) \div D = i
  <2>1. i \in Nat /\ i * D \in Nat /\ i < G /\ G \in Int
    BY <1>1
  <2>2. i * D + D <= G * D
    BY <2>1, <1>1, MulStep
  <2>3. (f + r + i * D) - f = i * D + r
    BY <2>1, <1>1, <1>2, <1>4
  <2>4. (i * D + r) \div D = i
    BY <2>1, <1>1, <1>4, DivIs
  <2>5. (i * D + r) % D = r
    <3>1. i * D + r \in Int
      BY <2>1, <1>4
    <3>2. (i * D + r) % D = (i * D + r) - i * D
      BY <3>1, <2>4, <1>1, DivBounds
    <3>3. QED
      BY <3>2, <2>1, <1>4
  <2>6. f + r + i * D \in f .. f + S - 1
    BY <2>1, <2>2, <1>1, <1>2, <1>4
  <2>7. QED
    BY <2>3, <2>4, <2>5, <2>6
<1>9. interBandGroupComm(p) = {q \in f .. f + S - 1 : (q - f) % D = r}
  <2>1. \A q \in f .. f + S - 1 : RankIn(f .. f + S - 1, q) = q - f
    <3>1. f \in Int /\ f + S - 1 \in Int
      BY <1>1, <1>2
    <3>2. QED
      BY <3>1, RankInInterval
  <2>2. p \in f .. f + S - 1
    BY <1>1, <1>2, <1>3
  <2>3. interBandGroupComm(p) = {q \in f .. f + S - 1 :
          RankIn(f .. f + S - 1, q) % D = RankIn(f .. f + S - 1, p) % D}
    BY <1>2 DEF interBandGroupComm, interpool, G
  <2>4. QED
    BY <2>1, <2>2, <2>3, <1>4
<1>10. ASSUME NEW q \in f .. f + S - 1, (q - f) % D = r
       PROVE  \E i \in 0 .. G - 1 : q = f + r + i * D
  <2> DEFINE x == q - f
             i == x \div D
  <2>1. x \in Nat /\ x < S /\ x % D = r /\ q \in Int
    BY <1>10, <1>1, <1>2
  <2>2. q = f + x
    BY <1>2, <2>1
  <2> HIDE DEF x
  <2>3. i \in Int /\ x = i * D + r /\ i * D <= x /\ x < i * D + D
    <3>1. /\ i \in Int /\ i * D <= x /\ x < i * D + D
          /\ x % D = x - i * D
      BY <2>1, <1>1, DivBounds
    <3>2. i * D \in Int
      BY <3>1, <1>1
    <3>3. QED
      BY <3>1, <3>2, <2>1, <1>4
  <2> HIDE DEF i
  <2>4. i * D \in Int
    BY <2>3, <1>1
  <2>5. 0 <= i
    <3> SUFFICES ASSUME i < 0 PROVE FALSE
      BY <2>3
    <3>1. i * D + D <= 0 * D
      BY <2>3, <1>1, MulStep
    <3>2. QED
      BY <3>1, <2>1, <2>3, <2>4, <1>1
  <2>6. i < G
    <3> SUFFICES ASSUME G <= i PROVE FALSE
      BY <2>3, <1>1
    <3>1. G * D <= i * D
      BY <2>3, <1>1, MulMono
    <3>2. QED
      BY <3>1, <2>1, <2>3, <2>4, <1>1
  <2>7. i \in 0 .. G - 1
    BY <2>3, <2>5, <2>6, <1>1
  <2>8. q = f + r + i * D
    BY <2>3, <2>4, <2>2, <1>2, <1>4
  <2>9. QED
    BY <2>7, <2>8
<1>11. interBandGroupComm(p) = {Member(p, i) : i \in 0 .. G - 1}
  BY <1>5, <1>8, <1>9, <1>10
<1>12. \A i \in 0 .. G - 1 : /\ Member(p, i) \in Proc
                            /\ FirstOf(Member(p, i)) = f
                            /\ PlaceIn(Member(p, i)) = r
  BY <1>5, <1>7, <1>8
<1>13. QED
  BY <1>11, <1>12 DEF f, r, G

\* The ranks of one place are one of each band group, and each knows its own group.
LEMMA OneOfEachGroup ==
  ASSUME params \in ParametersType, Divides, NEW p \in Proc
  PROVE  /\ bandGroupTaskId(p) \in 0 .. params.nbandGrps - 1
         /\ interBandGroupComm(p) \subseteq Proc
         /\ \A i \in 0 .. params.nbandGrps - 1 :
              \E q \in interBandGroupComm(p) : \A k \in interBandGroupComm(p) :
                bandGroupTaskId(k) = i <=> k = q
         /\ \A i \in 0 .. params.nbandGrps - 1 : bandGroupTaskId(Member(p, i)) = i
         /\ \E i \in 0 .. params.nbandGrps - 1 : p = Member(p, i)
<1> DEFINE D == DomainRanks
           G == params.nbandGrps
           Groups == 0 .. G - 1
<1>1. D \in Nat \ {0} /\ G \in Nat \ {0} /\ p \in Nat
  BY Grid DEF Proc
<1>2. FirstOf(p) \in Nat /\ PlaceIn(p) \in 0 .. D - 1
  <2>1. FirstOf(p) \in Nat
    BY KPointPoolIs
  <2>2. QED
    BY <2>1, <1>1 DEF PlaceIn
<1> HIDE DEF D
<1>3. \A i \in Groups : Member(p, i) = FirstOf(p) + PlaceIn(p) + i * D
  BY DEF Member, D
<1>4. \A i \in Groups, k \in Groups : Member(p, k) < Member(p, i) <=> k < i
  <2> SUFFICES ASSUME NEW i \in Groups, NEW k \in Groups
               PROVE  Member(p, k) < Member(p, i) <=> k < i
    OBVIOUS
  <2>1. i * D \in Int /\ k * D \in Int
    BY <1>1
  <2>2. k < i => k * D + D <= i * D
    BY <1>1, MulStep
  <2>3. i <= k => i * D <= k * D
    BY <1>1, MulMono
  <2>4. QED
    BY <2>1, <2>2, <2>3, <1>1, <1>2, <1>3
<1>5. \A i \in Groups : Member(p, i) \in Int
  BY <1>1, <1>2, <1>3
<1>6. interBandGroupComm(p) = {Member(p, i) : i \in Groups}
  BY MembersAre
<1>7. \A i \in Groups : interBandGroupComm(Member(p, i)) = interBandGroupComm(p)
  <2> SUFFICES ASSUME NEW i \in Groups
               PROVE  interBandGroupComm(Member(p, i)) = interBandGroupComm(p)
    OBVIOUS
  <2>1. /\ Member(p, i) \in Proc
        /\ FirstOf(Member(p, i)) = FirstOf(p) /\ PlaceIn(Member(p, i)) = PlaceIn(p)
    BY MembersAre
  <2>2. interBandGroupComm(Member(p, i)) = {Member(Member(p, i), k) : k \in Groups}
    BY <2>1, MembersAre
  <2>3. \A k \in Groups : Member(Member(p, i), k) = Member(p, k)
    BY <2>1 DEF Member
  <2>4. QED
    BY <2>2, <2>3, <1>6
<1>8. \A i \in Groups : bandGroupTaskId(Member(p, i)) = i
  <2> SUFFICES ASSUME NEW i \in Groups PROVE bandGroupTaskId(Member(p, i)) = i
    OBVIOUS
  <2> DEFINE Below == {q \in interBandGroupComm(p) : q < Member(p, i)}
             f == [k \in 0 .. i - 1 |-> Member(p, k)]
  <2>1. bandGroupTaskId(Member(p, i)) = Cardinality(Below)
    BY <1>7 DEF bandGroupTaskId, RankIn
  <2>2. Below = {Member(p, k) : k \in 0 .. i - 1}
    BY <1>1, <1>4, <1>6
  <2>3. f \in Bijection(0 .. i - 1, Below)
    <3>1. f \in [0 .. i - 1 -> Below]
      BY <2>2
    <3>2. \A k \in 0 .. i - 1, l \in 0 .. i - 1 : f[k] = f[l] => k = l
      BY <1>1, <1>4, <1>5
    <3>3. \A q \in Below : \E k \in 0 .. i - 1 : f[k] = q
      BY <2>2
    <3>4. QED
      BY <3>1, <3>2, <3>3 DEF Bijection, Injection, Surjection, IsInjective
  <2>4. IsFiniteSet(0 .. i - 1) /\ Cardinality(0 .. i - 1) = i
    <3>1. i - 1 \in Int /\ i \in Nat
      BY <1>1
    <3>2. IsFiniteSet(0 .. i - 1) /\ Cardinality(0 .. i - 1) = IF 0 > i - 1 THEN 0 ELSE (i - 1) - 0 + 1
      BY <3>1, FS_Interval
    <3>3. QED
      BY <3>1, <3>2
  <2>5. Cardinality(Below) = Cardinality(0 .. i - 1)
    BY <2>3, <2>4, FS_Bijection DEF ExistsBijection
  <2>6. QED
    BY <2>1, <2>4, <2>5
<1>9. \E i \in Groups : p = Member(p, i)
  <2>1. p \in interBandGroupComm(p)
    <3>1. p \in kPointPool(p)
      BY KPointPoolIs, Grid, <1>1
    <3>2. QED
      BY <3>1 DEF interBandGroupComm, interpool
  <2>2. QED
    BY <2>1, <1>6
<1>10. bandGroupTaskId(p) \in Groups
  BY <1>8, <1>9
<1>11. interBandGroupComm(p) \subseteq Proc
  BY <1>6, MembersAre
<1>12. \A i \in Groups : \E q \in interBandGroupComm(p) : \A k \in interBandGroupComm(p) :
         bandGroupTaskId(k) = i <=> k = q
  BY <1>6, <1>8
<1>13. QED
  BY <1>8, <1>9, <1>10, <1>11, <1>12

-----------------------------------------------------------------------------
\* The end of a block that band b is in, or of another that the same group filters.
EndOf(b) ==
  IF params.useDevice THEN b + 1
  ELSE Minimum((b \div vectorsBlockSize + 1) * vectorsBlockSize, bands)

\* What the checks and the divisions leave for the block loop.
Sizes ==
  /\ params \in ParametersType /\ Divides /\ ChecksPass

LEMMA SizesType ==
  ASSUME Sizes
  PROVE  /\ bands \in Nat \ {0}
         /\ bands \div params.nbandGrps \in Nat \ {0}
         /\ groupSize \in Nat \ {0}
         /\ vectorsBlockSize \in Nat \ {0}
         /\ params.useDevice \in BOOLEAN /\ params.overlapComputeCommunCheby \in BOOLEAN
<1> DEFINE G == params.nbandGrps
           s == bands \div G
<1>1. /\ bands \in Nat \ {0} /\ G \in Nat \ {0} /\ params.chebyWfcBlockSize \in Nat \ {0}
      /\ params.useDevice \in BOOLEAN /\ params.overlapComputeCommunCheby \in BOOLEAN
  BY DEF Sizes, ParametersType, bands
<1>2. s # 0
  <2>1. CASE params.useDevice
    BY <2>1 DEF Sizes, ChecksPass, DeviceChecks
  <2>2. CASE ~ params.useDevice
    BY <2>2 DEF Sizes, ChecksPass
  <2>3. QED
    BY <2>1, <2>2
<1>3. s \in Nat \ {0}
  BY <1>1, <1>2
<1>4. groupSize \in Nat \ {0}
  <2>1. groupSize = IF 0 = G - 1 THEN bands ELSE (0 + 1) * s
    BY DEF groupSize, bandGroupHigh
  <2>2. QED
    BY <2>1, <1>1, <1>3
<1>5. vectorsBlockSize \in Nat \ {0}
  <2>1. \A a \in Nat \ {0}, b \in Nat \ {0} : Minimum(a, b) \in Nat \ {0}
    BY DEF Minimum
  <2>2. QED
    BY <2>1, <1>1, <1>4 DEF vectorsBlockSize
<1>6. QED
  BY <1>1, <1>3, <1>4, <1>5

\* On devices all groups have equally many bands, and these are whole blocks.
LEMMA DeviceSizes ==
  ASSUME Sizes, params.useDevice
  PROVE  LET s == bands \div params.nbandGrps
         IN  /\ params.nbandGrps * s = bands
             /\ s % vectorsBlockSize = 0
             /\ \A i \in 0 .. params.nbandGrps - 1 :
                  /\ bandGroupLow(bands, params.nbandGrps, i) = i * s
                  /\ bandGroupHigh(bands, params.nbandGrps, i) = i * s + s
<1> DEFINE G == params.nbandGrps
           s == bands \div G
           v == vectorsBlockSize
           c == params.chebyWfcBlockSize
<1>1. /\ bands \in Nat \ {0} /\ G \in Nat \ {0} /\ c \in Nat \ {0} /\ s \in Nat \ {0}
  BY SizesType DEF Sizes, ParametersType
<1>2. bands % G = 0 /\ groupSize % c = 0
  BY <1>1 DEF Sizes, ChecksPass, DeviceChecks
<1> HIDE DEF s, G
<1>3. G * s = bands
  <2>1. s * G = bands
    BY <1>1, <1>2, ModMul DEF s
  <2>2. QED
    BY <2>1, <1>1
<1>4. groupSize = s
  <2>1. groupSize = IF 0 = G - 1 THEN bands ELSE (0 + 1) * s
    BY DEF groupSize, bandGroupHigh, G, s
  <2>2. G = 1 => s = bands
    BY <1>1, <1>3
  <2>3. QED
    BY <2>1, <2>2, <1>1
<1>5. v = c
  <2>1. c <= s
    <3>1. s % c = 0 /\ 0 % c = 0 /\ 0 < s
      BY <1>1, <1>2, <1>4
    <3>2. 0 + c <= s
      BY <3>1, <1>1, MultipleGap
    <3>3. QED
      BY <3>2, <1>1
  <2>2. s <= bands
    <3>1. 1 * s <= G * s
      BY <1>1, MulMono
    <3>2. QED
      BY <3>1, <1>1, <1>3
  <2>3. QED
    BY <2>1, <2>2, <1>1 DEF vectorsBlockSize, Minimum
<1>6. ASSUME NEW i \in 0 .. G - 1
      PROVE  bandGroupLow(bands, G, i) = i * s /\ bandGroupHigh(bands, G, i) = i * s + s
  <2>1. (i + 1) * s = i * s + s
    BY <1>1
  <2>2. i = G - 1 => i * s + s = bands
    BY <2>1, <1>1, <1>3
  <2>3. QED
    BY <2>1, <2>2 DEF bandGroupLow, bandGroupHigh, s
<1>7. QED
  BY <1>2, <1>3, <1>4, <1>5, <1>6 DEF G, s

\* A block that begins at j is not empty, ends at the last band or at a multiple of
\* the block size, and holds only bands that one group filters.
BlockIsWhole(p, j) ==
  LET end == j + BVec(p, j)
  IN  /\ end \in Int /\ j < end /\ end <= bands
      /\ end % vectorsBlockSize = 0 \/ end = bands
      /\ \A b \in Band : j <= b /\ b < end => (InOwnGroup(p, EndOf(b)) <=> InOwnGroup(p, end))

LEMMA HostBlock ==
  ASSUME Sizes, ~ params.useDevice, NEW p \in Proc,
         NEW j \in Band, j % vectorsBlockSize = 0
  PROVE  BlockIsWhole(p, j)
<1> DEFINE v == vectorsBlockSize
           end == j + BVec(p, j)
           k == j \div v
<1>1. v \in Nat \ {0} /\ bands \in Nat \ {0} /\ j \in Nat /\ j < bands
  BY SizesType DEF Band
<1>2. end = IF v <= bands - j THEN j + v ELSE bands
  BY <1>1 DEF BVec, Minimum
<1>3. k \in Int /\ k * v = j
  BY <1>1, ModMul
<1>4. (j + v) % v = 0
  <2>1. j \in Int /\ v \in Nat \ {0} /\ j % v = 0
    BY <1>1
  <2>2. QED
    BY <2>1, MultipleNext
<1> HIDE DEF v, k, end
<1>5. ASSUME NEW b \in Band, j <= b, b < end PROVE EndOf(b) = end
  <2>1. b \in Int /\ k * v <= b /\ b < k * v + v
    BY <1>1, <1>2, <1>3, <1>5 DEF Band
  <2>2. b \div v = k
    BY <2>1, <1>1, <1>3, DivIs
  <2>3. (k + 1) * v = j + v
    BY <1>1, <1>3
  <2>4. EndOf(b) = Minimum(j + v, bands)
    BY <2>2, <2>3 DEF EndOf, v
  <2>5. QED
    BY <2>4, <1>1, <1>2 DEF Minimum
<1>6. end \in Int /\ j < end /\ end <= bands /\ (end % v = 0 \/ end = bands)
  BY <1>1, <1>2, <1>4
<1>7. QED
  BY <1>5, <1>6 DEF BlockIsWhole, end, v

LEMMA DeviceBlock ==
  ASSUME Sizes, params.useDevice, NEW p \in Proc,
         NEW j \in Band, j % vectorsBlockSize = 0
  PROVE  BlockIsWhole(p, j)
<1> DEFINE v == vectorsBlockSize
           G == params.nbandGrps
           s == bands \div G
           end == j + BVec(p, j)
           k == j \div s
           i == bandGroupTaskId(p)
<1>1. /\ v \in Nat \ {0} /\ bands \in Nat \ {0} /\ j \in Nat /\ j < bands /\ s \in Nat \ {0}
      /\ G \in Nat \ {0} /\ params.overlapComputeCommunCheby \in BOOLEAN
  BY SizesType DEF Band, Sizes, ParametersType
<1>2. /\ G * s = bands /\ s % v = 0
      /\ \A l \in 0 .. G - 1 : /\ bandGroupLow(bands, G, l) = l * s
                              /\ bandGroupHigh(bands, G, l) = l * s + s
  BY DeviceSizes
<1>3. i \in 0 .. G - 1
  BY OneOfEachGroup DEF Sizes
<1>4. j % v = 0
  OBVIOUS
<1>5. end = j + numSimultaneousBlocksCurrent(p, j) * v
  BY DEF BVec
<1>6. numSimultaneousBlocksCurrent(p, j) =
        LET n == bandGroupHigh(bands, G, i) - bandGroupLow(bands, G, i)
        IN  IF params.overlapComputeCommunCheby /\ j + 2 * v - (j \div n) * n <= n THEN 2 ELSE 1
  BY DEF numSimultaneousBlocksCurrent
<1>7. bandGroupHigh(bands, G, i) - bandGroupLow(bands, G, i) = s
  <2>1. i * s \in Int
    BY <1>1, <1>3
  <2>2. QED
    BY <2>1, <1>1, <1>2, <1>3
<1>8. \A e : InOwnGroup(p, e) <=> e <= i * s + s /\ e > i * s
  BY <1>2, <1>3 DEF InOwnGroup, EndsInGroup
<1>9. k \in Int /\ k * s <= j /\ j < k * s + s
  <2> HIDE DEF s
  <2>1. QED
    BY <1>1, DivBounds
<1>10. /\ numSimultaneousBlocksCurrent(p, j) \in {1, 2}
       /\ numSimultaneousBlocksCurrent(p, j) = 2 => j + 2 * v - k * s <= s
  BY <1>6, <1>7
<1>11. Band = 0 .. bands - 1
  BY DEF Band
<1> HIDE DEF v, G, s, k, i
<1>12. k * s \in Int /\ i * s \in Int
  BY <1>1, <1>3, <1>9
<1>13. (k * s + s) % v = 0 /\ j + v <= k * s + s /\ (j + v) % v = 0 /\ (j + 2 * v) % v = 0
  <2>1. /\ v \in Nat \ {0} /\ j \in Int /\ s \in Int /\ k \in Int /\ k * s \in Int
        /\ j % v = 0 /\ s % v = 0 /\ k * s + s \in Int /\ j < k * s + s
    BY <1>1, <1>2, <1>4, <1>9, <1>12
  <2>2. (k * s) % v = 0
    BY <2>1, MultipleOfMultiple
  <2>3. (k * s + s) % v = 0
    BY <2>2, <2>1, MultipleSum
  <2>4. j + v <= k * s + s
    BY <2>3, <2>1, MultipleGap
  <2>5. (j + v) % v = 0
    BY <2>1, MultipleNext
  <2>6. ((j + v) + v) % v = 0
    <3>1. j + v \in Int
      BY <1>1
    <3>2. QED
      BY <3>1, <2>5, <1>1, MultipleNext
  <2>7. (j + v) + v = j + 2 * v
    BY <1>1
  <2>8. QED
    BY <2>3, <2>4, <2>5, <2>6, <2>7
<1>14. end \in Int /\ j < end /\ end <= k * s + s /\ end % v = 0
  <2> HIDE DEF end
  <2>1. CASE numSimultaneousBlocksCurrent(p, j) = 1
    <3>1. end = j + v
      BY <2>1, <1>1, <1>5
    <3>2. QED
      BY <3>1, <1>1, <1>12, <1>13
  <2>2. CASE numSimultaneousBlocksCurrent(p, j) = 2
    <3>1. end = j + 2 * v
      BY <2>2, <1>1, <1>5
    <3>2. j + 2 * v <= k * s + s
      BY <2>2, <1>1, <1>10, <1>12
    <3>3. QED
      BY <3>1, <3>2, <1>1, <1>12, <1>13
  <2>3. QED
    BY <2>1, <2>2, <1>10
<1> HIDE DEF end
<1>15. k * s + s <= bands
  <2>1. k < G
    <3> SUFFICES ASSUME G <= k PROVE FALSE
      BY <1>1, <1>9
    <3>1. G * s <= k * s
      BY <1>1, <1>9, MulMono
    <3>2. QED
      BY <3>1, <1>1, <1>2, <1>9, <1>12
  <2>2. k * s + s <= G * s
    BY <2>1, <1>1, <1>9, MulStep
  <2>3. QED
    BY <2>2, <1>2
<1>16. ASSUME NEW b \in Band, j <= b, b < end
       PROVE  InOwnGroup(p, EndOf(b)) <=> InOwnGroup(p, end)
  <2>1. EndOf(b) = b + 1 /\ b \in Int
    BY <1>1, <1>11 DEF EndOf
  <2>2. i \in Int /\ (i < k => i * s + s <= k * s) /\ (k < i => k * s + s <= i * s)
    <3>1. i \in Int
      BY <1>1, <1>3
    <3>2. i < k => i * s + s <= k * s
      BY <3>1, <1>1, <1>9, MulStep
    <3>3. k < i => k * s + s <= i * s
      BY <3>1, <1>1, <1>9, MulStep
    <3>4. QED
      BY <3>1, <3>2, <3>3
  <2>3. CASE i = k
    BY <2>1, <2>3, <1>1, <1>8, <1>9, <1>12, <1>14, <1>16
  <2>4. CASE i < k
    BY <2>1, <2>2, <2>4, <1>1, <1>8, <1>9, <1>12, <1>14, <1>16
  <2>5. CASE k < i
    BY <2>1, <2>2, <2>5, <1>1, <1>8, <1>9, <1>12, <1>14, <1>16
  <2>6. QED
    BY <2>2, <2>3, <2>4, <2>5, <1>9
<1>17. end <= bands
  BY <1>1, <1>12, <1>14, <1>15
<1>18. QED
  BY <1>14, <1>16, <1>17 DEF BlockIsWhole, end, v

LEMMA CeilPos == \A a \in Nat \ {0}, b \in Nat \ {0} : Ceil(a, b) \in Nat \ {0}
<1> SUFFICES ASSUME NEW a \in Nat \ {0}, NEW b \in Nat \ {0} PROVE Ceil(a, b) \in Nat \ {0}
  OBVIOUS
<1> DEFINE x == a + b - 1
           k == x \div b
<1>1. x \in Int /\ b <= x
  OBVIOUS
<1>2. Ceil(a, b) = k
  BY DEF Ceil
<1> HIDE DEF x
<1>3. k \in Int /\ x < k * b + b
  BY <1>1, DivBounds
<1> HIDE DEF k
<1>4. 0 < k
  <2> SUFFICES ASSUME k <= 0 PROVE FALSE
    BY <1>3
  <2>1. k * b <= 0 * b
    BY <1>3, MulMono
  <2>2. k * b \in Int
    BY <1>3
  <2>3. QED
    BY <2>1, <2>2, <1>1, <1>3
<1>5. QED
  BY <1>2, <1>3, <1>4

\* A choice of least value among four, and the least of the chosen.
LEMMA MinOfFour ==
  ASSUME NEW a \in Int, NEW b \in Int, NEW c \in Int, NEW d \in Int
  PROVE  \E x \in {a, b, c, d} : \A y \in {a, b, c, d} : x <= y
OBVIOUS

LEMMA BestIsChosen ==
  ASSUME NEW a \in Int, NEW b \in Int, NEW c \in Int, NEW d \in Int,
         NEW f \in [{a, b, c, d} -> Int],
         a < b, b < c, c < d
  PROVE  LET Best == {s \in {a, b, c, d} : \A t \in {a, b, c, d} : f[s] <= f[t]}
         IN  Min(Best) \in {a, b, c, d}
<1> DEFINE Best == {s \in {a, b, c, d} : \A t \in {a, b, c, d} : f[s] <= f[t]}
<1>1. \E s \in {a, b, c, d} : s \in Best
  <2>1. \E x \in {f[a], f[b], f[c], f[d]} : \A y \in {f[a], f[b], f[c], f[d]} : x <= y
    BY MinOfFour
  <2>2. QED
    BY <2>1
<1>2. \A s \in Best : s \in {a, b, c, d}
  OBVIOUS
<1> HIDE DEF Best
<1>3. \E x \in Best : \A y \in Best : x <= y
  BY <1>1, <1>2
<1>4. Min(Best) \in Best
  BY <1>3 DEF Min
<1>5. QED
  BY <1>2, <1>4 DEF Best

\* The sizes that are chosen on devices are sizes, and the grid of ranks stays.
LEMMA AutoSizes ==
  ASSUME NEW f \in ParametersType
  PROVE  /\ autoDeviceBlockSizes(f) \in ParametersType
         /\ autoDeviceBlockSizes(f).procs = f.procs
         /\ autoDeviceBlockSizes(f).npool = f.npool
         /\ autoDeviceBlockSizes(f).nbandGrps = f.nbandGrps
<1> DEFINE n == Ceil(f.numEigenValues, f.nbandGrps)
           Bands(size) == Ceil(n, size) * size * f.nbandGrps
           Best == {s \in BlockSizeChoices(n) : \A t \in BlockSizeChoices(n) : Bands(s) <= Bands(t)}
           size == Min(Best)
<1>1. n \in Nat \ {0} /\ f.nbandGrps \in Nat \ {0}
  BY CeilPos DEF ParametersType
<1>2. \A s \in Nat \ {0} : Bands(s) \in Nat \ {0}
  <2> SUFFICES ASSUME NEW s \in Nat \ {0} PROVE Bands(s) \in Nat \ {0}
    OBVIOUS
  <2> HIDE DEF n
  <2>1. Ceil(n, s) \in Nat \ {0}
    BY <1>1, CeilPos
  <2>2. Ceil(n, s) * s \in Nat \ {0}
    BY <2>1, MulPos
  <2>3. QED
    BY <2>2, <1>1, MulPos
<1>3. n * f.nbandGrps \in Nat \ {0}
  <2> HIDE DEF n
  <2>1. QED
    BY <1>1, MulPos
<1> HIDE DEF n, Bands
<1>4. ASSUME NEW a \in Nat, NEW b \in Nat, NEW c \in Nat, NEW d \in Nat,
             90 <= a, a < b, b < c, c < d, BlockSizeChoices(n) = {a, b, c, d}
      PROVE  size \in Nat /\ size >= 90
  <2> DEFINE g == [s \in {a, b, c, d} |-> Bands(s)]
  <2>1. g \in [{a, b, c, d} -> Int]
    BY <1>2, <1>4
  <2>2. Best = {s \in {a, b, c, d} : \A t \in {a, b, c, d} : g[s] <= g[t]}
    BY <1>4
  <2>3. size = Min({s \in {a, b, c, d} : \A t \in {a, b, c, d} : g[s] <= g[t]})
    <3> HIDE DEF g, Best
    <3>1. QED
      BY <2>2
  <2> HIDE DEF g, size
  <2>4. Min({s \in {a, b, c, d} : \A t \in {a, b, c, d} : g[s] <= g[t]}) \in {a, b, c, d}
    BY <2>1, <1>4, BestIsChosen
  <2>5. QED
    BY <2>3, <2>4, <1>4
<1>5. size \in Nat /\ size >= 90
  <2> HIDE DEF size
  <2>1. CASE n <= 600
    <3>1. BlockSizeChoices(n) = {90, 100, 110, 120}
      BY <2>1, <1>1 DEF BlockSizeChoices
    <3>2. QED
      BY <3>1, <1>4
  <2>2. CASE 600 < n /\ n <= 1000
    <3>1. BlockSizeChoices(n) = {150, 160, 170, 180}
      BY <2>2, <1>1 DEF BlockSizeChoices
    <3>2. QED
      BY <3>1, <1>4
  <2>3. CASE 1000 < n /\ n <= 2000
    <3>1. BlockSizeChoices(n) = {200, 220, 240, 260}
      BY <2>3, <1>1 DEF BlockSizeChoices
    <3>2. QED
      BY <3>1, <1>4
  <2>4. CASE n > 2000
    <3>1. BlockSizeChoices(n) = {360, 380, 400, 440}
      BY <2>4, <1>1 DEF BlockSizeChoices
    <3>2. QED
      BY <3>1, <1>4
  <2>5. QED
    BY <2>1, <2>2, <2>3, <2>4, <1>1
<1>6. autoDeviceBlockSizes(f) =
        IF n <= 100
        THEN [f EXCEPT !.numEigenValues = n * f.nbandGrps,
                       !.chebyWfcBlockSize = n, !.wfcBlockSize = n]
        ELSE [f EXCEPT !.numEigenValues = Bands(size), !.wfcBlockSize = size,
                       !.chebyWfcBlockSize = IF n <= 600 THEN size ELSE size \div 2]
  BY DEF autoDeviceBlockSizes, n, Bands
<1> HIDE DEF size
<1>7. Bands(size) \in Nat \ {0} /\ size \in Nat \ {0} /\ size \div 2 \in Nat \ {0}
  BY <1>2, <1>5
<1>8. ASSUME NEW x \in Nat \ {0}, NEW y \in Nat \ {0}, NEW z \in Nat \ {0}
      PROVE  LET e == [f EXCEPT !.numEigenValues = x, !.wfcBlockSize = y, !.chebyWfcBlockSize = z]
             IN  /\ e \in ParametersType
                 /\ e.procs = f.procs /\ e.npool = f.npool /\ e.nbandGrps = f.nbandGrps
  BY DEF ParametersType
<1>9. CASE n <= 100
  <2>1. autoDeviceBlockSizes(f) = [f EXCEPT !.numEigenValues = n * f.nbandGrps, !.wfcBlockSize = n,
                                            !.chebyWfcBlockSize = n]
    BY <1>6, <1>9
  <2>2. QED
    BY <2>1, <1>1, <1>3, <1>8
<1>10. CASE ~ (n <= 100)
  <2>1. PICK z \in Nat \ {0} : z = IF n <= 600 THEN size ELSE size \div 2
    BY <1>7
  <2>2. PICK x \in Nat \ {0} : x = Bands(size)
    BY <1>7
  <2>3. autoDeviceBlockSizes(f) = [f EXCEPT !.numEigenValues = x, !.wfcBlockSize = size,
                                            !.chebyWfcBlockSize = z]
    BY <2>1, <2>2, <1>6, <1>10
  <2>4. QED
    <3>1. size \in Nat \ {0}
      BY <1>5
    <3> DEFINE e == [f EXCEPT !.numEigenValues = x, !.wfcBlockSize = size, !.chebyWfcBlockSize = z]
    <3>2. e \in ParametersType /\ e.procs = f.procs /\ e.npool = f.npool /\ e.nbandGrps = f.nbandGrps
      BY <3>1, <1>8
    <3>3. autoDeviceBlockSizes(f) = e
      BY <2>3
    <3> HIDE DEF e
    <3>4. QED
      BY <3>2, <3>3
<1>11. QED
  BY <1>9, <1>10

-----------------------------------------------------------------------------
Undivided == {"check_parameters", "Pool", "threw"}
Early == Undivided \cup {"set", "generateMPGrid", "solve"}
Solving == {"filter", "Allreduce"}
Ended == {"computeRho", "sumPools", "sumBandGroups", "done"}

TypeOK ==
  /\ params \in ParametersType
  /\ pc \in [Proc -> Early \cup Solving \cup Ended]
  /\ kPoint \in [Proc -> Nat]
  /\ jvec \in [Proc -> Int]
  /\ startIndexBandParal \in [Proc -> Int]
  /\ numVectorsBandParal \in [Proc -> Int]
  /\ DOMAIN eigenVectors = Proc

\* What the block loop has done before jvec, in a rank's wave functions and in the
\* range that it would send to the other band groups.
BlocksDone(p) ==
  /\ jvec[p] \in 0 .. bands
  /\ jvec[p] % vectorsBlockSize = 0 \/ jvec[p] = bands
  /\ \A b \in Band : b < jvec[p] =>
       eigenVectors[p][kPoint[p]][b] = IF InOwnGroup(p, EndOf(b)) THEN "filtered" ELSE "zero"
  /\ \A b \in Band : b < jvec[p] /\ InOwnGroup(p, EndOf(b)) =>
       startIndexBandParal[p] <= b /\ b < startIndexBandParal[p] + numVectorsBandParal[p]

WaveFunctions == [Band -> {"initial", "zero", "filtered"}]

Rank(p) ==
  /\ pc[p] \notin Undivided => Divides
  /\ pc[p] \in Early => kPoint[p] = 0 /\ jvec[p] = 0 /\ eigenVectors[p] = <<>>
  /\ pc[p] \in {"solve"} \cup Solving \cup Ended => d_kPoints[p].number \in Nat \ {0}
  /\ pc[p] \in Solving \cup Ended =>
       ChecksPass /\ eigenVectors[p] \in [0 .. d_kPoints[p].number - 1 -> WaveFunctions]
  /\ pc[p] \in Solving => kPoint[p] < d_kPoints[p].number /\ BlocksDone(p)
  /\ pc[p] = "Allreduce" => jvec[p] = bands
  /\ \A i \in DOMAIN eigenVectors[p] : i < kPoint[p] =>
       \A b \in Band : eigenVectors[p][i][b] = "filtered"

IInv == TypeOK /\ \A p \in Proc : Rank(p)

LEMMA SameParams ==
  ASSUME params' = params
  PROVE  /\ Proc' = Proc /\ bands' = bands /\ Band' = Band
         /\ vectorsBlockSize' = vectorsBlockSize
         /\ Divides' <=> Divides
         /\ ChecksPass' <=> ChecksPass
         /\ \A b : EndOf(b)' = EndOf(b)
         /\ \A p, e : InOwnGroup(p, e)' <=> InOwnGroup(p, e)
<1>1. Proc' = Proc /\ bands' = bands /\ Band' = Band
  BY DEF Proc, bands, Band
<1>2. groupSize' = groupSize
  BY <1>1 DEF groupSize
<1>3. vectorsBlockSize' = vectorsBlockSize
  BY <1>1, <1>2 DEF vectorsBlockSize
<1>4. Divides' <=> Divides
  BY DEF Divides
<1>5. ChecksPass' <=> ChecksPass
  BY <1>1, <1>2 DEF ChecksPass, DeviceChecks
<1>6. \A b : EndOf(b)' = EndOf(b)
  BY <1>1, <1>3 DEF EndOf
<1>7. \A p : bandGroupTaskId(p)' = bandGroupTaskId(p)
  BY <1>1 DEF bandGroupTaskId, interBandGroupComm, kPointPool
<1>8. \A p, e : InOwnGroup(p, e)' <=> InOwnGroup(p, e)
  BY <1>1, <1>7 DEF InOwnGroup
<1>9. QED
  BY <1>1, <1>3, <1>4, <1>5, <1>6, <1>8

\* A rank that a step leaves alone.
LEMMA SameRank ==
  ASSUME NEW q, Rank(q), params' = params, d_kPoints'[q] = d_kPoints[q],
         pc'[q] = pc[q], kPoint'[q] = kPoint[q], jvec'[q] = jvec[q],
         startIndexBandParal'[q] = startIndexBandParal[q],
         numVectorsBandParal'[q] = numVectorsBandParal[q],
         eigenVectors'[q] = eigenVectors[q]
  PROVE  Rank(q)'
<1>1. BlocksDone(q)' <=> BlocksDone(q)
  BY SameParams DEF BlocksDone
<1>2. WaveFunctions' = WaveFunctions
  BY SameParams DEF WaveFunctions
<1>3. QED
  BY <1>1, <1>2, SameParams DEF Rank

\* A collective call before the solve, after which the ranks of comm are at label.
LEMMA GotoKeepsEarly ==
  ASSUME IInv, params' = params, NEW comm, NEW label \in Early \ {"solve"},
         \A p \in comm \cap Proc : pc[p] \in Early,
         label \notin Undivided => Divides,
         Goto(comm, label), UNCHANGED <<d_kPoints, kPoint, loopVars, eigenVectors>>
  PROVE  IInv'
<1>1. Proc' = Proc
  BY SameParams
<1>2. TypeOK'
  BY <1>1 DEF IInv, TypeOK, Goto, loopVars
<1>3. ASSUME NEW p \in Proc PROVE Rank(p)'
  <2>1. CASE p \notin comm
    <3>1. pc'[p] = pc[p]
      BY <2>1 DEF Goto
    <3>2. Rank(p)
      BY DEF IInv
    <3>3. QED
      BY <3>1, <3>2, SameRank DEF loopVars
  <2>2. CASE p \in comm
    <3>1. pc'[p] = label /\ pc[p] \in Early
      BY <2>2 DEF Goto
    <3>2. kPoint'[p] = 0 /\ jvec'[p] = 0 /\ eigenVectors'[p] = <<>>
      BY <3>1 DEF IInv, Rank, loopVars
    <3>3. Divides' <=> Divides
      BY SameParams
    <3>4. label \notin {"solve"} \cup Solving \cup Ended
      BY DEF Early, Undivided, Solving, Ended
    <3>5. DOMAIN eigenVectors'[p] = {}
      BY <3>2
    <3>6. QED
      BY <3>1, <3>2, <3>3, <3>4, <3>5 DEF Rank, Solving
  <2>3. QED
    BY <2>1, <2>2
<1>4. QED
  BY <1>1, <1>2, <1>3 DEF IInv

LEMMA EarlySteps ==
  ASSUME IInv, Pool \/ \E p \in Proc : CheckParameters(p)
  PROVE  IInv'
<1>1. ASSUME NEW p \in Proc, CheckParameters(p) PROVE IInv'
  <2>1. PICK label \in {"Pool", "threw"} : Goto({p}, label)
    BY <1>1 DEF CheckParameters, GotoIf
  <2>2. \A q \in {p} \cap Proc : pc[q] \in Early
    BY <1>1 DEF CheckParameters, Early, Undivided
  <2>3. label \in Early \ {"solve"} /\ label \in Undivided
    BY <2>1 DEF Early, Undivided
  <2>4. params' = params /\ UNCHANGED <<d_kPoints, kPoint, loopVars, eigenVectors>>
    BY <1>1 DEF CheckParameters
  <2>5. QED
    BY <2>1, <2>2, <2>3, <2>4, GotoKeepsEarly
<1>2. ASSUME Pool PROVE IInv'
  <2>1. PICK label \in {"set", "threw"} : Goto(Proc, label) /\ (label = "set" => Divides)
    BY <1>2 DEF Pool, GotoIf, Divides
  <2>2. \A q \in Proc \cap Proc : pc[q] \in Early
    BY <1>2 DEF Pool, AllAt, Early, Undivided
  <2>3. label \in Early \ {"solve"} /\ (label \notin Undivided => Divides)
    BY <2>1 DEF Early, Undivided
  <2>4. params' = params /\ UNCHANGED <<d_kPoints, kPoint, loopVars, eigenVectors>>
    BY <1>2 DEF Pool
  <2>5. QED
    BY <2>1, <2>2, <2>3, <2>4, GotoKeepsEarly
<1>3. QED
  BY <1>1, <1>2

LEMMA SetStep ==
  ASSUME IInv, set
  PROVE  IInv'
<1>1. /\ params' \in ParametersType
      /\ params'.procs = params.procs /\ params'.npool = params.npool
      /\ params'.nbandGrps = params.nbandGrps
  <2>1. params \in ParametersType
    BY DEF IInv, TypeOK
  <2>2. CASE params' = params
    BY <2>1, <2>2
  <2>3. CASE params' = autoDeviceBlockSizes(params)
    BY <2>1, <2>3, AutoSizes
  <2>4. QED
    BY <2>2, <2>3 DEF set
<1>2. Proc' = Proc /\ (Divides' <=> Divides)
  BY <1>1 DEF Proc, Divides
<1>3. Proc # {}
  <2>1. params.procs \in Nat \ {0}
    BY DEF IInv, TypeOK, ParametersType
  <2>2. 0 \in Proc
    BY <2>1 DEF Proc
  <2>3. QED
    BY <2>2
<1>4. \A p \in Proc : pc[p] = "set" /\ pc'[p] = "generateMPGrid"
  BY DEF set, AllAt, Goto
<1>5. TypeOK'
  BY <1>1, <1>2 DEF IInv, TypeOK, set, Goto, loopVars, Early
<1>6. ASSUME NEW p \in Proc PROVE Rank(p)'
  <2>1. Divides'
    BY <1>2, <1>4 DEF IInv, Rank, Undivided
  <2>2. kPoint'[p] = 0 /\ jvec'[p] = 0 /\ eigenVectors'[p] = <<>>
    BY <1>4 DEF IInv, Rank, Early, set, loopVars
  <2>3. DOMAIN eigenVectors'[p] = {}
    BY <2>2
  <2>4. QED
    BY <1>4, <2>1, <2>2, <2>3 DEF Rank, Early, Undivided, Solving, Ended
<1>7. QED
  BY <1>2, <1>5, <1>6 DEF IInv

LEMMA GenerateMPGridStep ==
  ASSUME IInv, NEW p \in Proc, generateMPGrid(p)
  PROVE  IInv'
<1> DEFINE comm == interpoolcomm(p)
<1>1. comm \subseteq Proc
  BY DEF interpoolcomm, interpool
<1>2. params' = params /\ Proc' = Proc
  BY SameParams DEF generateMPGrid
<1>3. \A q \in comm : pc[q] = "generateMPGrid"
  BY DEF generateMPGrid, AllAt
<1> HIDE DEF comm
<1>4. CASE params.kPoints < params.npool
  <2>1. Goto(comm, "threw") /\ UNCHANGED <<d_kPoints, kPoint, loopVars, eigenVectors>>
    <3>1. params.kPoints \in Nat /\ params.npool \in Nat
      BY DEF IInv, TypeOK, ParametersType
    <3>2. QED
      BY <1>4, <3>1 DEF generateMPGrid, comm
  <2>2. \A q \in comm \cap Proc : pc[q] \in Early
    BY <1>3 DEF Early
  <2>3. "threw" \in Early \ {"solve"} /\ "threw" \in Undivided
    BY DEF Early, Undivided
  <2>4. QED
    BY <2>1, <2>2, <2>3, <1>2, GotoKeepsEarly
<1>5. CASE params.kPoints >= params.npool
  <2>1. /\ Goto(comm, "solve") /\ UNCHANGED <<kPoint, loopVars, eigenVectors>>
        /\ d_kPoints' = [q \in Proc |->
             IF q \in comm THEN [first |-> mpiOffsetskPoints(RankIn(comm, q)),
                                 number |-> sendSizekPoints(RankIn(comm, q))]
             ELSE d_kPoints[q]]
    <3>1. params.kPoints \in Nat /\ params.npool \in Nat
      BY DEF IInv, TypeOK, ParametersType
    <3>2. QED
      BY <1>5, <3>1 DEF generateMPGrid, comm
  <2>2. \A i : sendSizekPoints(i) \in Nat \ {0}
    <3>1. params.kPoints \in Nat \ {0} /\ params.npool \in Nat \ {0}
      BY DEF IInv, TypeOK, ParametersType
    <3>2. \A a \in Nat \ {0}, b \in Nat \ {0} : a >= b => a \div b \in Nat \ {0}
      OBVIOUS
    <3>3. params.kPoints \div params.npool \in Nat \ {0}
      BY <3>1, <3>2, <1>5
    <3>4. \A i : (IF i < params.kPoints % params.npool THEN 1 ELSE 0) \in {0, 1}
      OBVIOUS
    <3>5. \A a \in Nat \ {0}, b \in {0, 1} : a + b \in Nat \ {0}
      OBVIOUS
    <3>6. QED
      BY <3>3, <3>4, <3>5 DEF sendSizekPoints
  <2>3. TypeOK'
    BY <1>2, <2>1 DEF IInv, TypeOK, Goto, loopVars, Early
  <2>4. ASSUME NEW q \in Proc PROVE Rank(q)'
    <3>1. CASE q \notin comm
      <4>1. pc'[q] = pc[q] /\ d_kPoints'[q] = d_kPoints[q]
        BY <2>1, <3>1 DEF Goto
      <4>2. Rank(q)
        BY DEF IInv
      <4>3. QED
        BY <4>1, <4>2, <2>1, <1>2, SameRank DEF loopVars
    <3>2. CASE q \in comm
      <4>1. pc'[q] = "solve" /\ pc[q] = "generateMPGrid"
        BY <2>1, <3>2, <1>3 DEF Goto
      <4>2. kPoint'[q] = 0 /\ jvec'[q] = 0 /\ eigenVectors'[q] = <<>> /\ Divides'
        <5>1. Divides' <=> Divides
          BY <1>2, SameParams
        <5>2. QED
          BY <5>1, <4>1, <2>1 DEF IInv, Rank, Early, Undivided, loopVars
      <4>3. d_kPoints'[q].number \in Nat \ {0}
        BY <2>1, <2>2, <3>2
      <4>4. DOMAIN eigenVectors'[q] = {}
        BY <4>2
      <4>5. QED
        BY <4>1, <4>2, <4>3, <4>4 DEF Rank, Solving, Ended
    <3>3. QED
      BY <3>1, <3>2
  <2>5. QED
    BY <1>2, <2>3, <2>4 DEF IInv
<1>6. QED
  BY <1>4, <1>5 DEF generateMPGrid

LEMMA BeginSolveStep ==
  ASSUME IInv, NEW p \in Proc, BeginSolve(p)
  PROVE  IInv'
<1>1. /\ params' = params /\ Proc' = Proc /\ Band' = Band /\ bands' = bands
      /\ Divides' <=> Divides
      /\ ChecksPass' <=> ChecksPass
  BY SameParams DEF BeginSolve
<1>2. pc[p] = "solve"
  BY DEF BeginSolve
<1>3. CASE ~ ChecksPass
  <2>1. Goto({p}, "threw") /\ UNCHANGED <<d_kPoints, kPoint, loopVars, eigenVectors>>
    BY <1>3 DEF BeginSolve, loopVars
  <2>2. \A q \in {p} \cap Proc : pc[q] \in Early
    BY <1>2 DEF Early
  <2>3. "threw" \in Early \ {"solve"} /\ "threw" \in Undivided
    BY DEF Early, Undivided
  <2>4. QED
    BY <2>1, <2>2, <2>3, <1>1, GotoKeepsEarly
<1>4. CASE ChecksPass
  <2> DEFINE n == d_kPoints[p].number
             psi == [i \in 0 .. n - 1 |-> [b \in Band |-> "initial"]]
  <2>1. /\ Goto({p}, "filter")
        /\ startIndexBandParal' = [startIndexBandParal EXCEPT ![p] = bands]
        /\ eigenVectors' = [eigenVectors EXCEPT ![p] = psi]
        /\ UNCHANGED <<d_kPoints, kPoint, jvec, numVectorsBandParal>>
    BY <1>4 DEF BeginSolve
  <2>2. Divides /\ n \in Nat \ {0} /\ kPoint[p] = 0 /\ jvec[p] = 0
    BY <1>2 DEF IInv, Rank, Undivided, Early
  <2>3. Sizes
    BY <1>4, <2>2 DEF Sizes, IInv, TypeOK
  <2>4. bands \in Nat \ {0} /\ vectorsBlockSize \in Nat \ {0}
    BY <2>3, SizesType
  <2>5. psi \in [0 .. n - 1 -> WaveFunctions]
    BY DEF WaveFunctions
  <2> HIDE DEF psi
  <2>6. TypeOK'
    BY <1>1, <2>1, <2>4 DEF IInv, TypeOK, Goto, Solving
  <2>7. ASSUME NEW q \in Proc PROVE Rank(q)'
    <3>1. CASE q # p
      <4>1. /\ pc'[q] = pc[q] /\ startIndexBandParal'[q] = startIndexBandParal[q]
            /\ eigenVectors'[q] = eigenVectors[q]
        BY <3>1, <2>1 DEF Goto
      <4>2. Rank(q)
        BY DEF IInv
      <4>3. QED
        BY <4>1, <4>2, <2>1, <1>1, SameRank
    <3>2. CASE q = p
      <4>1. pc'[p] = "filter" /\ eigenVectors'[p] = psi /\ d_kPoints'[p].number = n
            /\ kPoint'[p] = 0 /\ jvec'[p] = 0
        BY <2>1, <2>2 DEF Goto, IInv, TypeOK
      <4>2. WaveFunctions' = WaveFunctions
        BY <1>1 DEF WaveFunctions
      <4>3. vectorsBlockSize' = vectorsBlockSize
        BY <1>1, SameParams
      <4>4. 0 % vectorsBlockSize = 0 /\ 0 \in 0 .. bands
        BY <2>4
      <4>5. BlocksDone(p)'
        <5>1. \A b \in Band : ~ (b < 0)
          BY <2>4 DEF Band
        <5>2. QED
          BY <5>1, <4>1, <4>3, <4>4, <1>1 DEF BlocksDone
      <4>6. \A i \in DOMAIN psi : ~ (i < 0)
        BY <2>5, <2>2
      <4>7. QED
        BY <3>2, <4>1, <4>2, <4>5, <4>6, <2>2, <2>5, <1>1, <1>4 DEF Rank, Early, Undivided, Solving
    <3>3. QED
      BY <3>1, <3>2
  <2>8. QED
    BY <1>1, <2>6, <2>7 DEF IInv
<1>5. QED
  BY <1>3, <1>4

\* A rank in the block loop has a whole block before it.
LEMMA InLoop ==
  ASSUME IInv, NEW p \in Proc, InBlockLoop(p)
  PROVE  /\ Sizes /\ bands \in Nat \ {0} /\ jvec[p] \in Band
         /\ BlockIsWhole(p, jvec[p])
         /\ d_kPoints[p].number \in Nat /\ kPoint[p] \in 0 .. d_kPoints[p].number - 1
         /\ eigenVectors[p] \in [0 .. d_kPoints[p].number - 1 -> WaveFunctions]
         /\ BlocksDone(p)
<1>1. pc[p] = "filter" /\ jvec[p] < bands
  BY DEF InBlockLoop
<1>2. /\ Divides /\ ChecksPass /\ BlocksDone(p) /\ d_kPoints[p].number \in Nat
      /\ kPoint[p] < d_kPoints[p].number
      /\ eigenVectors[p] \in [0 .. d_kPoints[p].number - 1 -> WaveFunctions]
  BY <1>1 DEF IInv, Rank, Solving, Undivided
<1>3. Sizes
  BY <1>2 DEF Sizes, IInv, TypeOK
<1>4. bands \in Nat \ {0}
  BY <1>3, SizesType
<1>5. jvec[p] \in Band /\ jvec[p] % vectorsBlockSize = 0
  BY <1>1, <1>2, <1>4 DEF BlocksDone, Band
<1>6. BlockIsWhole(p, jvec[p])
  <2>1. CASE params.useDevice
    BY <2>1, <1>3, <1>5, DeviceBlock
  <2>2. CASE ~ params.useDevice
    BY <2>2, <1>3, <1>5, HostBlock
  <2>3. QED
    BY <2>1, <2>2
<1>7. kPoint[p] \in Nat
  BY DEF IInv, TypeOK
<1>8. QED
  BY <1>2, <1>3, <1>4, <1>5, <1>6, <1>7

\* A block that is filtered by the rank's group, or set to zero by another's.
LEMMA SetBlockStep ==
  ASSUME IInv, NEW comm \in SUBSET Proc, NEW value \in {"filtered", "zero"},
         \A q \in comm : InBlockLoop(q) /\ (InOwnGroup(q, BlockEnd(q)) <=> value = "filtered"),
         SetBlock(comm, value),
         startIndexBandParal' = [q \in Proc |->
           IF q \in comm /\ value = "filtered" THEN Minimum(jvec[q], startIndexBandParal[q])
           ELSE startIndexBandParal[q]],
         numVectorsBandParal' = [q \in Proc |->
           IF q \in comm /\ value = "filtered" THEN BlockEnd(q) - startIndexBandParal'[q]
           ELSE numVectorsBandParal[q]]
  PROVE  IInv'
<1>1. /\ params' = params /\ Proc' = Proc /\ Band' = Band /\ bands' = bands
      /\ vectorsBlockSize' = vectorsBlockSize
      /\ Divides' <=> Divides
      /\ ChecksPass' <=> ChecksPass
      /\ \A b : EndOf(b)' = EndOf(b)
      /\ \A p, e : InOwnGroup(p, e)' <=> InOwnGroup(p, e)
  BY SameParams DEF SetBlock
<1>2. d_kPoints' = d_kPoints /\ kPoint' = kPoint
  BY DEF SetBlock
<1>3. \A q \in comm : BlockEnd(q) \in Int
  BY InLoop DEF BlockIsWhole, BlockEnd
<1>4. TypeOK'
  <2>1. jvec' \in [Proc -> Int] /\ DOMAIN eigenVectors' = Proc
    BY <1>3 DEF SetBlock, IInv, TypeOK
  <2>2. startIndexBandParal' \in [Proc -> Int]
    BY DEF IInv, TypeOK, Minimum
  <2>3. numVectorsBandParal' \in [Proc -> Int]
    BY <2>2, <1>3 DEF IInv, TypeOK
  <2>4. pc' \in [Proc -> Early \cup Solving \cup Ended]
    BY DEF SetBlock, IInv, TypeOK, Solving
  <2>5. QED
    BY <2>1, <2>2, <2>3, <2>4, <1>1, <1>2 DEF IInv, TypeOK
<1>5. ASSUME NEW q \in Proc, q \notin comm PROVE Rank(q)'
  <2>1. /\ pc'[q] = pc[q] /\ jvec'[q] = jvec[q] /\ eigenVectors'[q] = eigenVectors[q]
        /\ startIndexBandParal'[q] = startIndexBandParal[q]
        /\ numVectorsBandParal'[q] = numVectorsBandParal[q]
    BY <1>5 DEF SetBlock
  <2>2. Rank(q)
    BY DEF IInv
  <2>3. QED
    BY <2>1, <2>2, <1>1, <1>2, SameRank
<1>6. ASSUME NEW q \in comm PROVE Rank(q)'
  <2> DEFINE j == jvec[q]
             end == BlockEnd(q)
             psi == eigenVectors[q]
             k == kPoint[q]
             n == d_kPoints[q].number
             first == startIndexBandParal[q]
             number == numVectorsBandParal[q]
             block == [b \in Band |-> IF j <= b /\ b < end THEN value ELSE psi[k][b]]
  <2>1. q \in Proc /\ InBlockLoop(q) /\ (InOwnGroup(q, end) <=> value = "filtered")
    OBVIOUS
  <2>2. /\ bands \in Nat \ {0} /\ j \in Band /\ n \in Nat /\ k \in 0 .. n - 1
        /\ psi \in [0 .. n - 1 -> WaveFunctions] /\ BlocksDone(q)
    BY <2>1, InLoop
  <2>3. /\ end \in Int /\ j < end /\ end <= bands
        /\ end % vectorsBlockSize = 0 \/ end = bands
        /\ \A b \in Band : j <= b /\ b < end => (InOwnGroup(q, EndOf(b)) <=> InOwnGroup(q, end))
    BY <2>1, InLoop DEF BlockIsWhole, BlockEnd
  <2>4. /\ eigenVectors'[q] = [psi EXCEPT ![k] = block]
        /\ jvec'[q] = end
        /\ pc'[q] = IF end >= bands THEN "Allreduce" ELSE pc[q]
    BY <2>1 DEF SetBlock
  <2>5. pc[q] = "filter"
    BY <2>1 DEF InBlockLoop
  <2>6. first \in Int /\ number \in Int /\ Rank(q)
    BY <2>1 DEF IInv, TypeOK
  <2>7. \A b \in Band : b \in Int /\ 0 <= b
    BY <2>2 DEF Band
  <2>8. block \in WaveFunctions
    BY <2>2 DEF WaveFunctions
  <2>9. eigenVectors'[q] \in [0 .. n - 1 -> WaveFunctions] /\ eigenVectors'[q][k] = block
    <3> HIDE DEF block
    <3>1. QED
      BY <2>2, <2>4, <2>8
  <2>10. \A b \in Band : b < j => block[b] = IF InOwnGroup(q, EndOf(b)) THEN "filtered" ELSE "zero"
    BY <2>2, <2>7 DEF BlocksDone, Band
  <2>11. \A b \in Band : b < end => block[b] = IF InOwnGroup(q, EndOf(b)) THEN "filtered" ELSE "zero"
    BY <2>1, <2>2, <2>3, <2>7, <2>10 DEF Band
  <2>12. \A b \in Band : b < j /\ InOwnGroup(q, EndOf(b)) => first <= b /\ b < first + number
    BY <2>2 DEF BlocksDone
  <2>13. ASSUME NEW b \in Band, b < end, InOwnGroup(q, EndOf(b))
         PROVE  startIndexBandParal'[q] <= b
                /\ b < startIndexBandParal'[q] + numVectorsBandParal'[q]
    <3>1. CASE value = "filtered"
      <4>1. startIndexBandParal'[q] = Minimum(j, first)
        BY <2>1, <3>1
      <4>2. startIndexBandParal'[q] \in Int /\ numVectorsBandParal'[q] = end - startIndexBandParal'[q]
        BY <2>1, <2>2, <2>6, <2>7, <3>1, <4>1 DEF Minimum
      <4>3. Minimum(j, first) <= b
        BY <2>2, <2>6, <2>7, <2>12, <2>13 DEF Minimum
      <4>4. QED
        BY <4>1, <4>2, <4>3, <2>3, <2>7, <2>13
    <3>2. CASE value # "filtered"
      <4>1. startIndexBandParal'[q] = first /\ numVectorsBandParal'[q] = number
        BY <2>1, <3>2
      <4>2. b < j
        BY <2>1, <2>2, <2>3, <2>7, <2>13, <3>2
      <4>3. QED
        BY <4>1, <4>2, <2>12, <2>13
    <3>3. QED
      BY <3>1, <3>2
  <2> HIDE DEF block, j, end, psi, k, n, first, number
  <2>14. kPoint'[q] = k /\ d_kPoints'[q].number = n /\ WaveFunctions' = WaveFunctions
    BY <1>1, <1>2 DEF k, n, WaveFunctions
  <2>15. BlocksDone(q)'
    <3>1. end \in 0 .. bands
      BY <2>2, <2>3, <2>7
    <3>2. QED
      BY <3>1, <2>3, <2>4, <2>9, <2>11, <2>13, <2>14, <1>1 DEF BlocksDone
  <2>16. \A i \in 0 .. n - 1 : i < k => \A b \in Band : eigenVectors'[q][i][b] = "filtered"
    <3>1. \A i \in 0 .. n - 1 : i < k => eigenVectors'[q][i] = psi[i]
      BY <2>2, <2>4, <2>9
    <3>2. \A i \in 0 .. n - 1 : i < k => \A b \in Band : psi[i][b] = "filtered"
      BY <2>2, <2>6 DEF Rank, psi, k
    <3>3. QED
      BY <3>1, <3>2
  <2>17. pc'[q] \in Solving /\ (pc'[q] = "Allreduce" => end = bands)
    BY <2>2, <2>3, <2>4, <2>5 DEF Solving
  <2>18. Divides /\ ChecksPass /\ n \in Nat \ {0} /\ k < n
    BY <2>5, <2>6 DEF Rank, Solving, Undivided, n, k
  <2>19. pc'[q] \notin Undivided \cup Early
    BY <2>17 DEF Solving, Undivided, Early
  <2>20. DOMAIN eigenVectors'[q] = 0 .. n - 1
    BY <2>9
  <2>21. QED
    BY <2>4, <2>9, <2>14, <2>15, <2>16, <2>17, <2>18, <2>19, <2>20, <1>1 DEF Rank
<1>7. QED
  BY <1>1, <1>4, <1>5, <1>6 DEF IInv

\* What ranks make of a band that one of them filtered and the others have at zero.
LEMMA JoinedIsFiltered ==
  ASSUME NEW comm, NEW part, DOMAIN part = comm, NEW q \in comm,
         \A k \in comm : part[k] = IF k = q THEN "filtered" ELSE "zero"
  PROVE  Joined(part) = "filtered"
<1> DEFINE Parts == {k \in DOMAIN part : part[k] # "zero"}
<1>1. Parts = {q}
  OBVIOUS
<1>2. Cardinality({q}) = 1 /\ {q} # {}
  BY FS_Singleton
<1>3. (CHOOSE k \in {q} : TRUE) = q
  OBVIOUS
<1>4. Joined(part) = IF Parts = {} THEN "zero"
                     ELSE IF Cardinality(Parts) > 1 THEN "mixed"
                     ELSE part[CHOOSE k \in Parts : TRUE]
  BY DEF Joined
<1> HIDE DEF Parts
<1>5. QED
  BY <1>1, <1>2, <1>3, <1>4

LEMMA EndOfType ==
  ASSUME Sizes, NEW b \in Band
  PROVE  EndOf(b) \in 1 .. bands
<1>1. /\ bands \in Nat \ {0} /\ vectorsBlockSize \in Nat \ {0} /\ params.useDevice \in BOOLEAN
      /\ b \in Nat /\ b < bands
  BY SizesType DEF Band
<1>2. CASE params.useDevice
  BY <1>1, <1>2 DEF EndOf
<1>3. CASE ~ params.useDevice
  <2> DEFINE v == vectorsBlockSize
             k == b \div v
  <2>1. k \in Int /\ b < k * v + v /\ k * v \in Int
    BY <1>1, DivBounds
  <2> HIDE DEF k
  <2>2. (k + 1) * v = k * v + v
    BY <2>1, <1>1
  <2>3. EndOf(b) = Minimum(k * v + v, bands)
    BY <2>2, <1>3 DEF EndOf, k
  <2>4. QED
    BY <2>1, <2>3, <1>1 DEF Minimum
<1>4. QED
  BY <1>1, <1>2, <1>3

\* The ranks of one place: exactly one has the end of a block in its band group.
LEMMA OneOwns ==
  ASSUME Sizes, NEW p \in Proc, NEW end \in 1 .. bands
  PROVE  \E q \in interBandGroupComm(p) : \A k \in interBandGroupComm(p) :
           InOwnGroup(k, end) <=> k = q
<1> DEFINE G == params.nbandGrps
           comm == interBandGroupComm(p)
<1>1. G \in Nat \ {0} /\ bands \in Nat /\ bands \div G # 0
  BY SizesType DEF Sizes, ParametersType
<1>2. PICK i \in 0 .. G - 1 : \A k \in 0 .. G - 1 : EndsInGroup(bands, G, k, end) <=> k = i
  <2> HIDE DEF G
  <2>1. QED
    BY <1>1, EveryEndInOneGroup
<1>3. comm \subseteq Proc
  BY OneOfEachGroup DEF Sizes
<1>4. \A k \in comm : bandGroupTaskId(k) \in 0 .. G - 1
  BY <1>3, OneOfEachGroup DEF Sizes
<1>5. PICK q \in comm : \A k \in comm : bandGroupTaskId(k) = i <=> k = q
  BY <1>2, OneOfEachGroup DEF Sizes
<1>6. \A k \in comm : InOwnGroup(k, end) <=> k = q
  BY <1>2, <1>4, <1>5 DEF InOwnGroup
<1>7. QED
  BY <1>5, <1>6

\* The ranks of one place have filtered every band exactly once.
LEMMA OneFilters ==
  ASSUME Sizes, NEW p \in Proc, NEW b \in Band
  PROVE  \E q \in interBandGroupComm(p) : \A k \in interBandGroupComm(p) :
           InOwnGroup(k, EndOf(b)) <=> k = q
BY EndOfType, OneOwns

LEMMA AllreduceStep ==
  ASSUME IInv, NEW p \in Proc, Allreduce(p)
  PROVE  IInv'
<1> DEFINE comm == interBandGroupComm(p)
           Joint(b) == IF params.bandParalOpt /\ ~ params.useDevice
                       THEN Allgathered(comm, b) ELSE Allreduced(comm, b)
           Vectors == [b \in Band |-> Joint(b)]
<1>1. /\ params' = params /\ Proc' = Proc /\ Band' = Band /\ bands' = bands
      /\ vectorsBlockSize' = vectorsBlockSize
      /\ Divides' <=> Divides
      /\ ChecksPass' <=> ChecksPass
  BY SameParams DEF Allreduce
<1>2. d_kPoints' = d_kPoints
  BY DEF Allreduce
<1>3. comm \subseteq Proc /\ \A q \in comm : pc[q] = "Allreduce"
  BY DEF Allreduce, AllAt, interBandGroupComm, interpool, kPointPool, intrapool
<1>4. \A q \in comm :
        /\ Divides /\ ChecksPass /\ BlocksDone(q) /\ jvec[q] = bands
        /\ d_kPoints[q].number \in Nat \ {0} /\ kPoint[q] < d_kPoints[q].number
        /\ eigenVectors[q] \in [0 .. d_kPoints[q].number - 1 -> WaveFunctions]
  BY <1>3 DEF IInv, Rank, Solving, Undivided
<1>5. /\ eigenVectors' = [q \in Proc |->
           IF q \in comm THEN [eigenVectors[q] EXCEPT ![kPoint[q]] = Vectors] ELSE eigenVectors[q]]
      /\ kPoint' = [q \in Proc |-> IF q \in comm THEN kPoint[q] + 1 ELSE kPoint[q]]
      /\ pc' = [q \in Proc |->
           IF q \notin comm THEN pc[q]
           ELSE IF kPoint'[q] < d_kPoints[q].number THEN "filter" ELSE "computeRho"]
      /\ jvec' = [q \in Proc |-> IF q \in comm THEN 0 ELSE jvec[q]]
      /\ startIndexBandParal' = [q \in Proc |-> IF q \in comm THEN bands ELSE startIndexBandParal[q]]
      /\ numVectorsBandParal' = [q \in Proc |-> IF q \in comm THEN 0 ELSE numVectorsBandParal[q]]
  BY DEF Allreduce
<1> HIDE DEF comm, Vectors
<1>6. ASSUME NEW q \in comm PROVE Sizes /\ bands \in Nat \ {0} /\ vectorsBlockSize \in Nat \ {0}
  <2>1. Sizes
    BY <1>4 DEF Sizes, IInv, TypeOK
  <2>2. QED
    BY <2>1, SizesType
<1>7. ASSUME NEW q \in comm PROVE Vectors = [b \in Band |-> "filtered"]
  <2>1. ASSUME NEW b \in Band PROVE Joint(b) = "filtered"
    <3> DEFINE part1 == [k \in comm |-> eigenVectors[k][kPoint[k]][b]]
               part2 == [k \in comm |->
                 IF startIndexBandParal[k] <= b /\ b < startIndexBandParal[k] + numVectorsBandParal[k]
                 THEN eigenVectors[k][kPoint[k]][b] ELSE "zero"]
    <3>1. PICK r \in comm : \A k \in comm : InOwnGroup(k, EndOf(b)) <=> k = r
      BY <1>6, OneFilters DEF comm
    <3>2. b < bands
      BY <1>6 DEF Band
    <3>3. \A k \in comm : eigenVectors[k][kPoint[k]][b] = IF k = r THEN "filtered" ELSE "zero"
      BY <3>1, <3>2, <1>4 DEF BlocksDone
    <3>4. startIndexBandParal[r] <= b /\ b < startIndexBandParal[r] + numVectorsBandParal[r]
      BY <3>1, <3>2, <1>4 DEF BlocksDone
    <3>5. \A k \in comm : part1[k] = IF k = r THEN "filtered" ELSE "zero"
      BY <3>3
    <3>6. \A k \in comm : part2[k] = IF k = r THEN "filtered" ELSE "zero"
      BY <3>3, <3>4
    <3>7. Allreduced(comm, b) = Joined(part1) /\ Allgathered(comm, b) = Joined(part2)
      BY DEF Allreduced, Allgathered
    <3>8. DOMAIN part1 = comm /\ DOMAIN part2 = comm
      OBVIOUS
    <3> HIDE DEF part1, part2
    <3>9. Joined(part1) = "filtered" /\ Joined(part2) = "filtered"
      BY <3>5, <3>6, <3>8, JoinedIsFiltered
    <3>10. QED
      BY <3>7, <3>9
  <2>2. QED
    BY <2>1 DEF Vectors
<1> HIDE DEF Joint
<1>8. TypeOK'
  <2>1. startIndexBandParal' \in [Proc -> Int]
    BY <1>5, <1>6 DEF IInv, TypeOK
  <2>2. /\ kPoint' \in [Proc -> Nat] /\ jvec' \in [Proc -> Int]
        /\ numVectorsBandParal' \in [Proc -> Int] /\ DOMAIN eigenVectors' = Proc
    BY <1>5 DEF IInv, TypeOK
  <2>3. pc' \in [Proc -> Early \cup Solving \cup Ended]
    BY <1>5 DEF IInv, TypeOK, Solving, Ended
  <2>4. QED
    BY <2>1, <2>2, <2>3, <1>1 DEF IInv, TypeOK
<1>9. ASSUME NEW q \in Proc, q \notin comm PROVE Rank(q)'
  <2>1. Rank(q)
    BY DEF IInv
  <2>2. QED
    BY <2>1, <1>1, <1>2, <1>5, <1>9, SameRank
<1>10. ASSUME NEW q \in comm PROVE Rank(q)'
  <2> DEFINE psi == eigenVectors[q]
             k == kPoint[q]
             n == d_kPoints[q].number
  <2>1. q \in Proc /\ Rank(q)
    BY <1>3 DEF IInv
  <2>2. k \in Nat /\ n \in Nat \ {0} /\ k < n /\ psi \in [0 .. n - 1 -> WaveFunctions]
    BY <2>1, <1>4 DEF IInv, TypeOK
  <2>3. eigenVectors'[q] = [psi EXCEPT ![k] = [b \in Band |-> "filtered"]]
    BY <2>1, <1>5, <1>7
  <2>4. [b \in Band |-> "filtered"] \in WaveFunctions
    BY DEF WaveFunctions
  <2>5. /\ eigenVectors'[q] \in [0 .. n - 1 -> WaveFunctions]
        /\ DOMAIN eigenVectors'[q] = 0 .. n - 1
    BY <2>2, <2>3, <2>4
  <2>6. /\ kPoint'[q] = k + 1 /\ jvec'[q] = 0
        /\ pc'[q] = IF k + 1 < n THEN "filter" ELSE "computeRho"
    BY <2>1, <1>5
  <2>7. \A i \in 0 .. n - 1 : i < k + 1 => \A b \in Band : eigenVectors'[q][i][b] = "filtered"
    <3> SUFFICES ASSUME NEW i \in 0 .. n - 1, i < k + 1, NEW b \in Band
                 PROVE  eigenVectors'[q][i][b] = "filtered"
      OBVIOUS
    <3>1. CASE i = k
      BY <3>1, <2>2, <2>3
    <3>2. CASE i # k
      <4>1. i < k /\ eigenVectors'[q][i] = psi[i]
        BY <3>2, <2>2, <2>3
      <4>2. psi[i][b] = "filtered"
        BY <4>1, <2>1, <2>2 DEF Rank
      <4>3. QED
        BY <4>1, <4>2
    <3>3. QED
      BY <3>1, <3>2
  <2> HIDE DEF psi, k
  <2>8. BlocksDone(q)'
    <3>1. 0 % vectorsBlockSize = 0 /\ 0 \in 0 .. bands /\ \A b \in Band : ~ (b < 0)
      BY <1>6 DEF Band
    <3>2. QED
      BY <3>1, <2>6, <1>1 DEF BlocksDone
  <2>9. Divides /\ ChecksPass /\ WaveFunctions' = WaveFunctions
    BY <1>1, <1>4 DEF WaveFunctions
  <2>10. /\ pc'[q] \in {"filter", "computeRho"}
         /\ pc'[q] = "filter" => k + 1 < n
    BY <2>6
  <2>11. d_kPoints'[q].number = n
    BY <1>2
  <2> HIDE DEF n
  <2>12. QED
    BY <2>2, <2>5, <2>6, <2>7, <2>8, <2>9, <2>10, <2>11, <1>1 DEF Rank, Early, Undivided, Solving, Ended
<1>11. QED
  BY <1>1, <1>8, <1>9, <1>10 DEF IInv

\* The density takes the ranks from one collective call to the next.
LEMMA DensityStep ==
  ASSUME IInv, NEW comm, NEW from \in {"computeRho", "sumPools", "sumBandGroups"}, NEW label \in Ended,
         AllAt(comm, from), Goto(comm, label),
         UNCHANGED <<params, d_kPoints, kPoint, loopVars, eigenVectors>>
  PROVE  IInv'
<1>1. params' = params /\ Proc' = Proc /\ (Divides' <=> Divides) /\ (ChecksPass' <=> ChecksPass)
      /\ Band' = Band
  BY SameParams
<1>2. TypeOK'
  BY <1>1 DEF IInv, TypeOK, Goto, loopVars
<1>3. ASSUME NEW q \in Proc PROVE Rank(q)'
  <2>1. Rank(q)
    BY DEF IInv
  <2>2. CASE q \notin comm
    <3>1. pc'[q] = pc[q]
      BY <2>2 DEF Goto
    <3>2. QED
      BY <2>1, <3>1, <1>1, SameRank DEF loopVars
  <2>3. CASE q \in comm
    <3>1. pc[q] \in Ended /\ pc'[q] \in Ended
      BY <2>3 DEF AllAt, Goto, Ended
    <3>2. /\ kPoint'[q] = kPoint[q] /\ eigenVectors'[q] = eigenVectors[q]
          /\ d_kPoints'[q] = d_kPoints[q] /\ WaveFunctions' = WaveFunctions
      BY <1>1 DEF loopVars, WaveFunctions
    <3>3. \A at \in Ended : at \notin Undivided /\ at \notin Early /\ at \notin Solving /\ at # "Allreduce"
      BY DEF Ended, Undivided, Early, Solving
    <3>4. QED
      BY <2>1, <3>1, <3>2, <3>3, <1>1 DEF Rank
  <2>4. QED
    BY <2>2, <2>3
<1>4. QED
  BY <1>1, <1>2, <1>3 DEF IInv

LEMMA InitOK == Init => IInv
<1> SUFFICES ASSUME Init PROVE IInv
  OBVIOUS
<1>1. params \in ParametersType
  BY ParametersAssumption DEF Init
<1>2. TypeOK
  BY <1>1 DEF Init, TypeOK, Early, Undivided
<1>3. ASSUME NEW p \in Proc PROVE Rank(p)
  <2>1. pc[p] = "check_parameters" /\ kPoint[p] = 0 /\ jvec[p] = 0 /\ eigenVectors[p] = <<>>
    BY DEF Init
  <2>2. DOMAIN eigenVectors[p] = {}
    BY <2>1
  <2>3. QED
    BY <2>1, <2>2 DEF Rank, Undivided, Solving, Ended
<1>4. QED
  BY <1>2, <1>3 DEF IInv

LEMMA ActionOK == IInv /\ Next => IInv'
<1> SUFFICES ASSUME IInv, Next PROVE IInv'
  OBVIOUS
<1>1. CASE Pool
  BY <1>1, EarlySteps
<1>2. CASE set
  BY <1>2, SetStep
<1>3. CASE computeRho
  <2>1. "computeRho" \in {"computeRho", "sumPools", "sumBandGroups"} /\ "sumPools" \in Ended
    BY DEF Ended
  <2>2. QED
    BY <1>3, <2>1, DensityStep DEF computeRho
<1>4. ASSUME NEW p \in Proc, CheckParameters(p) PROVE IInv'
  BY <1>4, EarlySteps
<1>5. ASSUME NEW p \in Proc, generateMPGrid(p) PROVE IInv'
  BY <1>5, GenerateMPGridStep
<1>6. ASSUME NEW p \in Proc, BeginSolve(p) PROVE IInv'
  BY <1>6, BeginSolveStep
<1>7. ASSUME NEW p \in Proc, chebyshevFilter(p) PROVE IInv'
  <2> DEFINE comm == mpi_communicator(p)
  <2>1. comm \in SUBSET Proc
    BY DEF mpi_communicator, intrapool, kPointPool
  <2>2. /\ \A q \in comm : InBlockLoop(q) /\ InOwnGroup(q, BlockEnd(q))
        /\ SetBlock(comm, "filtered")
        /\ startIndexBandParal' = [q \in Proc |->
             IF q \in comm THEN Minimum(jvec[q], startIndexBandParal[q]) ELSE startIndexBandParal[q]]
        /\ numVectorsBandParal' = [q \in Proc |->
             IF q \in comm THEN BlockEnd(q) - startIndexBandParal'[q] ELSE numVectorsBandParal[q]]
    BY <1>7 DEF chebyshevFilter
  <2> DEFINE value == "filtered"
  <2>3. /\ startIndexBandParal' = [q \in Proc |->
             IF q \in comm /\ value = "filtered" THEN Minimum(jvec[q], startIndexBandParal[q])
             ELSE startIndexBandParal[q]]
        /\ numVectorsBandParal' = [q \in Proc |->
             IF q \in comm /\ value = "filtered" THEN BlockEnd(q) - startIndexBandParal'[q]
             ELSE numVectorsBandParal[q]]
    BY <2>2
  <2>4. SetBlock(comm, value) /\ value \in {"filtered", "zero"}
        /\ \A q \in comm : InBlockLoop(q) /\ (InOwnGroup(q, BlockEnd(q)) <=> value = "filtered")
    BY <2>2
  <2> HIDE DEF comm, value
  <2>5. QED
    BY <2>1, <2>3, <2>4, SetBlockStep
<1>8. ASSUME NEW p \in Proc, setZero(p) PROVE IInv'
  <2> DEFINE comm == {p}
             value == "zero"
  <2>1. comm \in SUBSET Proc
    OBVIOUS
  <2>2. /\ InBlockLoop(p) /\ ~ InOwnGroup(p, BlockEnd(p)) /\ SetBlock(comm, value)
        /\ startIndexBandParal' = startIndexBandParal /\ numVectorsBandParal' = numVectorsBandParal
    BY <1>8 DEF setZero
  <2>3. /\ startIndexBandParal' = [q \in Proc |->
             IF q \in comm /\ value = "filtered" THEN Minimum(jvec[q], startIndexBandParal[q])
             ELSE startIndexBandParal[q]]
        /\ numVectorsBandParal' = [q \in Proc |->
             IF q \in comm /\ value = "filtered" THEN BlockEnd(q) - startIndexBandParal'[q]
             ELSE numVectorsBandParal[q]]
    BY <2>2 DEF IInv, TypeOK
  <2>4. value \in {"filtered", "zero"}
        /\ \A q \in comm : InBlockLoop(q) /\ (InOwnGroup(q, BlockEnd(q)) <=> value = "filtered")
    BY <2>2
  <2> HIDE DEF comm, value
  <2>5. QED
    BY <2>1, <2>2, <2>3, <2>4, SetBlockStep
<1>9. ASSUME NEW p \in Proc, Allreduce(p) PROVE IInv'
  BY <1>9, AllreduceStep
<1>10. ASSUME NEW p \in Proc, SumOverPools(p) PROVE IInv'
  <2>1. "sumPools" \in {"computeRho", "sumPools", "sumBandGroups"} /\ "sumBandGroups" \in Ended
    BY DEF Ended
  <2>2. QED
    BY <1>10, <2>1, DensityStep DEF SumOverPools, SumRho
<1>11. ASSUME NEW p \in Proc, SumOverBandGroups(p) PROVE IInv'
  <2>1. "sumBandGroups" \in {"computeRho", "sumPools", "sumBandGroups"} /\ "done" \in Ended
    BY DEF Ended
  <2>2. QED
    BY <1>11, <2>1, DensityStep DEF SumOverBandGroups, SumRho
<1>12. QED
  BY <1>1, <1>2, <1>3, <1>4, <1>5, <1>6, <1>7, <1>8, <1>9, <1>10, <1>11 DEF Next

LEMMA StutterOK == IInv /\ UNCHANGED vars => IInv'
<1> SUFFICES ASSUME IInv, UNCHANGED vars PROVE IInv'
  OBVIOUS
<1>1. /\ params' = params /\ d_kPoints' = d_kPoints /\ pc' = pc /\ kPoint' = kPoint /\ jvec' = jvec
      /\ startIndexBandParal' = startIndexBandParal
      /\ numVectorsBandParal' = numVectorsBandParal /\ eigenVectors' = eigenVectors
  BY DEF vars
<1>2. Proc' = Proc
  BY <1>1, SameParams
<1>3. TypeOK'
  BY <1>1, <1>2 DEF IInv, TypeOK
<1>4. ASSUME NEW q \in Proc PROVE Rank(q)'
  <2>1. Rank(q)
    BY DEF IInv
  <2>2. QED
    BY <2>1, <1>1, SameRank
<1>5. QED
  BY <1>2, <1>3, <1>4 DEF IInv

\* The invariant holds for all numbers of ranks, pools, band groups, k-points and
\* bands, and for all block sizes: what the block loop has left of the wave
\* functions is a function of its place alone, the same in every order of the ranks.
THEOREM InvariantHolds == Spec => []IInv
<1>1. Init => IInv
  BY InitOK
<1>2. IInv /\ [Next]_vars => IInv'
  BY ActionOK, StutterOK
<1>3. QED
  BY <1>1, <1>2, PTL DEF Spec

\* Once the wave functions of a k-point are put together, each is what one band
\* group filtered, on every rank (Allreduce and Allgatherv of the solve).
THEOREM EachFilteredByOneGroup == Spec => []FilteredByOneGroup
<1>1. IInv => FilteredByOneGroup
  BY DEF IInv, Rank, FilteredByOneGroup
<1>2. QED
  BY <1>1, InvariantHolds, PTL

\* No block of the loop reaches past the last band, on devices for any sizes that
\* pass the checks of dftClass::solve, alone or two at a time.
THEOREM BlocksAlwaysFit == Spec => []BlocksFit
<1>1. IInv => BlocksFit
  BY InLoop DEF BlocksFit, BlockIsWhole, BlockEnd
<1>2. QED
  BY <1>1, InvariantHolds, PTL

-----------------------------------------------------------------------------
\* Sums over sets of ranks or pools.

\* Induction over the subsets of a finite set, for the members of a set of subsets.
LEMMA SubsetInduction ==
  ASSUME NEW S, IsFiniteSet(S), NEW F,
         \A T \in SUBSET S : (\A U \in SUBSET T : U # T => U \in F) => T \in F
  PROVE  \A T \in SUBSET S : T \in F
<1> DEFINE bad == {T \in SUBSET S : T \notin F}
<1>1. SUFFICES ASSUME bad # {} PROVE FALSE
  OBVIOUS
<1>2. PICK T \in bad : \A U \in bad : <<U, T>> \notin StrictSubsetOrdering(S)
  <2>1. bad \subseteq FiniteSubsetsOf(S)
    BY FS_FiniteSubsetsOfFinite
  <2>2. IsWellFoundedOn(StrictSubsetOrdering(S), FiniteSubsetsOf(S))
    BY FS_StrictSubsetOrderingWellFounded
  <2> HIDE DEF bad
  <2>3. QED
    BY <1>1, <2>1, <2>2, WFMin
<1>3. \A U \in SUBSET T : U # T => U \in F
  BY <1>2 DEF StrictSubsetOrdering
<1>4. QED
  BY <1>3

\* g gives the sum of f over each subset of S, whatever element is taken first.
SumsOf(g, f, S) ==
  /\ g \in [SUBSET S -> Int]
  /\ g[{}] = 0
  /\ \A T \in SUBSET S : \A x \in T : g[T] = f[x] + g[T \ {x}]

\* sums is computed as MapThenSumSet does, for the function f.
SumsUp(sums, f, S) ==
  sums = [T \in SUBSET S |-> IF T = {} THEN 0
                             ELSE f[CHOOSE x \in T : TRUE] + sums[T \ {CHOOSE x \in T : TRUE}]]

LEMMA SumsExist ==
  ASSUME NEW S, NEW f, NEW g, SumsOf(g, f, S)
  PROVE  SumsUp(g, f, S)
<1> DEFINE c(T) == CHOOSE x \in T : TRUE
<1>1. ASSUME NEW T \in SUBSET S
      PROVE  g[T] = IF T = {} THEN 0 ELSE f[c(T)] + g[T \ {c(T)}]
  <2>1. CASE T = {}
    BY <2>1 DEF SumsOf
  <2>2. CASE T # {}
    <3>1. c(T) \in T
      BY <2>2
    <3> HIDE DEF c
    <3>2. QED
      BY <2>2, <3>1 DEF SumsOf
  <2>3. QED
    BY <2>1, <2>2
<1>2. g = [T \in SUBSET S |-> g[T]]
  BY DEF SumsOf
<1>3. g = [T \in SUBSET S |-> IF T = {} THEN 0 ELSE f[c(T)] + g[T \ {c(T)}]]
  <2> HIDE DEF c
  <2>1. QED
    BY <1>1, <1>2
<1>4. QED
  BY <1>3 DEF SumsUp

LEMMA SumIs ==
  ASSUME NEW S, IsFiniteSet(S), NEW f, NEW g, SumsOf(g, f, S), NEW sums, SumsUp(sums, f, S)
  PROVE  sums[S] = g[S]
<1> DEFINE F == {T \in SUBSET S : sums[T] = g[T]}
           c(T) == CHOOSE x \in T : TRUE
<1>1. ASSUME NEW T \in SUBSET S, \A U \in SUBSET T : U # T => U \in F
      PROVE  T \in F
  <2>0. sums = [R \in SUBSET S |-> IF R = {} THEN 0 ELSE f[c(R)] + sums[R \ {c(R)}]]
    BY DEF SumsUp
  <2>1. CASE T = {}
    <3> HIDE DEF c
    <3>1. QED
      BY <2>0, <2>1 DEF SumsOf
  <2>2. CASE T # {}
    <3>1. c(T) \in T
      BY <2>2
    <3> HIDE DEF c
    <3>2. T \ {c(T)} \in F
      BY <1>1, <3>1
    <3>3. sums[T] = f[c(T)] + sums[T \ {c(T)}]
      BY <2>0, <2>2
    <3>4. g[T] = f[c(T)] + g[T \ {c(T)}]
      BY <3>1 DEF SumsOf
    <3>5. QED
      BY <3>2, <3>3, <3>4
  <2>3. QED
    BY <2>1, <2>2
<1>2. \A T \in SUBSET S : T \in F
  <2> HIDE DEF F
  <2>1. QED
    BY <1>1, SubsetInduction
<1>3. QED
  BY <1>2

\* The sum of the values that the members of S have at s, as SumRho writes it.
Total(S, f, s) == MapThenSumSet(LAMBDA r : f[r][s], S)

LEMMA SumAt ==
  ASSUME NEW S, IsFiniteSet(S), NEW f, NEW s, NEW g, SumsOf(g, [r \in S |-> f[r][s]], S)
  PROVE  Total(S, f, s) = g[S]
<1> DEFINE h == [r \in S |-> f[r][s]]
           sum(i) == i = [T \in SUBSET S |->
                            IF T = {} THEN 0
                            ELSE LET x == CHOOSE y \in T : TRUE
                                 IN  f[x][s] + i[T \ {x}]]
           sums == CHOOSE i : sum(i)
<1>1. Total(S, f, s) = sums[S]
  BY DEF Total, MapThenSumSet, MapThenFoldSet
<1>2. ASSUME NEW i PROVE sum(i) <=> SumsUp(i, h, S)
  <2>1. \A T \in SUBSET S : T # {} => h[CHOOSE y \in T : TRUE] = f[CHOOSE y \in T : TRUE][s]
    <3> SUFFICES ASSUME NEW T \in SUBSET S, T # {}
                 PROVE  h[CHOOSE y \in T : TRUE] = f[CHOOSE y \in T : TRUE][s]
      OBVIOUS
    <3>1. (CHOOSE y \in T : TRUE) \in S
      OBVIOUS
    <3>2. QED
      BY <3>1
  <2> HIDE DEF h
  <2>2. QED
    BY <2>1 DEF SumsUp
<1>3. sum(g)
  <2>1. SumsUp(g, h, S)
    <3> HIDE DEF sum
    <3>1. QED
      BY SumsExist
  <2> HIDE DEF sum, h
  <2>2. QED
    BY <1>2, <2>1
<1>4. sum(sums)
  <2> HIDE DEF sum
  <2>1. QED
    BY <1>3
<1> HIDE DEF sums, sum
<1>5. SumsUp(sums, h, S)
  BY <1>2, <1>4
<1>6. sums[S] = g[S]
  <2>1. SumsOf(g, h, S)
    OBVIOUS
  <2> HIDE DEF h
  <2>2. QED
    BY <1>5, <2>1, SumIs
<1>7. QED
  BY <1>1, <1>6

\* A sum in which one member of the set has 1, or none, and the others 0.
LEMMA SumOfOne ==
  ASSUME NEW S, IsFiniteSet(S), NEW f, NEW s, NEW q \in S, NEW one \in BOOLEAN,
         \A r \in S : f[r][s] = IF r = q /\ one THEN 1 ELSE 0
  PROVE  Total(S, f, s) = IF one THEN 1 ELSE 0
<1> DEFINE h == [r \in S |-> f[r][s]]
           g == [T \in SUBSET S |-> IF q \in T /\ one THEN 1 ELSE 0]
<1>1. SumsOf(g, h, S)
  <2>1. g \in [SUBSET S -> Int] /\ g[{}] = 0
    OBVIOUS
  <2>2. ASSUME NEW T \in SUBSET S, NEW x \in T PROVE g[T] = h[x] + g[T \ {x}]
    <3>1. h[x] = IF x = q /\ one THEN 1 ELSE 0
      OBVIOUS
    <3>2. g[T] = (IF q \in T /\ one THEN 1 ELSE 0)
          /\ g[T \ {x}] = (IF q \in T \ {x} /\ one THEN 1 ELSE 0)
      OBVIOUS
    <3> HIDE DEF h, g
    <3>3. QED
      BY <3>1, <3>2
  <2> HIDE DEF h, g
  <2>3. QED
    BY <2>1, <2>2 DEF SumsOf
<1>2. g[S] = IF one THEN 1 ELSE 0
  OBVIOUS
<1>3. Total(S, f, s) = g[S]
  <2> HIDE DEF g
  <2>1. QED
    BY <1>1, SumAt
<1>4. QED
  BY <1>2, <1>3

-----------------------------------------------------------------------------
\* The k-points.  Every pool gets a share, and the first ones get one more.
Share == params.kPoints \div params.npool
Extra == params.kPoints % params.npool

LEMMA QuotientRemainder ==
  ASSUME NEW k \in Nat, NEW n \in Nat \ {0}
  PROVE  /\ k \div n \in Nat /\ k % n \in Nat /\ k % n < n
         /\ k = n * (k \div n) + (k % n)
<1> DEFINE d == k \div n
<1>1. d \in Int /\ d * n <= k /\ k < d * n + n /\ (k % n) = k - d * n
  BY DivBounds
<1> HIDE DEF d
<1>2. d \in Nat
  <2> SUFFICES ASSUME d < 0 PROVE FALSE
    BY <1>1
  <2>1. d * n + n <= 0 * n
    BY <1>1, MulStep
  <2>2. QED
    BY <2>1, <1>1
<1>3. d * n \in Nat /\ d * n = n * d
  BY <1>2
<1>4. k % n \in Nat /\ k % n < n /\ k = n * d + (k % n)
  BY <1>1, <1>3
<1>5. QED
  BY <1>2, <1>4 DEF d

LEMMA ShareFacts ==
  ASSUME params \in ParametersType
  PROVE  /\ params.npool \in Nat \ {0} /\ params.kPoints \in Nat \ {0}
         /\ Share \in Nat /\ Extra \in Nat /\ Extra < params.npool
         /\ params.kPoints = params.npool * Share + Extra
         /\ \A i : sendSizekPoints(i) = Share + (IF i < Extra THEN 1 ELSE 0)
<1>1. params.npool \in Nat \ {0} /\ params.kPoints \in Nat \ {0}
  BY DEF ParametersType
<1>2. \A i : sendSizekPoints(i) = Share + (IF i < Extra THEN 1 ELSE 0)
  BY DEF Share, Extra, sendSizekPoints
<1>3. QED
  BY <1>1, <1>2, QuotientRemainder DEF Share, Extra

LEMMA OffsetSums ==
  ASSUME params \in ParametersType, NEW i \in Nat
  PROVE  mpiOffsetskPoints(i) = Share * i + Cardinality({k \in 0 .. i - 1 : k < Extra})
<1> DEFINE S == 0 .. i - 1
           f == [k \in S |-> sendSizekPoints(k)]
           g == [T \in SUBSET S |-> Share * Cardinality(T) + Cardinality({k \in T : k < Extra})]
           sum(h) == h = [T \in SUBSET S |->
                            IF T = {} THEN 0
                            ELSE LET x == CHOOSE y \in T : TRUE
                                 IN  sendSizekPoints(x) + h[T \ {x}]]
           sums == CHOOSE h : sum(h)
<1>1. IsFiniteSet(S) /\ Cardinality(S) = i
  <2>1. i - 1 \in Int /\ 0 \in Int
    OBVIOUS
  <2>2. IsFiniteSet(0 .. i - 1) /\ Cardinality(0 .. i - 1) = IF 0 > i - 1 THEN 0 ELSE (i - 1) - 0 + 1
    BY <2>1, FS_Interval
  <2>3. QED
    BY <2>2
<1>2. /\ Share \in Nat /\ Extra \in Nat
      /\ \A k : sendSizekPoints(k) = Share + (IF k < Extra THEN 1 ELSE 0)
  BY ShareFacts
<1>3. SumsOf(g, f, S)
  <2>1. ASSUME NEW T \in SUBSET S
        PROVE  /\ IsFiniteSet(T) /\ Cardinality(T) \in Nat
               /\ IsFiniteSet({k \in T : k < Extra}) /\ Cardinality({k \in T : k < Extra}) \in Nat
    <3>1. IsFiniteSet(T)
      BY <1>1, FS_Subset
    <3>2. IsFiniteSet({k \in T : k < Extra})
      BY <3>1, FS_Subset
    <3>3. QED
      BY <3>1, <3>2, FS_CardinalityType
  <2>2. g \in [SUBSET S -> Int]
    <3>1. ASSUME NEW T \in SUBSET S
          PROVE  Share * Cardinality(T) + Cardinality({k \in T : k < Extra}) \in Int
      <4>1. Cardinality(T) \in Nat /\ Cardinality({k \in T : k < Extra}) \in Nat
        BY <2>1
      <4>2. \A x \in Nat, y \in Nat : Share * x + y \in Int
        BY <1>2
      <4>3. QED
        BY <4>1, <4>2
    <3>2. QED
      BY <3>1
  <2>3. g[{}] = 0
    <3>1. Cardinality({}) = 0 /\ {k \in {} : k < Extra} = {}
      BY FS_EmptySet
    <3>2. QED
      BY <3>1, <1>2
  <2>4. ASSUME NEW T \in SUBSET S, NEW x \in T PROVE g[T] = f[x] + g[T \ {x}]
    <3> DEFINE A == {k \in T : k < Extra}
               B == {k \in T \ {x} : k < Extra}
               U == T \ {x}
    <3>1. /\ U \in SUBSET S /\ x \in S
          /\ g[T] = Share * Cardinality(T) + Cardinality(A)
          /\ g[U] = Share * Cardinality(U) + Cardinality(B)
          /\ f[x] = Share + (IF x < Extra THEN 1 ELSE 0)
      BY <1>2
    <3>2. Cardinality(U) = Cardinality(T) - 1 /\ Cardinality(T) \in Nat /\ Cardinality(A) \in Nat
      BY <2>1, FS_RemoveElement
    <3>3. Cardinality(B) = Cardinality(A) - (IF x < Extra THEN 1 ELSE 0)
      <4>1. CASE x < Extra
        <5>1. B = A \ {x} /\ x \in A /\ IsFiniteSet(A)
          BY <4>1, <2>1
        <5>2. QED
          BY <5>1, <4>1, FS_RemoveElement
      <4>2. CASE ~(x < Extra)
        <5>1. B = A
          BY <4>2
        <5>2. QED
          BY <5>1, <4>2, <3>2
      <4>3. QED
        BY <4>1, <4>2
    <3> HIDE DEF A, B, U, f, g, S
    <3>4. \A n \in Nat : Share * (n - 1) = Share * n - Share /\ Share * n \in Int
      BY <1>2
    <3>5. g[T] = f[x] + g[U]
      BY <3>1, <3>2, <3>3, <3>4, <1>2
    <3>6. QED
      BY <3>5 DEF U
  <2> HIDE DEF f, g, S
  <2>5. QED
    BY <2>2, <2>3, <2>4 DEF SumsOf
<1>4. mpiOffsetskPoints(i) = sums[S]
  BY DEF mpiOffsetskPoints, MapThenSumSet, MapThenFoldSet
<1>5. ASSUME NEW h PROVE sum(h) <=> SumsUp(h, f, S)
  <2>1. \A T \in SUBSET S : T # {} =>
          f[CHOOSE y \in T : TRUE] = sendSizekPoints(CHOOSE y \in T : TRUE)
    <3> SUFFICES ASSUME NEW T \in SUBSET S, T # {}
                 PROVE  f[CHOOSE y \in T : TRUE] = sendSizekPoints(CHOOSE y \in T : TRUE)
      OBVIOUS
    <3>1. (CHOOSE y \in T : TRUE) \in S
      OBVIOUS
    <3>2. QED
      BY <3>1
  <2> HIDE DEF f
  <2>2. QED
    BY <2>1 DEF SumsUp
<1>6. sum(g)
  <2>1. SumsUp(g, f, S)
    <3> HIDE DEF sum, f, g, S
    <3>1. QED
      BY <1>3, SumsExist
  <2> HIDE DEF sum, f, g, S
  <2>2. QED
    BY <1>5, <2>1
<1>7. sum(sums)
  <2> HIDE DEF sum, g
  <2>1. QED
    BY <1>6
<1>8. g[S] = Share * i + Cardinality({k \in S : k < Extra})
  BY <1>1
<1> HIDE DEF sums, sum, f, g
<1>9. SumsUp(sums, f, S)
  BY <1>5, <1>7
<1>10. sums[S] = g[S]
  <2> HIDE DEF S
  <2>1. QED
    BY <1>1, <1>3, <1>9, SumIs
<1>11. QED
  BY <1>4, <1>8, <1>10

\* The offset of a pool: the shares before it, and the k-points left over before it.
LEMMA OffsetsAre ==
  ASSUME params \in ParametersType, NEW i \in Nat
  PROVE  mpiOffsetskPoints(i) = Share * i + Minimum(i, Extra)
<1>1. Extra \in Nat /\ Share \in Nat
  BY ShareFacts
<1>2. {k \in 0 .. i - 1 : k < Extra} = 0 .. Minimum(i, Extra) - 1
  BY <1>1 DEF Minimum
<1>3. Minimum(i, Extra) \in Nat
  BY <1>1 DEF Minimum
<1>4. Cardinality(0 .. Minimum(i, Extra) - 1) = Minimum(i, Extra)
  <2> DEFINE m == Minimum(i, Extra)
  <2>1. m \in Nat
    BY <1>3
  <2> HIDE DEF m
  <2>2. m - 1 \in Int /\ 0 \in Int
    BY <2>1
  <2>3. Cardinality(0 .. m - 1) = IF 0 > m - 1 THEN 0 ELSE (m - 1) - 0 + 1
    BY <2>2, FS_Interval
  <2>4. Cardinality(0 .. m - 1) = m
    BY <2>1, <2>3
  <2>5. QED
    BY <2>4 DEF m
<1>5. QED
  BY <1>2, <1>4, OffsetSums

\* A set of numbers has a least one.
LEMMA LeastNumber ==
  ASSUME NEW S \in SUBSET Nat, S # {}
  PROVE  \E x \in S : \A y \in S : x <= y
<1>1. IsWellFoundedOn(OpToRel(<, Nat), Nat)
  BY NatLessThanWellFounded
<1>2. PICK x \in S : \A y \in S : <<y, x>> \notin OpToRel(<, Nat)
  BY <1>1, WFMin
<1>3. \A y \in S : ~(y < x)
  BY <1>2 DEF OpToRel
<1>4. QED
  BY <1>3

\* The k-points that a pool gets.
KPointsOf(i) == mpiOffsetskPoints(i) .. mpiOffsetskPoints(i) + sendSizekPoints(i) - 1

\* The shares of the pools (generateMPGrid) have every k-point exactly once, for every
\* number of k-points and of pools, whatever is left over by the division.
THEOREM EveryKPointInOnePool ==
  ASSUME params \in ParametersType, NEW k \in 0 .. params.kPoints - 1
  PROVE  \E i \in 0 .. params.npool - 1 : \A j \in 0 .. params.npool - 1 :
           k \in KPointsOf(j) <=> j = i
<1> DEFINE off(i) == Share * i + Minimum(i, Extra)
           n == params.npool
<1>1. /\ Share \in Nat /\ Extra \in Nat /\ Extra < n /\ n \in Nat \ {0} /\ k \in Nat
      /\ k < n * Share + Extra
  BY ShareFacts
<1>2. \A i \in Nat : off(i) \in Nat
  BY <1>1 DEF Minimum
<1>3. \A i \in Nat : off(i + 1) = off(i) + sendSizekPoints(i)
  <2> SUFFICES ASSUME NEW i \in Nat PROVE off(i + 1) = off(i) + sendSizekPoints(i)
    OBVIOUS
  <2>1. Share * (i + 1) = Share * i + Share /\ Share * i \in Int
    BY <1>1
  <2>2. Minimum(i + 1, Extra) = Minimum(i, Extra) + (IF i < Extra THEN 1 ELSE 0)
    BY <1>1 DEF Minimum
  <2>3. Minimum(i, Extra) \in Int
    BY <1>1 DEF Minimum
  <2>4. sendSizekPoints(i) = Share + (IF i < Extra THEN 1 ELSE 0)
    BY ShareFacts
  <2>5. QED
    BY <2>1, <2>2, <2>3, <2>4, <1>1
<1>4. \A i \in Nat, j \in Nat : i <= j => off(i) <= off(j)
  <2> SUFFICES ASSUME NEW i \in Nat, NEW j \in Nat, i <= j PROVE off(i) <= off(j)
    OBVIOUS
  <2>1. i * Share <= j * Share /\ i * Share = Share * i /\ j * Share = Share * j
        /\ Share * i \in Int /\ Share * j \in Int
    BY <1>1, MulMono
  <2>2. Minimum(i, Extra) <= Minimum(j, Extra) /\ Minimum(i, Extra) \in Int /\ Minimum(j, Extra) \in Int
    BY <1>1 DEF Minimum
  <2>3. QED
    BY <2>1, <2>2
<1>5. off(0) = 0 /\ k < off(n)
  BY <1>1 DEF Minimum
<1>6. \A i \in Nat : k \in KPointsOf(i) <=> off(i) <= k /\ k < off(i + 1)
  <2> SUFFICES ASSUME NEW i \in Nat
               PROVE  k \in KPointsOf(i) <=> off(i) <= k /\ k < off(i + 1)
    OBVIOUS
  <2>1. mpiOffsetskPoints(i) = off(i)
    BY OffsetsAre
  <2>2. off(i) \in Nat /\ off(i + 1) \in Nat /\ off(i + 1) = off(i) + sendSizekPoints(i)
    BY <1>2, <1>3
  <2>3. sendSizekPoints(i) \in Int
    BY ShareFacts
  <2> HIDE DEF off
  <2>4. QED
    BY <2>1, <2>2, <2>3, <1>1 DEF KPointsOf
<1> HIDE DEF off
<1>7. \E i \in 0 .. n - 1 : off(i) <= k /\ k < off(i + 1)
  <2> DEFINE beyond == {i \in Nat : k < off(i)}
  <2>1. beyond # {} /\ beyond \subseteq Nat
    BY <1>1, <1>5
  <2>2. PICK x \in beyond : \A y \in beyond : x <= y
    <3> HIDE DEF beyond
    <3>1. QED
      BY <2>1, LeastNumber
  <2>3. x \in Nat /\ x # 0 /\ k < off(x)
    BY <1>1, <1>5
  <2>4. x - 1 \in Nat /\ (x - 1) + 1 = x /\ x - 1 \notin beyond
    BY <2>2, <2>3
  <2>5. off(x - 1) <= k
    BY <2>4, <1>1, <1>2
  <2>6. x <= n
    <3>1. n \in beyond
      BY <1>1, <1>5
    <3>2. QED
      BY <2>2, <3>1
  <2>7. x - 1 \in 0 .. n - 1
    BY <2>3, <2>6, <1>1
  <2>8. QED
    BY <2>3, <2>4, <2>5, <2>7
<1>8. PICK i \in 0 .. n - 1 : off(i) <= k /\ k < off(i + 1)
  BY <1>7
<1>9. ASSUME NEW j \in 0 .. n - 1 PROVE k \in KPointsOf(j) <=> j = i
  <2>1. i \in Nat /\ j \in Nat /\ i + 1 \in Nat /\ j + 1 \in Nat
    OBVIOUS
  <2>2. j < i => off(j + 1) <= off(i)
    BY <2>1, <1>4
  <2>3. i < j => off(i + 1) <= off(j)
    BY <2>1, <1>4
  <2>4. off(i) \in Nat /\ off(j) \in Nat /\ off(i + 1) \in Nat /\ off(j + 1) \in Nat
    BY <2>1, <1>2
  <2>5. QED
    BY <2>1, <2>2, <2>3, <2>4, <1>1, <1>6, <1>8
<1>10. QED
  BY <1>8, <1>9

-----------------------------------------------------------------------------
\* The ranks with one place in all pools of k-points.

\* The place of a rank among ranks at equal distances.
LEMMA RankAtDistances ==
  ASSUME NEW a \in Int, NEW D \in Nat \ {0}, NEW G \in Nat \ {0}, NEW i \in 0 .. G - 1
  PROVE  RankIn({a + k * D : k \in 0 .. G - 1}, a + i * D) = i
<1> DEFINE m(k) == a + k * D
           Below == {q \in {m(k) : k \in 0 .. G - 1} : q < m(i)}
           f == [k \in 0 .. i - 1 |-> m(k)]
<1>1. \A k \in 0 .. G - 1, l \in 0 .. G - 1 : m(k) < m(l) <=> k < l
  <2> SUFFICES ASSUME NEW k \in 0 .. G - 1, NEW l \in 0 .. G - 1 PROVE m(k) < m(l) <=> k < l
    OBVIOUS
  <2>1. k * D \in Int /\ l * D \in Int
    OBVIOUS
  <2>2. k < l => k * D + D <= l * D
    BY MulStep
  <2>3. l <= k => l * D <= k * D
    BY MulMono
  <2>4. QED
    BY <2>1, <2>2, <2>3
<1>2. \A k \in 0 .. G - 1 : m(k) \in Int
  OBVIOUS
<1> HIDE DEF m
<1>3. Below = {m(k) : k \in 0 .. i - 1}
  BY <1>1
<1>4. f \in Bijection(0 .. i - 1, Below)
  <2>1. f \in [0 .. i - 1 -> Below]
    BY <1>3
  <2>2. \A k \in 0 .. i - 1, l \in 0 .. i - 1 : f[k] = f[l] => k = l
    BY <1>1, <1>2
  <2>3. \A q \in Below : \E k \in 0 .. i - 1 : f[k] = q
    BY <1>3
  <2>4. QED
    BY <2>1, <2>2, <2>3 DEF Bijection, Injection, Surjection, IsInjective
<1>5. IsFiniteSet(0 .. i - 1) /\ Cardinality(0 .. i - 1) = i
  <2>1. i - 1 \in Int /\ i \in Nat
    OBVIOUS
  <2>2. IsFiniteSet(0 .. i - 1) /\ Cardinality(0 .. i - 1) = IF 0 > i - 1 THEN 0 ELSE (i - 1) - 0 + 1
    BY <2>1, FS_Interval
  <2>3. QED
    BY <2>1, <2>2
<1>6. Cardinality(Below) = i
  BY <1>4, <1>5, FS_Bijection DEF ExistsBijection
<1>7. QED
  BY <1>6 DEF RankIn, m

\* The rank of pool i that has p's place.
Counterpart(p, i) == (p - FirstOf(p)) + i * kPointRanks

LEMMA CounterpartsAre ==
  ASSUME params \in ParametersType, Divides, NEW p \in Proc
  PROVE  /\ interpoolcomm(p) = {Counterpart(p, i) : i \in 0 .. params.npool - 1}
         /\ \A i \in 0 .. params.npool - 1 :
              /\ Counterpart(p, i) \in Proc
              /\ FirstOf(Counterpart(p, i)) = i * kPointRanks
         /\ \E i \in 0 .. params.npool - 1 : p = Counterpart(p, i)
<1> DEFINE K == kPointRanks
           N == params.npool
           place == p - FirstOf(p)
           c == p \div K
<1>1. /\ K \in Nat \ {0} /\ N \in Nat \ {0} /\ params.procs \in Nat \ {0} /\ N * K = params.procs
      /\ p \in Nat
  BY Grid DEF Proc
<1>2. FirstOf(p) \in Nat /\ FirstOf(p) <= p /\ p < FirstOf(p) + K /\ FirstOf(p) + K <= params.procs
  BY KPointPoolIs
<1>3. place \in 0 .. K - 1
  BY <1>1, <1>2
<1>4. FirstOf(p) = c * K /\ c \in Int /\ p = place + c * K
  <2>1. FirstOf(p) = c * K
    BY DEF FirstOf
  <2>2. c \in Int
    BY <1>1, DivBounds
  <2>3. QED
    BY <2>1, <2>2, <1>1, <1>2
<1>5. \A q \in Proc : q \in Nat /\ RankIn(Proc, q) = q
  <2> SUFFICES ASSUME NEW q \in Proc PROVE q \in Nat /\ RankIn(Proc, q) = q
    OBVIOUS
  <2>1. q \in 0 .. params.procs - 1 /\ params.procs - 1 \in Int /\ q \in Nat
    BY <1>1 DEF Proc
  <2>2. RankIn(0 .. params.procs - 1, q) = q - 0
    BY <2>1, RankInInterval
  <2>3. QED
    BY <2>1, <2>2 DEF Proc
<1>6. poolSize(Proc, N) = K
  <2>1. Cardinality(0 .. params.procs - 1) = params.procs
    <3>1. params.procs - 1 \in Int /\ 0 <= params.procs - 1
      BY <1>1
    <3>2. Cardinality(0 .. params.procs - 1) = (params.procs - 1) - 0 + 1
      BY <3>1, FS_Interval
    <3>3. QED
      BY <3>2, <1>1
  <2>2. QED
    BY <2>1 DEF poolSize, Proc, kPointRanks
<1>7. \A i \in Int : Counterpart(p, i) = place + i * K
  BY DEF Counterpart
<1>8. interpoolcomm(p) = {q \in Proc : q % K = p % K}
  BY <1>5, <1>6 DEF interpoolcomm, interpool
<1> HIDE DEF K, N, place, c
<1>9. ASSUME NEW i \in Int
      PROVE  (place + i * K) \div K = i /\ (place + i * K) % K = place
  <2>1. i * K \in Int /\ place + i * K \in Int
    BY <1>1, <1>3
  <2>2. (place + i * K) \div K = i
    BY <2>1, <1>1, <1>3, DivIs
  <2>3. (place + i * K) % K = (place + i * K) - i * K
    BY <2>1, <2>2, <1>1, DivBounds
  <2>4. QED
    BY <2>1, <2>2, <2>3, <1>3
<1>10. p % K = place
  BY <1>4, <1>9
<1>11. ASSUME NEW i \in 0 .. N - 1
       PROVE  place + i * K \in Proc /\ FirstOf(place + i * K) = i * K
  <2>1. i \in Int /\ i < N /\ 0 <= i
    BY <1>1
  <2>2. i * K + K <= N * K /\ i * K \in Int /\ 0 <= i * K
    <3>1. i * K + K <= N * K
      BY <2>1, <1>1, MulStep
    <3>2. i * K \in Int
      BY <2>1, <1>1
    <3>3. 0 * K <= i * K
      BY <2>1, <1>1, MulMono
    <3>4. QED
      BY <3>1, <3>2, <3>3, <1>1
  <2>3. place + i * K \in Proc
    BY <2>2, <1>1, <1>3 DEF Proc
  <2>4. FirstOf(place + i * K) = i * K
    BY <2>1, <1>9 DEF FirstOf, K
  <2>5. QED
    BY <2>3, <2>4
<1>12. ASSUME NEW q \in Proc, q % K = place
       PROVE  \E i \in 0 .. N - 1 : q = place + i * K
  <2> DEFINE i == q \div K
  <2>1. q \in Nat /\ q < params.procs
    BY <1>1 DEF Proc
  <2>2. i \in Int /\ i * K <= q /\ q < i * K + K /\ (q % K) = q - i * K
    <3>1. q \in Int /\ K \in Nat \ {0}
      BY <2>1, <1>1
    <3>2. /\ q \div K \in Int /\ (q \div K) * K <= q /\ q < (q \div K) * K + K
          /\ q % K = q - (q \div K) * K
      BY <3>1, DivBounds
    <3>3. QED
      BY <3>2
  <2> HIDE DEF i
  <2>3. i * K \in Int /\ q = place + i * K
    BY <2>1, <2>2, <1>1, <1>3, <1>12
  <2>4. 0 <= i
    <3> SUFFICES ASSUME i < 0 PROVE FALSE
      BY <2>2
    <3>1. i * K + K <= 0 * K
      BY <2>2, <1>1, MulStep
    <3>2. QED
      BY <3>1, <2>1, <2>2, <2>3, <1>1
  <2>5. i < N
    <3> SUFFICES ASSUME N <= i PROVE FALSE
      BY <2>2, <1>1
    <3>1. N * K <= i * K
      BY <2>2, <1>1, MulMono
    <3>2. QED
      BY <3>1, <2>1, <2>2, <2>3, <1>1
  <2>6. QED
    BY <2>2, <2>3, <2>4, <2>5, <1>1
<1>13. interpoolcomm(p) = {place + i * K : i \in 0 .. N - 1}
  BY <1>8, <1>9, <1>10, <1>11, <1>12
<1>14. 0 .. N - 1 \subseteq Int
  OBVIOUS
<1>15. interpoolcomm(p) = {Counterpart(p, i) : i \in 0 .. N - 1}
  BY <1>7, <1>13, <1>14
<1>16. \E i \in 0 .. N - 1 : p = place + i * K
  BY <1>10, <1>12
<1>17. QED
  BY <1>7, <1>11, <1>14, <1>15, <1>16 DEF N, K

\* These ranks are one of each pool, know the same communicator, and are of one band group.
LEMMA OneOfEachPool ==
  ASSUME params \in ParametersType, Divides, NEW p \in Proc
  PROVE  /\ interpoolcomm(p) \subseteq Proc /\ IsFiniteSet(interpoolcomm(p)) /\ p \in interpoolcomm(p)
         /\ RankIn(interpoolcomm(p), p) \in 0 .. params.npool - 1
         /\ \A q \in interpoolcomm(p) :
              /\ interpoolcomm(q) = interpoolcomm(p)
              /\ bandGroupTaskId(q) = bandGroupTaskId(p)
         /\ \A i \in 0 .. params.npool - 1 :
              \E q \in interpoolcomm(p) : \A r \in interpoolcomm(p) :
                RankIn(interpoolcomm(r), r) = i <=> r = q
<1> DEFINE K == kPointRanks
           N == params.npool
           Pools == 0 .. N - 1
           comm == interpoolcomm(p)
<1>1. /\ K \in Nat \ {0} /\ N \in Nat \ {0} /\ p \in Nat
  BY Grid DEF Proc
<1>2. FirstOf(p) \in Nat
  BY KPointPoolIs
<1>3. /\ comm = {Counterpart(p, i) : i \in Pools}
      /\ \A i \in Pools : Counterpart(p, i) \in Proc /\ FirstOf(Counterpart(p, i)) = i * K
      /\ \E i \in Pools : p = Counterpart(p, i)
  BY CounterpartsAre
<1>4. \A i \in Pools : Counterpart(p, i) = (p - FirstOf(p)) + i * K
  BY DEF Counterpart
<1> HIDE DEF K
<1>5. \A i \in Pools : Counterpart(p, i) - FirstOf(Counterpart(p, i)) = p - FirstOf(p)
  <2> SUFFICES ASSUME NEW i \in Pools
               PROVE  Counterpart(p, i) - FirstOf(Counterpart(p, i)) = p - FirstOf(p)
    OBVIOUS
  <2>1. i * K \in Int
    BY <1>1
  <2>2. QED
    BY <2>1, <1>1, <1>2, <1>3, <1>4
<1>6. \A q \in comm : q \in Proc /\ q - FirstOf(q) = p - FirstOf(p)
  BY <1>3, <1>5
<1>7. \A q \in comm : interpoolcomm(q) = comm
  <2> SUFFICES ASSUME NEW q \in comm PROVE interpoolcomm(q) = comm
    OBVIOUS
  <2>1. interpoolcomm(q) = {Counterpart(q, i) : i \in Pools}
    BY <1>6, CounterpartsAre
  <2>2. \A i \in Pools : Counterpart(q, i) = Counterpart(p, i)
    BY <1>6 DEF Counterpart
  <2>3. QED
    BY <2>1, <2>2, <1>3
<1>8. \A i \in Pools : RankIn(comm, Counterpart(p, i)) = i
  <2> SUFFICES ASSUME NEW i \in Pools PROVE RankIn(comm, Counterpart(p, i)) = i
    OBVIOUS
  <2> DEFINE a == p - FirstOf(p)
  <2>1. a \in Int
    BY <1>1, <1>2
  <2>2. Counterpart(p, i) = a + i * K /\ comm = {a + k * K : k \in 0 .. N - 1}
    BY <1>3, <1>4
  <2> HIDE DEF a, comm
  <2>3. QED
    BY <2>1, <2>2, <1>1, RankAtDistances
<1>9. \A i \in Pools : \E q \in comm : \A r \in comm : RankIn(interpoolcomm(r), r) = i <=> r = q
  <2> SUFFICES ASSUME NEW i \in Pools
               PROVE  \E q \in comm : \A r \in comm : RankIn(interpoolcomm(r), r) = i <=> r = q
    OBVIOUS
  <2>1. Counterpart(p, i) \in comm
    BY <1>3
  <2>2. ASSUME NEW r \in comm
        PROVE  RankIn(interpoolcomm(r), r) = i <=> r = Counterpart(p, i)
    <3>1. PICK k \in Pools : r = Counterpart(p, k)
      BY <1>3
    <3>2. interpoolcomm(r) = comm
      BY <1>7
    <3>3. RankIn(comm, r) = k /\ RankIn(comm, Counterpart(p, i)) = i
      BY <3>1, <1>8
    <3> HIDE DEF comm, Pools
    <3>4. QED
      BY <3>1, <3>2, <3>3
  <2> HIDE DEF comm
  <2>3. QED
    BY <2>1, <2>2
<1>10. RankIn(comm, p) \in Pools
  BY <1>3, <1>8
<1>11. IsFiniteSet(comm) /\ comm \subseteq Proc
  <2>1. comm \subseteq Proc
    BY <1>6
  <2>2. IsFiniteSet(Proc)
    <3>1. params.procs - 1 \in Int
      BY Grid
    <3>2. QED
      BY <3>1, FS_Interval DEF Proc
  <2>3. QED
    BY <2>1, <2>2, FS_Subset
<1>12. ASSUME NEW q \in comm PROVE bandGroupTaskId(q) = bandGroupTaskId(p)
  <2> DEFINE G == params.nbandGrps
             D == DomainRanks
  <2>1. q \in Proc /\ q - FirstOf(q) = p - FirstOf(p) /\ q \in Nat /\ FirstOf(q) \in Nat
    BY <1>6, KPointPoolIs, Grid DEF Proc
  <2>2. PICK i \in 0 .. G - 1 : p = Member(p, i)
    BY OneOfEachGroup
  <2>3. PICK k \in 0 .. G - 1 : q = Member(q, k)
    BY <2>1, OneOfEachGroup
  <2>4. PlaceIn(q) = PlaceIn(p) /\ PlaceIn(p) \in Int /\ D \in Nat \ {0}
    BY <2>1, <1>1, <1>2, Grid DEF PlaceIn
  <2>5. i * D = k * D
    <3>1. p = FirstOf(p) + PlaceIn(p) + i * D
      BY <2>2 DEF Member
    <3>2. q = FirstOf(q) + PlaceIn(q) + k * D
      BY <2>3 DEF Member
    <3>3. i * D \in Int /\ k * D \in Int
      BY <2>4
    <3> HIDE DEF D
    <3>4. QED
      BY <3>1, <3>2, <3>3, <2>1, <2>4, <1>1, <1>2
  <2>6. i = k
    <3> HIDE DEF D
    <3>1. i \in Int /\ k \in Int
      OBVIOUS
    <3>2. i < k => i * D + D <= k * D
      BY <3>1, <2>4, MulStep
    <3>3. k < i => k * D + D <= i * D
      BY <3>1, <2>4, MulStep
    <3>4. i * D \in Int
      BY <3>1, <2>4
    <3>5. QED
      BY <3>1, <3>2, <3>3, <3>4, <2>4, <2>5
  <2>7. bandGroupTaskId(Member(p, i)) = i
    BY OneOfEachGroup
  <2>8. bandGroupTaskId(Member(q, k)) = k
    BY <2>1, OneOfEachGroup
  <2>9. QED
    BY <2>2, <2>3, <2>6, <2>7, <2>8
<1>13. p \in comm
  BY <1>3
<1>14. QED
  BY <1>7, <1>9, <1>10, <1>11, <1>12, <1>13

-----------------------------------------------------------------------------
\* The density.

\* The end of a block of the density loop is that of a band.
LEMMA DensityBlockEndType ==
  ASSUME Sizes, NEW b \in Band
  PROVE  DensityBlockEnd(b) \in 1 .. bands
<1> DEFINE v == vectorsBlockSize
           k == b \div v
           G == params.nbandGrps
           s == bands \div G
<1>1. /\ bands \in Nat \ {0} /\ v \in Nat \ {0} /\ b \in Nat /\ b < bands
      /\ G \in Nat \ {0} /\ s \in Nat \ {0}
  BY SizesType DEF Band, Sizes, ParametersType
<1>2. DensityBlockEnd(b) = IF params.useDevice THEN (k + 1) * v ELSE Minimum((k + 1) * v, bands)
  BY DEF DensityBlockEnd
<1> HIDE DEF v
<1>3. k \in Int /\ k * v <= b /\ b < k * v + v /\ k * v \in Int
  BY <1>1, DivBounds
<1> HIDE DEF k
<1>4. (k + 1) * v = k * v + v
  BY <1>1, <1>3
<1>5. CASE params.useDevice
  <2>1. G * s = bands /\ s % v = 0
    BY <1>5, DeviceSizes DEF v
  <2> HIDE DEF G, s
  <2>2. bands % v = 0
    <3>1. s \in Int /\ G \in Int /\ s % v = 0
      BY <2>1, <1>1
    <3>2. (G * s) % v = 0
      BY <3>1, <1>1, MultipleOfMultiple
    <3>3. QED
      BY <3>2, <2>1
  <2>3. (k * v) % v = 0
    BY <1>1, <1>3, MulMod
  <2>4. k * v + v <= bands
    <3> DEFINE x == k * v
    <3>1. x \in Int /\ x % v = 0 /\ x < bands /\ bands \in Int /\ v \in Nat \ {0}
      BY <2>3, <1>1, <1>3
    <3> HIDE DEF x
    <3>2. x + v <= bands
      BY <3>1, <2>2, MultipleGap
    <3>3. QED
      BY <3>2 DEF x
  <2>5. QED
    BY <2>4, <1>1, <1>2, <1>3, <1>4, <1>5
<1>6. CASE ~ params.useDevice
  BY <1>1, <1>2, <1>3, <1>4, <1>6 DEF Minimum
<1>7. QED
  BY <1>5, <1>6

States == (0 .. params.kPoints - 1) \X Band
PoolOf(p) == RankIn(interpoolcomm(p), p)
Owns(p, b) == InOwnGroup(p, DensityBlockEnd(b))

\* A rank that solves has the k-points of its pool.
SharesInv ==
  \A p \in Proc : pc[p] \in {"solve"} \cup Solving \cup Ended =>
    d_kPoints[p] = [first |-> mpiOffsetskPoints(PoolOf(p)), number |-> sendSizekPoints(PoolOf(p))]

\* What each sum leaves of the density: a rank has added up its band group's share of its
\* pool's k-points, then of all k-points, then all states.
OfItsPool(p) ==
  [s \in States |-> IF s[1] \in KPointsOf(PoolOf(p)) /\ Owns(p, s[2]) THEN 1 ELSE 0]
OfItsBands(p) == [s \in States |-> IF Owns(p, s[2]) THEN 1 ELSE 0]
OfAll == [s \in States |-> 1]

Summed(p, at) ==
  IF at = "sumPools" THEN OfItsPool(p) ELSE IF at = "sumBandGroups" THEN OfItsBands(p) ELSE OfAll

Summing == {"sumPools", "sumBandGroups", "done"}

RhoInv == \A p \in Proc : pc[p] \in Summing => rhoValues[p] = Summed(p, pc[p])

LEMMA SummedIs ==
  /\ \A p : DOMAIN OfItsPool(p) = States /\ DOMAIN OfItsBands(p) = States
  /\ \A p, s : s \in States =>
       /\ OfItsPool(p)[s] = IF s[1] \in KPointsOf(PoolOf(p)) /\ Owns(p, s[2]) THEN 1 ELSE 0
       /\ OfItsBands(p)[s] = IF Owns(p, s[2]) THEN 1 ELSE 0
  /\ \A p : /\ Summed(p, "sumPools") = OfItsPool(p)
            /\ Summed(p, "sumBandGroups") = OfItsBands(p)
            /\ Summed(p, "done") = OfAll
BY DEF OfItsPool, OfItsBands, Summed

LEMMA SameGrid ==
  ASSUME params' = params
  PROVE  /\ States' = States
         /\ \A p : PoolOf(p)' = PoolOf(p)
         /\ \A i : /\ mpiOffsetskPoints(i)' = mpiOffsetskPoints(i)
                   /\ sendSizekPoints(i)' = sendSizekPoints(i)
                   /\ KPointsOf(i)' = KPointsOf(i)
         /\ \A p, b : Owns(p, b)' <=> Owns(p, b)
         /\ \A p, at : Summed(p, at)' = Summed(p, at)
<1>1. Proc' = Proc /\ Band' = Band /\ bands' = bands /\ vectorsBlockSize' = vectorsBlockSize
  BY SameParams
<1>2. States' = States
  BY <1>1 DEF States
<1>3. \A p : PoolOf(p)' = PoolOf(p)
  BY <1>1 DEF PoolOf, interpoolcomm
<1>4. \A i : sendSizekPoints(i)' = sendSizekPoints(i)
  BY DEF sendSizekPoints
<1>5. \A i : mpiOffsetskPoints(i)' = mpiOffsetskPoints(i)
  BY <1>4 DEF mpiOffsetskPoints, MapThenSumSet, MapThenFoldSet, sendSizekPoints
<1>6. \A i : KPointsOf(i)' = KPointsOf(i)
  BY <1>4, <1>5 DEF KPointsOf
<1>7. \A b : DensityBlockEnd(b)' = DensityBlockEnd(b)
  BY <1>1 DEF DensityBlockEnd
<1>8. \A p, b : Owns(p, b)' <=> Owns(p, b)
  BY <1>7, SameParams DEF Owns
<1>9. ASSUME NEW p
      PROVE  OfItsPool(p)' = OfItsPool(p) /\ OfItsBands(p)' = OfItsBands(p)
  <2>1. KPointsOf(PoolOf(p))' = KPointsOf(PoolOf(p))
    BY <1>3, <1>4, <1>5 DEF KPointsOf
  <2>2. \A b : Owns(p, b)' <=> Owns(p, b)
    BY <1>8
  <2>3. QED
    BY <2>1, <2>2, <1>2 DEF OfItsPool, OfItsBands
<1>10. \A p, at : Summed(p, at)' = Summed(p, at)
  BY <1>2, <1>9 DEF Summed, OfAll
<1>11. QED
  BY <1>2, <1>3, <1>4, <1>5, <1>6, <1>8, <1>10

\* Where the ranks may go in a step.
LEMMA Places ==
  ASSUME IInv, [Next]_vars
  PROVE  /\ set \/ params' = params
         /\ Proc' = Proc
         /\ \A q \in Proc :
              \/ pc'[q] = pc[q]
              \/ pc'[q] \notin {"solve"} \cup Solving \cup Ended
              \/ pc[q] \in {"solve"} \cup Solving /\ pc'[q] \in Solving \cup {"computeRho"}
              \/ \E p \in Proc : generateMPGrid(p)
              \/ computeRho \/ \E p \in Proc : SumOverPools(p) \/ SumOverBandGroups(p)
<1>1. set \/ params' = params
  BY DEF Next, vars, Pool, computeRho, CheckParameters, generateMPGrid, BeginSolve, chebyshevFilter,
     setZero, SetBlock, Allreduce, SumOverPools, SumOverBandGroups, SumRho
<1>2. Proc' = Proc
  <2>1. CASE set
    <3>1. params'.procs = params.procs
      BY <2>1, AutoSizes DEF set, IInv, TypeOK
    <3>2. QED
      BY <3>1 DEF Proc
  <2>2. QED
    BY <1>1, <2>1, SameParams
<1>3. ASSUME NEW q \in Proc
      PROVE  \/ pc'[q] = pc[q]
             \/ pc'[q] \notin {"solve"} \cup Solving \cup Ended
             \/ pc[q] \in {"solve"} \cup Solving /\ pc'[q] \in Solving \cup {"computeRho"}
             \/ \E p \in Proc : generateMPGrid(p)
             \/ computeRho \/ \E p \in Proc : SumOverPools(p) \/ SumOverBandGroups(p)
  <2>1. CASE Pool \/ set \/ \E p \in Proc : CheckParameters(p)
    BY <2>1 DEF Pool, set, CheckParameters, Goto, GotoIf, Solving, Ended
  <2>2. ASSUME NEW p \in Proc, BeginSolve(p)
        PROVE  \/ pc'[q] = pc[q]
               \/ pc'[q] = "threw"
               \/ pc[q] = "solve" /\ pc'[q] = "filter"
    BY <2>2 DEF BeginSolve, Goto
  <2>3. ASSUME NEW p \in Proc, chebyshevFilter(p) \/ setZero(p)
        PROVE  \/ pc'[q] = pc[q]
               \/ pc[q] = "filter" /\ pc'[q] = "Allreduce"
    BY <2>3 DEF chebyshevFilter, setZero, SetBlock, InBlockLoop
  <2>4. ASSUME NEW p \in Proc, Allreduce(p)
        PROVE  \/ pc'[q] = pc[q]
               \/ pc[q] = "Allreduce" /\ pc'[q] \in {"filter", "computeRho"}
    <3> DEFINE comm == interBandGroupComm(p)
    <3>1. /\ AllAt(comm, "Allreduce")
          /\ pc' = [r \in Proc |->
               IF r \notin comm THEN pc[r]
               ELSE IF kPoint'[r] < d_kPoints[r].number THEN "filter" ELSE "computeRho"]
      BY <2>4 DEF Allreduce
    <3> HIDE DEF comm
    <3>2. QED
      BY <3>1 DEF AllAt
  <2>5. CASE UNCHANGED vars
    BY <2>5 DEF vars
  <2>6. /\ "threw" \notin {"solve"} \cup Solving \cup Ended
        /\ "filter" \in Solving /\ "Allreduce" \in Solving
    BY DEF Solving, Ended
  <2>7. QED
    BY <2>1, <2>2, <2>3, <2>4, <2>5, <2>6 DEF Next
<1>4. QED
  BY <1>1, <1>2, <1>3

LEMMA SharesStep == IInv /\ SharesInv /\ [Next]_vars => SharesInv'
<1> SUFFICES ASSUME IInv, SharesInv, [Next]_vars PROVE SharesInv'
  OBVIOUS
<1> DEFINE Late == {"solve"} \cup Solving \cup Ended
<1>1. CASE set
  <2>1. \A q \in Proc : pc'[q] = "generateMPGrid"
    BY <1>1 DEF set, Goto
  <2>2. "generateMPGrid" \notin Late /\ Proc' = Proc
    BY Places DEF Solving, Ended
  <2>3. QED
    BY <2>1, <2>2 DEF SharesInv
<1>2. ASSUME NEW p \in Proc, generateMPGrid(p) PROVE SharesInv'
  <2> DEFINE comm == interpoolcomm(p)
  <2>1. /\ params' = params /\ AllAt(comm, "generateMPGrid")
        /\ \/ Goto(comm, "threw") /\ d_kPoints' = d_kPoints
           \/ /\ Goto(comm, "solve")
              /\ d_kPoints' = [q \in Proc |->
                   IF q \in comm THEN [first |-> mpiOffsetskPoints(RankIn(comm, q)),
                                       number |-> sendSizekPoints(RankIn(comm, q))]
                   ELSE d_kPoints[q]]
    BY <1>2 DEF generateMPGrid
  <2>2. Divides /\ params \in ParametersType
    <3>1. p \in comm
      BY DEF interpoolcomm, interpool
    <3>2. pc[p] = "generateMPGrid"
      BY <2>1, <3>1 DEF AllAt
    <3>3. QED
      BY <3>2 DEF IInv, Rank, TypeOK, Undivided
  <2>3. \A q \in comm : q \in Proc /\ PoolOf(q) = RankIn(comm, q)
    BY <2>2, OneOfEachPool DEF PoolOf
  <2>4. Proc' = Proc /\ "threw" \notin Late
    BY Places DEF Solving, Ended
  <2>5. ASSUME NEW q \in Proc, pc'[q] \in Late
        PROVE  d_kPoints'[q] = [first |-> mpiOffsetskPoints(PoolOf(q)),
                                number |-> sendSizekPoints(PoolOf(q))]
    <3>1. CASE q \in comm
      BY <2>1, <2>3, <2>4, <2>5, <3>1 DEF Goto
    <3>2. CASE q \notin comm
      <4>1. pc'[q] = pc[q] /\ d_kPoints'[q] = d_kPoints[q]
        BY <2>1, <3>2 DEF Goto
      <4>2. QED
        BY <4>1, <2>5 DEF SharesInv
    <3>3. QED
      BY <3>1, <3>2
  <2> HIDE DEF comm
  <2>6. QED
    BY <2>1, <2>4, <2>5, SameGrid DEF SharesInv
<1>3. CASE ~ set /\ ~ \E p \in Proc : generateMPGrid(p)
  <2>1. d_kPoints' = d_kPoints
    BY <1>3 DEF Next, vars, Pool, computeRho, CheckParameters, BeginSolve, chebyshevFilter,
       setZero, SetBlock, Allreduce, SumOverPools, SumOverBandGroups, SumRho
  <2>2. params' = params /\ Proc' = Proc
    BY <1>3, Places
  <2>3. ASSUME NEW q \in Proc, pc'[q] \in Late PROVE pc[q] \in Late
    <3>1. computeRho => pc[q] = "computeRho"
      BY DEF computeRho, AllAt
    <3>2. ASSUME NEW p \in Proc, SumOverPools(p) \/ SumOverBandGroups(p)
          PROVE  pc'[q] = pc[q] \/ pc[q] \in {"sumPools", "sumBandGroups"}
      BY <3>2 DEF SumOverPools, SumOverBandGroups, SumRho, AllAt, Goto
    <3>3. {"computeRho", "sumPools", "sumBandGroups"} \subseteq Ended
      BY DEF Ended
    <3>4. QED
      BY <1>3, <2>3, <3>1, <3>2, <3>3, Places
  <2>4. QED
    BY <2>1, <2>2, <2>3, SameGrid DEF SharesInv
<1>4. QED
  BY <1>1, <1>2, <1>3

\* What SumRho does with the density.
LEMMA SumRhoIs ==
  ASSUME NEW comm, NEW from, NEW to, SumRho(comm, from, to)
  PROVE  /\ params' = params /\ AllAt(comm, from) /\ Goto(comm, to)
         /\ \A q \in Proc : rhoValues'[q] =
              IF q \in comm THEN [s \in DOMAIN rhoValues[q] |-> Total(comm, rhoValues, s)]
              ELSE rhoValues[q]
<1>1. rhoValues' = [q \in Proc |->
        IF q \in comm THEN [s \in DOMAIN rhoValues[q] |-> Total(comm, rhoValues, s)]
        ELSE rhoValues[q]]
  BY DEF SumRho, Total, MapThenSumSet, MapThenFoldSet
<1>2. QED
  BY <1>1 DEF SumRho

LEMMA ProcFinite == ASSUME params \in ParametersType PROVE IsFiniteSet(Proc)
<1>1. params.procs - 1 \in Int
  BY DEF ParametersType
<1>2. QED
  BY <1>1, FS_Interval DEF Proc

LEMMA SizesWhenEnded ==
  ASSUME IInv, NEW p \in Proc, pc[p] \in Ended
  PROVE  Sizes /\ params \in ParametersType /\ Divides
BY DEF IInv, Rank, TypeOK, Sizes, Ended, Undivided

\* The sum over the pools: the ranks of one place own the same bands, and one of them has
\* the k-point.
LEMMA PoolsSum ==
  ASSUME IInv, RhoInv, NEW p \in Proc, AllAt(interpoolcomm(p), "sumPools"), NEW s \in States
  PROVE  \A q \in interpoolcomm(p) :
           Total(interpoolcomm(p), rhoValues, s) = IF Owns(q, s[2]) THEN 1 ELSE 0
<1> DEFINE comm == interpoolcomm(p)
           one == Owns(p, s[2])
<1>1. Sizes /\ params \in ParametersType /\ Divides
  <2>1. p \in comm
    BY DEF interpoolcomm, interpool
  <2>2. pc[p] = "sumPools"
    BY <2>1 DEF AllAt
  <2>3. QED
    BY <2>2, SizesWhenEnded DEF Ended
<1>2. /\ comm \subseteq Proc /\ IsFiniteSet(comm)
      /\ \A q \in comm : interpoolcomm(q) = comm /\ bandGroupTaskId(q) = bandGroupTaskId(p)
      /\ \A i \in 0 .. params.npool - 1 :
           \E q \in comm : \A r \in comm : PoolOf(r) = i <=> r = q
  BY <1>1, OneOfEachPool DEF PoolOf
<1>3. \A r \in comm : PoolOf(r) \in 0 .. params.npool - 1
  BY <1>1, <1>2, OneOfEachPool DEF PoolOf
<1>4. \A r \in comm : Owns(r, s[2]) <=> one
  BY <1>2 DEF Owns, InOwnGroup
<1>5. s[1] \in 0 .. params.kPoints - 1
  BY DEF States
<1>6. PICK i \in 0 .. params.npool - 1 : \A j \in 0 .. params.npool - 1 :
        s[1] \in KPointsOf(j) <=> j = i
  BY <1>1, <1>5, EveryKPointInOnePool
<1>7. PICK m \in comm : \A r \in comm : PoolOf(r) = i <=> r = m
  BY <1>2
<1>8. \A r \in comm : s[1] \in KPointsOf(PoolOf(r)) <=> r = m
  BY <1>3, <1>6, <1>7
<1>9. \A r \in comm : rhoValues[r][s] =
        IF s[1] \in KPointsOf(PoolOf(r)) /\ Owns(r, s[2]) THEN 1 ELSE 0
  <2>1. \A r \in comm : rhoValues[r] = OfItsPool(r)
    BY <1>2, SummedIs DEF AllAt, RhoInv, Summing
  <2> HIDE DEF comm
  <2>2. QED
    BY <2>1, SummedIs
<1>10. one \in BOOLEAN
  BY DEF Owns, InOwnGroup, EndsInGroup
<1> HIDE DEF comm, one
<1>11. \A r \in comm : rhoValues[r][s] = IF r = m /\ one THEN 1 ELSE 0
  BY <1>4, <1>8, <1>9
<1>12. Total(comm, rhoValues, s) = IF one THEN 1 ELSE 0
  BY <1>2, <1>10, <1>11, SumOfOne
<1>13. \A q \in comm : Total(comm, rhoValues, s) = IF Owns(q, s[2]) THEN 1 ELSE 0
  BY <1>4, <1>12
<1>14. QED
  BY <1>13 DEF comm

\* The sum over the band groups: one of the ranks of one place owns the band.
LEMMA BandGroupsSum ==
  ASSUME IInv, RhoInv, NEW p \in Proc, AllAt(interBandGroupComm(p), "sumBandGroups"),
         NEW s \in States
  PROVE  Total(interBandGroupComm(p), rhoValues, s) = 1
<1> DEFINE comm == interBandGroupComm(p)
<1>1. p \in comm
  <2>1. p \in interpool(kPointPool(p), params.nbandGrps, p) <=> p \in kPointPool(p)
    BY DEF interpool
  <2>2. p \in kPointPool(p)
    BY DEF kPointPool, intrapool
  <2>3. QED
    BY <2>1, <2>2 DEF interBandGroupComm
<1>2. Sizes /\ params \in ParametersType /\ Divides
  BY <1>1, SizesWhenEnded DEF AllAt, Ended
<1>3. comm \subseteq Proc /\ IsFiniteSet(comm)
  BY <1>2, OneOfEachGroup, ProcFinite, FS_Subset
<1>4. s[2] \in Band
  BY DEF States
<1>5. DensityBlockEnd(s[2]) \in 1 .. bands
  BY <1>2, <1>4, DensityBlockEndType
<1>6. PICK m \in comm : \A k \in comm : Owns(k, s[2]) <=> k = m
  BY <1>2, <1>5, OneOwns DEF Owns
<1>7. \A r \in comm : rhoValues[r][s] = IF Owns(r, s[2]) THEN 1 ELSE 0
  <2>1. \A r \in comm : rhoValues[r] = OfItsBands(r)
    BY <1>3, SummedIs DEF AllAt, RhoInv, Summing
  <2> HIDE DEF comm
  <2>2. QED
    BY <2>1, SummedIs
<1> DEFINE one == TRUE
<1>8. one \in BOOLEAN /\ one
  OBVIOUS
<1> HIDE DEF comm, one
<1>9. \A r \in comm : rhoValues[r][s] = IF r = m /\ one THEN 1 ELSE 0
  BY <1>6, <1>7, <1>8
<1>10. Total(comm, rhoValues, s) = IF one THEN 1 ELSE 0
  BY <1>3, <1>8, <1>9, SumOfOne
<1>11. Total(comm, rhoValues, s) = 1
  BY <1>8, <1>10
<1>12. QED
  BY <1>11 DEF comm

LEMMA RhoStep == IInv /\ SharesInv /\ RhoInv /\ [Next]_vars => RhoInv'
<1> SUFFICES ASSUME IInv, SharesInv, RhoInv, [Next]_vars PROVE RhoInv'
  OBVIOUS
<1>1. SUFFICES ASSUME NEW q \in Proc, pc'[q] \in Summing
               PROVE  params' = params /\ rhoValues'[q] = Summed(q, pc'[q])
  <2>1. ASSUME NEW q \in Proc, pc'[q] \in Summing PROVE rhoValues'[q] = Summed(q, pc[q])'
    <3>1. PICK at : at = pc'[q]
      OBVIOUS
    <3>2. params' = params /\ rhoValues'[q] = Summed(q, at)
      BY <1>1, <2>1, <3>1
    <3>3. Summed(q, at)' = Summed(q, at)
      BY <3>2, SameGrid
    <3>4. QED
      BY <3>1, <3>2, <3>3
  <2>2. Proc' = Proc
    BY Places
  <2>3. QED
    BY <2>1, <2>2 DEF RhoInv, Summing
<1>2. CASE computeRho
  <2>1. /\ params' = params /\ pc[q] = "computeRho" /\ pc'[q] = "sumPools"
        /\ rhoValues'[q] = [s \in States |->
             IF /\ s[1] \in d_kPoints[q].first .. d_kPoints[q].first + d_kPoints[q].number - 1
                /\ Owns(q, s[2])
             THEN 1 ELSE 0]
    BY <1>2 DEF computeRho, AllAt, Goto, States, Owns
  <2>2. d_kPoints[q].first .. d_kPoints[q].first + d_kPoints[q].number - 1 = KPointsOf(PoolOf(q))
    <3>1. d_kPoints[q] = [first |-> mpiOffsetskPoints(PoolOf(q)), number |-> sendSizekPoints(PoolOf(q))]
      BY <2>1 DEF SharesInv, Ended
    <3>2. d_kPoints[q].first = mpiOffsetskPoints(PoolOf(q)) /\ d_kPoints[q].number = sendSizekPoints(PoolOf(q))
      BY <3>1
    <3>3. QED
      BY <3>2 DEF KPointsOf
  <2>3. rhoValues'[q] = OfItsPool(q)
    BY <2>1, <2>2 DEF OfItsPool
  <2>4. QED
    BY <2>1, <2>3, SummedIs
<1>3. ASSUME NEW p \in Proc, SumOverPools(p)
      PROVE  params' = params /\ rhoValues'[q] = Summed(q, pc'[q])
  <2> DEFINE comm == interpoolcomm(p)
  <2>1. /\ params' = params /\ AllAt(comm, "sumPools") /\ Goto(comm, "sumBandGroups")
        /\ rhoValues'[q] =
             IF q \in comm THEN [s \in DOMAIN rhoValues[q] |-> Total(comm, rhoValues, s)]
             ELSE rhoValues[q]
    BY <1>3, SumRhoIs DEF SumOverPools
  <2>2. CASE q \in comm
    <3>1. pc[q] = "sumPools" /\ pc'[q] = "sumBandGroups"
      BY <2>1, <2>2 DEF AllAt, Goto
    <3>2. DOMAIN rhoValues[q] = States
      BY <3>1, SummedIs DEF RhoInv, Summing
    <3>3. \A s \in States : Total(comm, rhoValues, s) = IF Owns(q, s[2]) THEN 1 ELSE 0
      BY <2>1, <2>2, PoolsSum
    <3> HIDE DEF comm
    <3>4. rhoValues'[q] = [s \in States |-> Total(comm, rhoValues, s)]
      BY <2>1, <2>2, <3>2
    <3>5. rhoValues'[q] = OfItsBands(q)
      BY <3>3, <3>4 DEF OfItsBands
    <3>6. QED
      BY <2>1, <3>1, <3>5, SummedIs
  <2>3. CASE q \notin comm
    <3>1. pc'[q] = pc[q] /\ rhoValues'[q] = rhoValues[q]
      BY <2>1, <2>3 DEF Goto
    <3>2. QED
      BY <1>1, <2>1, <3>1 DEF RhoInv
  <2>4. QED
    BY <2>2, <2>3
<1>4. ASSUME NEW p \in Proc, SumOverBandGroups(p)
      PROVE  params' = params /\ rhoValues'[q] = Summed(q, pc'[q])
  <2> DEFINE comm == interBandGroupComm(p)
  <2>1. /\ params' = params /\ AllAt(comm, "sumBandGroups") /\ Goto(comm, "done")
        /\ rhoValues'[q] =
             IF q \in comm THEN [s \in DOMAIN rhoValues[q] |-> Total(comm, rhoValues, s)]
             ELSE rhoValues[q]
    BY <1>4, SumRhoIs DEF SumOverBandGroups
  <2>2. CASE q \in comm
    <3>1. pc[q] = "sumBandGroups" /\ pc'[q] = "done"
      BY <2>1, <2>2 DEF AllAt, Goto
    <3>2. DOMAIN rhoValues[q] = States
      BY <3>1, SummedIs DEF RhoInv, Summing
    <3>3. \A s \in States : Total(comm, rhoValues, s) = 1
      BY <2>1, BandGroupsSum
    <3> HIDE DEF comm
    <3>4. rhoValues'[q] = OfAll
      BY <2>1, <2>2, <3>2, <3>3 DEF OfAll
    <3>5. QED
      BY <2>1, <3>1, <3>4, SummedIs
  <2>3. CASE q \notin comm
    <3>1. pc'[q] = pc[q] /\ rhoValues'[q] = rhoValues[q]
      BY <2>1, <2>3 DEF Goto
    <3>2. QED
      BY <1>1, <2>1, <3>1 DEF RhoInv
  <2>4. QED
    BY <2>2, <2>3
<1>5. CASE ~ computeRho /\ ~ \E p \in Proc : SumOverPools(p) \/ SumOverBandGroups(p)
  <2>1. rhoValues' = rhoValues
    BY <1>5 DEF Next, vars, Pool, set, CheckParameters, generateMPGrid, BeginSolve, chebyshevFilter,
       setZero, SetBlock, Allreduce
  <2>2. ~ set
    <3>1. set => pc'[q] = "generateMPGrid"
      BY DEF set, Goto
    <3>2. QED
      BY <1>1, <3>1 DEF Summing
  <2>3. ASSUME NEW p \in Proc, generateMPGrid(p) PROVE pc'[q] = pc[q]
    <3>1. Goto(interpoolcomm(p), "threw") \/ Goto(interpoolcomm(p), "solve")
      BY <2>3 DEF generateMPGrid
    <3>2. pc'[q] \in {"threw", "solve", pc[q]}
      BY <3>1 DEF Goto
    <3>3. QED
      BY <1>1, <3>2 DEF Summing
  <2>4. Summing \subseteq Ended /\ \A at \in Summing : at \notin Solving \cup {"computeRho"}
    BY DEF Ended, Solving, Summing
  <2>5. pc'[q] = pc[q]
    BY <1>1, <1>5, <2>3, <2>4, Places
  <2>6. params' = params
    BY <2>2, Places
  <2>7. QED
    BY <1>1, <2>1, <2>5, <2>6 DEF RhoInv
<1>6. QED
  BY <1>2, <1>3, <1>4, <1>5

\* Every rank that adds up the density has its k-points, and the sums over pools and band
\* groups leave what is claimed of them, in every order of the ranks.
THEOREM DensityInvariantHolds == Spec => [](SharesInv /\ RhoInv)
<1>1. Init => SharesInv /\ RhoInv
  BY DEF Init, SharesInv, RhoInv, Solving, Ended, Summing
<1>2. IInv /\ SharesInv /\ RhoInv /\ [Next]_vars => (SharesInv /\ RhoInv)'
  BY SharesStep, RhoStep
<1>3. QED
  BY <1>1, <1>2, InvariantHolds, PTL DEF Spec

\* The density that a rank ends with has every band of every k-point exactly once, for
\* every number of ranks, pools, band groups, k-points and bands, whatever is left over by
\* the three divisions (computeRho and the sums over the communicators of both pools).
THEOREM DensityHasEveryState == Spec => []DensityCountsEveryStateOnce
<1>1. RhoInv => DensityCountsEveryStateOnce
  <2> SUFFICES ASSUME RhoInv, NEW p \in Proc, pc[p] = "done",
                      NEW k \in 0 .. params.kPoints - 1, NEW b \in Band
               PROVE  rhoValues[p][k, b] = 1
    BY DEF DensityCountsEveryStateOnce
  <2>1. rhoValues[p] = [s \in States |-> 1]
    BY SummedIs DEF RhoInv, Summing, OfAll
  <2>2. <<k, b>> \in States
    BY DEF States
  <2>3. QED
    BY <2>1, <2>2
<1>2. QED
  BY <1>1, DensityInvariantHolds, PTL

-----------------------------------------------------------------------------
\* Which ranks meet in a collective call.

\* The ranks of a communicator know the same communicator.
LEMMA SameComms ==
  ASSUME params' = params
  PROVE  \A p : /\ interpoolcomm(p)' = interpoolcomm(p)
                /\ interBandGroupComm(p)' = interBandGroupComm(p)
                /\ mpi_communicator(p)' = mpi_communicator(p)
<1>1. Proc' = Proc
  BY SameParams
<1>2. \A p : kPointPool(p)' = kPointPool(p)
  BY <1>1 DEF kPointPool
<1>3. QED
  BY <1>1, <1>2 DEF interpoolcomm, interBandGroupComm, mpi_communicator

\* The number of a band group is that of its ranks before p in the pool.
LEMMA TaskIdIs ==
  ASSUME params \in ParametersType, Divides, NEW p \in Proc
  PROVE  bandGroupTaskId(p) = (p - FirstOf(p)) \div DomainRanks
<1> DEFINE D == DomainRanks
           r == PlaceIn(p)
           f == FirstOf(p)
<1>1. D \in Nat \ {0} /\ p \in Nat /\ f \in Nat
  BY Grid, KPointPoolIs DEF Proc
<1>2. r \in 0 .. D - 1
  BY <1>1 DEF PlaceIn
<1>3. PICK i \in 0 .. params.nbandGrps - 1 : p = Member(p, i)
  BY OneOfEachGroup
<1>4. bandGroupTaskId(p) = i
  BY <1>3, OneOfEachGroup
<1>5. p = f + r + i * D /\ i \in Int
  BY <1>3 DEF Member
<1> HIDE DEF D, r, f
<1>6. i * D \in Int
  BY <1>1, <1>5
<1>7. p - f = i * D + r
  BY <1>1, <1>2, <1>5, <1>6
<1>8. (i * D + r) \div D = i
  BY <1>1, <1>2, <1>5, DivIs
<1>9. QED
  BY <1>4, <1>7, <1>8 DEF D, f

\* The ranks of a domain are of one pool and one band group.
LEMMA DomainIs ==
  ASSUME params \in ParametersType, Divides, NEW p \in Proc
  PROVE  /\ p \in mpi_communicator(p)
         /\ \A q \in mpi_communicator(p) :
              /\ q \in Proc /\ FirstOf(q) = FirstOf(p)
              /\ bandGroupTaskId(q) = bandGroupTaskId(p)
              /\ mpi_communicator(q) = mpi_communicator(p)
<1> DEFINE S == kPointRanks
           D == DomainRanks
           f == FirstOf(p)
           c == p \div S
           I == f .. f + S - 1
<1>1. S \in Nat \ {0} /\ params.procs \in Nat
  BY Grid
<1>2. /\ f \in Nat /\ f <= p /\ p < f + S /\ f + S <= params.procs /\ p \in Nat
      /\ kPointPool(p) = I /\ poolSize(I, params.nbandGrps) = D
  BY KPointPoolIs, <1>1 DEF Proc
<1>3. f = c * S /\ c \in Int
  BY <1>1, <1>2, DivBounds DEF FirstOf
<1>4. p \in I
  BY <1>1, <1>2
<1>5. ASSUME NEW q \in I PROVE q \in Proc /\ FirstOf(q) = f
  <2>1. q \in Int /\ f <= q /\ q < f + S
    BY <1>1, <1>2
  <2> HIDE DEF f, S, c
  <2>2. q \in Proc
    BY <2>1, <1>1, <1>2 DEF Proc
  <2>3. q \div S = c
    BY <2>1, <1>1, <1>3, DivIs
  <2>4. QED
    BY <2>2, <2>3, <1>3 DEF FirstOf, S
<1>6. \A q \in I : RankIn(I, q) = q - f
  <2>1. f \in Int /\ f + S - 1 \in Int
    BY <1>1, <1>2
  <2>2. QED
    BY <2>1, RankInInterval
<1>7. ASSUME NEW q \in I
      PROVE  mpi_communicator(q) = {r \in I : (r - f) \div D = (q - f) \div D}
  <2>1. kPointPool(q) = I
    BY <1>5, KPointPoolIs
  <2> HIDE DEF I, f, D
  <2>2. mpi_communicator(q) = {r \in I : RankIn(I, r) \div D = RankIn(I, q) \div D}
    BY <2>1, <1>2 DEF mpi_communicator, intrapool
  <2>3. QED
    BY <2>2, <1>6
<1>8. \A q \in I : bandGroupTaskId(q) = (q - f) \div D
  BY <1>5, TaskIdIs
<1> HIDE DEF I, f, D
<1>9. \A q \in mpi_communicator(p) :
        q \in I /\ (q - f) \div D = (p - f) \div D
  BY <1>4, <1>7
<1>10. \A q \in mpi_communicator(p) : mpi_communicator(q) = mpi_communicator(p)
  BY <1>4, <1>7, <1>9
<1>11. p \in mpi_communicator(p)
  BY <1>4, <1>7
<1>12. QED
  BY <1>4, <1>5, <1>8, <1>9, <1>10, <1>11 DEF f

\* The ranks of all band groups at one place are of one pool.
LEMMA BandGroupsAre ==
  ASSUME params \in ParametersType, Divides, NEW p \in Proc
  PROVE  /\ p \in interBandGroupComm(p)
         /\ \A q \in interBandGroupComm(p) :
              /\ q \in Proc /\ FirstOf(q) = FirstOf(p)
              /\ interBandGroupComm(q) = interBandGroupComm(p)
<1> DEFINE Groups == 0 .. params.nbandGrps - 1
<1>1. interBandGroupComm(p) = {Member(p, i) : i \in Groups}
  BY MembersAre
<1>2. p \in interBandGroupComm(p)
  BY <1>1, OneOfEachGroup
<1>3. ASSUME NEW q \in interBandGroupComm(p)
      PROVE  /\ q \in Proc /\ FirstOf(q) = FirstOf(p)
             /\ interBandGroupComm(q) = interBandGroupComm(p)
  <2>1. q \in Proc /\ FirstOf(q) = FirstOf(p) /\ PlaceIn(q) = PlaceIn(p)
    BY <1>1, MembersAre
  <2>2. interBandGroupComm(q) = {Member(q, i) : i \in Groups}
    BY <2>1, MembersAre
  <2>3. \A i \in Groups : Member(q, i) = Member(p, i)
    BY <2>1 DEF Member
  <2>4. QED
    BY <2>1, <2>2, <2>3, <1>1
<1>4. QED
  BY <1>2, <1>3

\* The ranks of a pool agree which it is.
LEMMA SamePool ==
  ASSUME params \in ParametersType, Divides, NEW p \in Proc, NEW q \in Proc, FirstOf(q) = FirstOf(p)
  PROVE  PoolOf(q) = PoolOf(p)
<1> DEFINE K == kPointRanks
           Pools == 0 .. params.npool - 1
<1>1. K \in Nat \ {0} /\ params.npool \in Nat \ {0}
  BY Grid
<1>2. ASSUME NEW r \in Proc PROVE PoolOf(r) \in Pools /\ FirstOf(r) = PoolOf(r) * K
  <2> DEFINE a == r - FirstOf(r)
  <2>1. a \in Int
    <3>1. r \in Nat /\ FirstOf(r) \in Nat
      BY KPointPoolIs, Grid DEF Proc
    <3>2. QED
      BY <3>1
  <2>2. PICK i \in Pools : r = Counterpart(r, i)
    BY CounterpartsAre
  <2>3. FirstOf(r) = i * K
    BY <2>2, CounterpartsAre
  <2>4. r = a + i * K /\ interpoolcomm(r) = {a + k * K : k \in Pools}
    BY <2>2, CounterpartsAre DEF Counterpart
  <2> HIDE DEF a, K
  <2>5. RankIn({a + k * K : k \in Pools}, a + i * K) = i
    BY <2>1, <1>1, RankAtDistances
  <2>6. QED
    BY <2>3, <2>4, <2>5 DEF PoolOf
<1> DEFINE i == PoolOf(p)
           k == PoolOf(q)
<1>3. i \in Int /\ k \in Int /\ i * K = k * K
  BY <1>2, <1>1
<1> HIDE DEF i, k, K
<1>4. i < k => i * K + K <= k * K
  BY <1>1, <1>3, MulStep
<1>5. k < i => k * K + K <= i * K
  BY <1>1, <1>3, MulStep
<1>6. i * K \in Int
  BY <1>1, <1>3
<1>7. QED
  BY <1>1, <1>3, <1>4, <1>5, <1>6 DEF i, k

\* A communicator is that of each of its ranks: a rank of p's has the same part in any.
LEMMA Classes ==
  ASSUME params \in ParametersType, Divides, NEW p \in Proc, NEW r \in Proc
  PROVE  /\ \A q \in interpoolcomm(p) : q \in interpoolcomm(r) <=> p \in interpoolcomm(r)
         /\ \A q \in interBandGroupComm(p) :
              q \in interBandGroupComm(r) <=> p \in interBandGroupComm(r)
         /\ \A q \in mpi_communicator(p) : q \in mpi_communicator(r) <=> p \in mpi_communicator(r)
<1>1. \A x \in Proc : /\ x \in interpoolcomm(x) /\ interpoolcomm(x) \subseteq Proc
                      /\ \A y \in interpoolcomm(x) : interpoolcomm(y) = interpoolcomm(x)
  BY OneOfEachPool
<1>2. \A x \in Proc : /\ x \in interBandGroupComm(x)
                      /\ \A y \in interBandGroupComm(x) :
                           interBandGroupComm(y) = interBandGroupComm(x)
  BY BandGroupsAre
<1>3. \A x \in Proc : /\ x \in mpi_communicator(x)
                      /\ \A y \in mpi_communicator(x) : mpi_communicator(y) = mpi_communicator(x)
  BY DomainIs
<1>4. QED
  BY <1>1, <1>2, <1>3

-----------------------------------------------------------------------------
\* Where the other ranks may be when one is at a given place: no rank has passed a call of
\* all ranks that another has not reached, and none throws where another goes on.
Labels == Early \cup Solving \cup Ended
Scattered == Solving \cup {"computeRho"}
OnceSolving == IF ChecksPass THEN Scattered ELSE {"threw"}

Company(at) ==
  CASE at = "check_parameters" ->
         {"check_parameters", IF check_parameters THEN "Pool" ELSE "threw"}
    [] at = "Pool" -> {"check_parameters", "Pool"}
    [] at = "set" -> {"set"}
    [] at = "generateMPGrid" ->
         {"generateMPGrid"} \cup (IF params.kPoints < params.npool THEN {"threw"}
                                  ELSE {"solve"} \cup OnceSolving)
    [] at = "solve" -> {"generateMPGrid", "solve"} \cup OnceSolving
    [] at \in Scattered -> {"generateMPGrid", "solve"} \cup Scattered
    [] at \in Summing -> Summing
    [] at = "threw" -> {"check_parameters", "generateMPGrid", "solve", "threw"}

Together == \A p \in Proc, q \in Proc : pc[q] \in Company(pc[p])

\* What is where, once and for all.
LEMMA CompanyIs ==
  /\ Company("check_parameters") =
       {"check_parameters", IF check_parameters THEN "Pool" ELSE "threw"}
  /\ Company("Pool") = {"check_parameters", "Pool"}
  /\ Company("set") = {"set"}
  /\ Company("generateMPGrid") =
       {"generateMPGrid"} \cup (IF params.kPoints < params.npool THEN {"threw"}
                                ELSE {"solve"} \cup OnceSolving)
  /\ Company("solve") = {"generateMPGrid", "solve"} \cup OnceSolving
  /\ \A at \in Scattered : Company(at) = {"generateMPGrid", "solve"} \cup Scattered
  /\ \A at \in Summing : Company(at) = Summing
  /\ Company("threw") = {"check_parameters", "generateMPGrid", "solve", "threw"}
BY DEF Company, Scattered, Solving, Summing

LEMMA SameCompany ==
  ASSUME params' = params
  PROVE  /\ \A at : Company(at)' = Company(at)
         /\ check_parameters' <=> check_parameters
<1>1. ChecksPass' <=> ChecksPass
  BY SameParams
<1>2. check_parameters' <=> check_parameters
  BY DEF check_parameters
<1>3. OnceSolving' = OnceSolving
  BY <1>1 DEF OnceSolving
<1>4. QED
  BY <1>2, <1>3 DEF Company

\* The places between two calls of all ranks are alike.
LEMMA Alike ==
  ASSUME NEW at \in Labels,
         NEW S \in {Scattered, Summing}, NEW one \in S, NEW other \in S
  PROVE  Company(one) = Company(other) /\ (one \in Company(at) <=> other \in Company(at))
<1>1. Company(one) = Company(other)
  BY CompanyIs
<1>2. CASE at \in {"check_parameters", "Pool", "set", "threw"}
  BY <1>2, CompanyIs DEF Scattered, Solving, Summing
<1>3. CASE at \in {"generateMPGrid", "solve"}
  <2>1. one \in OnceSolving <=> other \in OnceSolving
    BY DEF OnceSolving, Scattered, Solving, Summing
  <2>2. one \notin {"generateMPGrid", "solve", "threw"} /\ other \notin {"generateMPGrid", "solve", "threw"}
    BY DEF Scattered, Solving, Summing
  <2>3. QED
    BY <1>3, <2>1, <2>2, CompanyIs
<1>4. CASE at \in Scattered
  BY <1>4, CompanyIs DEF Scattered, Solving, Summing
<1>5. CASE at \in Summing
  BY <1>5, CompanyIs DEF Scattered, Solving, Summing
<1>6. QED
  BY <1>1, <1>2, <1>3, <1>4, <1>5 DEF Labels, Early, Undivided, Solving, Ended, Scattered, Summing

\* Steps between two calls of all ranks change nothing of it.
LEMMA AlikeSteps ==
  ASSUME IInv, Together, params' = params, NEW S \in {Scattered, Summing},
         \A q \in Proc : pc'[q] = pc[q] \/ (pc[q] \in S /\ pc'[q] \in S)
  PROVE  Together'
<1>1. ASSUME NEW p \in Proc, NEW q \in Proc PROVE pc'[q] \in Company(pc'[p])
  <2>1. pc[p] \in Labels /\ pc[q] \in Labels /\ pc[q] \in Company(pc[p])
    BY DEF IInv, TypeOK, Together, Labels
  <2>2. Company(pc'[p]) = Company(pc[p])
    BY <2>1, Alike
  <2>3. pc'[q] \in Company(pc[p])
    BY <2>1, Alike
  <2>4. QED
    BY <2>2, <2>3
<1>2. QED
  BY <1>1, SameCompany, SameParams DEF Together

\* A step that takes the ranks of comm from one place to another, where they are company.
LEMMA MovesTogether ==
  ASSUME Together, params' = params, NEW comm, NEW label, Goto(comm, label),
         label \in Company(label),
         \A q \in Proc \ comm : pc[q] \in Company(label) /\ label \in Company(pc[q])
  PROVE  Together'
<1>1. ASSUME NEW p \in Proc, NEW q \in Proc PROVE pc'[q] \in Company(pc'[p])
  <2>1. /\ pc'[p] = IF p \in comm THEN label ELSE pc[p]
        /\ pc'[q] = IF q \in comm THEN label ELSE pc[q]
    BY DEF Goto
  <2>2. pc[q] \in Company(pc[p])
    BY DEF Together
  <2>3. QED
    BY <2>1, <2>2
<1>2. QED
  BY <1>1, SameCompany, SameParams DEF Together

LEMMA TogetherStep == IInv /\ Together /\ [Next]_vars => Together'
<1> SUFFICES ASSUME IInv, Together, [Next]_vars PROVE Together'
  OBVIOUS
<1>1. ASSUME NEW p \in Proc, CheckParameters(p) PROVE Together'
  <2> DEFINE label == IF check_parameters THEN "Pool" ELSE "threw"
  <2>1. pc[p] = "check_parameters" /\ Goto({p}, label) /\ params' = params
    BY <1>1 DEF CheckParameters, GotoIf
  <2>2. \A q \in Proc : pc[q] \in {"check_parameters", label}
    BY <2>1, CompanyIs DEF Together
  <2>3. /\ label \in Company(label) /\ "check_parameters" \in Company(label)
        /\ label \in Company("check_parameters")
    BY CompanyIs
  <2> HIDE DEF label
  <2>4. QED
    BY <2>1, <2>2, <2>3, MovesTogether
<1>2. ASSUME Pool PROVE Together'
  <2>1. PICK label \in {"set", "threw"} : Goto(Proc, label) /\ params' = params
    BY <1>2 DEF Pool, GotoIf
  <2>2. label \in Company(label)
    BY <2>1, CompanyIs
  <2>3. QED
    BY <2>1, <2>2, MovesTogether
<1>3. ASSUME set PROVE Together'
  <2>1. \A q \in Proc : pc'[q] = "generateMPGrid"
    BY <1>3 DEF set, Goto
  <2>2. Proc' = Proc
    BY Places
  <2>3. ("generateMPGrid" \in Company("generateMPGrid"))'
    BY DEF Company
  <2>4. QED
    BY <2>1, <2>2, <2>3 DEF Together
<1>4. ASSUME NEW p \in Proc, generateMPGrid(p) PROVE Together'
  <2> DEFINE comm == interpoolcomm(p)
  <2>1. p \in comm /\ AllAt(comm, "generateMPGrid") /\ params' = params
    BY <1>4 DEF generateMPGrid, interpoolcomm, interpool
  <2>2. pc[p] = "generateMPGrid" /\ \A q \in Proc : pc[q] \in Company("generateMPGrid")
    BY <2>1 DEF AllAt, Together
  <2>3. params.kPoints \in Nat /\ params.npool \in Nat
    BY DEF IInv, TypeOK, ParametersType
  <2>4. CASE params.kPoints < params.npool
    <3>1. Goto(comm, "threw")
      BY <1>4, <2>3, <2>4 DEF generateMPGrid
    <3>2. \A q \in Proc : pc[q] \in {"generateMPGrid", "threw"}
      BY <2>2, <2>4, CompanyIs
    <3>3. /\ "threw" \in Company("threw") /\ "generateMPGrid" \in Company("threw")
          /\ "threw" \in Company("generateMPGrid")
      BY <2>4, CompanyIs
    <3> HIDE DEF comm
    <3>4. QED
      BY <2>1, <3>1, <3>2, <3>3, MovesTogether
  <2>5. CASE params.kPoints >= params.npool
    <3>1. Goto(comm, "solve")
      BY <1>4, <2>3, <2>5 DEF generateMPGrid
    <3>2. Company("generateMPGrid") = {"generateMPGrid", "solve"} \cup OnceSolving
      BY <2>3, <2>5, CompanyIs
    <3>3. Company("solve") = {"generateMPGrid", "solve"} \cup OnceSolving
      BY CompanyIs
    <3>4. \A at \in OnceSolving : "solve" \in Company(at)
      BY CompanyIs DEF OnceSolving
    <3> HIDE DEF comm
    <3>5. QED
      BY <2>1, <2>2, <3>1, <3>2, <3>3, <3>4, MovesTogether
  <2>6. QED
    BY <2>3, <2>4, <2>5
<1>5. ASSUME NEW p \in Proc, BeginSolve(p) PROVE Together'
  <2> DEFINE label == IF ChecksPass THEN "filter" ELSE "threw"
  <2>1. pc[p] = "solve" /\ Goto({p}, label) /\ params' = params
    BY <1>5 DEF BeginSolve
  <2>2. \A q \in Proc : /\ pc[q] \in {"generateMPGrid", "solve"} \cup OnceSolving
                        /\ "solve" \in Company(pc[q])
    BY <2>1, CompanyIs DEF Together
  <2>3. label \in OnceSolving
    BY DEF OnceSolving, Scattered, Solving
  <2>4. \A at \in {"generateMPGrid", "solve"} \cup OnceSolving : at \in Company(label)
    BY CompanyIs DEF OnceSolving, Scattered, Solving
  <2>5. ASSUME NEW at \in {"generateMPGrid", "solve"} \cup OnceSolving, "solve" \in Company(at)
        PROVE  label \in Company(at)
    <3>1. CASE at = "generateMPGrid"
      <4>1. "solve" # "generateMPGrid" /\ "solve" # "threw"
        OBVIOUS
      <4>2. ~(params.kPoints < params.npool)
        BY <2>5, <3>1, <4>1, CompanyIs
      <4>3. QED
        BY <2>3, <3>1, <4>2, CompanyIs
    <3>2. CASE at = "solve"
      BY <2>3, <3>2, CompanyIs
    <3>3. CASE at \in OnceSolving
      BY <3>3, CompanyIs DEF OnceSolving, Scattered, Solving
    <3>4. QED
      BY <3>1, <3>2, <3>3
  <2> HIDE DEF label
  <2>6. QED
    BY <2>1, <2>2, <2>3, <2>4, <2>5, MovesTogether
<1>6. ASSUME NEW p \in Proc, chebyshevFilter(p) \/ setZero(p) PROVE Together'
  <2>1. \A q \in Proc : pc'[q] = pc[q] \/ (pc[q] = "filter" /\ pc'[q] = "Allreduce")
    BY <1>6 DEF chebyshevFilter, setZero, SetBlock, InBlockLoop
  <2>2. params' = params
    BY <1>6 DEF chebyshevFilter, setZero, SetBlock
  <2>3. "filter" \in Scattered /\ "Allreduce" \in Scattered
    BY DEF Scattered, Solving
  <2>4. QED
    BY <2>1, <2>2, <2>3, AlikeSteps
<1>7. ASSUME NEW p \in Proc, Allreduce(p) PROVE Together'
  <2> DEFINE comm == interBandGroupComm(p)
  <2>1. /\ AllAt(comm, "Allreduce") /\ params' = params
        /\ pc' = [r \in Proc |->
             IF r \notin comm THEN pc[r]
             ELSE IF kPoint'[r] < d_kPoints[r].number THEN "filter" ELSE "computeRho"]
    BY <1>7 DEF Allreduce
  <2> HIDE DEF comm
  <2>2. \A q \in Proc : \/ pc'[q] = pc[q]
                        \/ pc[q] = "Allreduce" /\ pc'[q] \in {"filter", "computeRho"}
    BY <2>1 DEF AllAt
  <2>3. {"filter", "Allreduce", "computeRho"} \subseteq Scattered
    BY DEF Scattered, Solving
  <2>4. QED
    BY <2>1, <2>2, <2>3, AlikeSteps
<1>8. ASSUME computeRho PROVE Together'
  <2>1. Goto(Proc, "sumPools") /\ params' = params
    BY <1>8 DEF computeRho
  <2>2. "sumPools" \in Company("sumPools")
    BY CompanyIs DEF Summing
  <2>3. QED
    BY <2>1, <2>2, MovesTogether
<1>9. ASSUME NEW p \in Proc, SumOverPools(p) \/ SumOverBandGroups(p) PROVE Together'
  <2>1. \A q \in Proc : pc'[q] = pc[q] \/ (pc[q] \in Summing /\ pc'[q] \in Summing)
    BY <1>9 DEF SumOverPools, SumOverBandGroups, SumRho, AllAt, Goto, Summing
  <2>2. params' = params
    BY <1>9 DEF SumOverPools, SumOverBandGroups, SumRho
  <2>3. QED
    BY <2>1, <2>2, AlikeSteps
<1>10. CASE UNCHANGED vars
  <2>1. params' = params /\ pc' = pc
    BY <1>10 DEF vars
  <2>2. QED
    BY <2>1, AlikeSteps
<1>11. QED
  BY <1>1, <1>2, <1>3, <1>4, <1>5, <1>6, <1>7, <1>8, <1>9, <1>10 DEF Next

-----------------------------------------------------------------------------
\* Where the block loop and the loop over the k-points end.
RoundsInv ==
  \A p \in Proc :
    /\ pc[p] = "filter" => jvec[p] < bands
    /\ pc[p] \in Ended => kPoint[p] = d_kPoints[p].number

LEMMA RoundsStep == IInv /\ RoundsInv /\ [Next]_vars => RoundsInv'
<1> SUFFICES ASSUME IInv, RoundsInv, [Next]_vars PROVE RoundsInv'
  OBVIOUS
<1> DEFINE Ok(q) == /\ pc'[q] = "filter" => jvec'[q] < bands
                    /\ pc'[q] \in Ended => kPoint'[q] = d_kPoints'[q].number
           Kept(q) == /\ kPoint'[q] = kPoint[q] /\ jvec'[q] = jvec[q]
                      /\ d_kPoints'[q] = d_kPoints[q]
<1>1. bands \in Nat \ {0}
  BY DEF IInv, TypeOK, ParametersType, bands
<1>2. Proc' = Proc
  BY Places
<1>3. ASSUME set PROVE RoundsInv'
  <2>1. \A q \in Proc : pc'[q] = "generateMPGrid"
    BY <1>3 DEF set, Goto
  <2>2. "generateMPGrid" \notin Ended
    BY DEF Ended
  <2>3. QED
    BY <1>2, <2>1, <2>2 DEF RoundsInv
<1>4. SUFFICES ASSUME ~ set, NEW q \in Proc PROVE Ok(q)
  <2>1. CASE ~ set
    <3>1. \A q \in Proc : Ok(q)
      BY <1>4, <2>1
    <3>2. bands' = bands
      BY <2>1, Places, SameParams
    <3>3. QED
      BY <3>1, <3>2, <1>2 DEF RoundsInv
  <2>2. QED
    BY <1>3, <2>1
<1>5. ASSUME Kept(q), pc'[q] = pc[q] \/ pc'[q] \in {"Pool", "threw", "set", "solve"} PROVE Ok(q)
  BY <1>5 DEF RoundsInv, Ended
<1>6. ASSUME Pool \/ \E p \in Proc : CheckParameters(p) PROVE Ok(q)
  <2>1. Kept(q)
    BY <1>6 DEF Pool, CheckParameters, loopVars
  <2>2. pc'[q] = pc[q] \/ pc'[q] \in {"Pool", "threw", "set"}
    BY <1>6 DEF Pool, CheckParameters, GotoIf, Goto
  <2>3. QED
    BY <1>5, <2>1, <2>2
<1>7. ASSUME NEW p \in Proc, generateMPGrid(p) PROVE Ok(q)
  <2> DEFINE comm == interpoolcomm(p)
  <2>1. CASE q \in comm
    <3>1. pc'[q] \in {"threw", "solve"}
      BY <1>7, <2>1 DEF generateMPGrid, Goto
    <3>2. QED
      BY <3>1 DEF Ended
  <2>2. CASE q \notin comm
    <3>1. Kept(q) /\ pc'[q] = pc[q]
      BY <1>7, <2>2 DEF generateMPGrid, Goto, loopVars
    <3>2. QED
      BY <1>5, <3>1
  <2>3. QED
    BY <2>1, <2>2
<1>8. ASSUME NEW p \in Proc, BeginSolve(p) PROVE Ok(q)
  <2>1. Kept(q) /\ (pc'[q] = pc[q] \/ pc'[q] = "threw" \/ (q = p /\ pc'[q] = "filter"))
    BY <1>8 DEF BeginSolve, Goto
  <2>2. CASE q = p /\ pc'[q] = "filter"
    <3>1. jvec[q] = 0
      BY <1>8, <2>2 DEF BeginSolve, IInv, Rank, Early
    <3>2. QED
      BY <1>1, <2>1, <2>2, <3>1 DEF Ended
  <2>3. QED
    BY <1>5, <2>1, <2>2
<1>9. ASSUME NEW comm \in SUBSET Proc, NEW value, SetBlock(comm, value),
             \A r \in comm : InBlockLoop(r)
      PROVE  Ok(q)
  <2>1. CASE q \in comm
    <3>1. pc[q] = "filter" /\ BlockEnd(q) \in Int
      BY <1>9, <2>1, InLoop DEF InBlockLoop, BlockIsWhole, BlockEnd
    <3>2. jvec'[q] = BlockEnd(q) /\ pc'[q] = IF BlockEnd(q) >= bands THEN "Allreduce" ELSE pc[q]
      BY <1>9, <2>1 DEF SetBlock
    <3>3. QED
      BY <1>1, <3>1, <3>2 DEF Ended
  <2>2. CASE q \notin comm
    <3>1. Kept(q) /\ pc'[q] = pc[q]
      BY <1>9, <2>2 DEF SetBlock
    <3>2. QED
      BY <1>5, <3>1
  <2>3. QED
    BY <2>1, <2>2
<1>10. ASSUME NEW p \in Proc, chebyshevFilter(p) \/ setZero(p) PROVE Ok(q)
  <2>1. CASE chebyshevFilter(p)
    <3>1. mpi_communicator(p) \in SUBSET Proc
      BY DEF mpi_communicator, intrapool, kPointPool
    <3>2. QED
      BY <2>1, <3>1, <1>9 DEF chebyshevFilter
  <2>2. CASE setZero(p)
    BY <2>2, <1>9 DEF setZero
  <2>3. QED
    BY <1>10, <2>1, <2>2
<1>11. ASSUME NEW p \in Proc, Allreduce(p) PROVE Ok(q)
  <2> DEFINE comm == interBandGroupComm(p)
  <2>1. /\ AllAt(comm, "Allreduce") /\ d_kPoints' = d_kPoints
        /\ kPoint'[q] = IF q \in comm THEN kPoint[q] + 1 ELSE kPoint[q]
        /\ pc'[q] = IF q \notin comm THEN pc[q]
                    ELSE IF kPoint'[q] < d_kPoints[q].number THEN "filter" ELSE "computeRho"
        /\ jvec'[q] = IF q \in comm THEN 0 ELSE jvec[q]
    BY <1>11 DEF Allreduce
  <2> HIDE DEF comm
  <2>2. CASE q \in comm
    <3>1. /\ kPoint[q] < d_kPoints[q].number /\ kPoint[q] \in Nat
          /\ d_kPoints[q].number \in Nat
      BY <2>1, <2>2 DEF AllAt, IInv, Rank, TypeOK, Solving
    <3>2. QED
      BY <1>1, <2>1, <2>2, <3>1 DEF Ended
  <2>3. CASE q \notin comm
    BY <2>1, <2>3, <1>5
  <2>4. QED
    BY <2>2, <2>3
<1>12. ASSUME computeRho \/ \E p \in Proc : SumOverPools(p) \/ SumOverBandGroups(p) PROVE Ok(q)
  <2>1. Kept(q)
    BY <1>12 DEF computeRho, SumOverPools, SumOverBandGroups, SumRho, loopVars
  <2>2. pc'[q] = pc[q] \/ (pc[q] \in Ended /\ pc'[q] \in Ended)
    BY <1>12 DEF computeRho, SumOverPools, SumOverBandGroups, SumRho, AllAt, Goto, Ended
  <2>3. "filter" \notin Ended
    BY DEF Ended
  <2>4. QED
    BY <2>1, <2>2, <2>3 DEF RoundsInv
<1>13. CASE UNCHANGED vars
  BY <1>13, <1>5 DEF vars
<1>14. QED
  BY <1>4, <1>6, <1>7, <1>8, <1>10, <1>11, <1>12, <1>13 DEF Next

-----------------------------------------------------------------------------
\* The ranks of a communicator make its calls together.
PoolsMeet ==
  Divides => \A p \in Proc : \A q \in interpoolcomm(p), at \in {"generateMPGrid", "sumPools"} :
    pc[q] = at <=> pc[p] = at

GroupsMeet ==
  Divides => \A p \in Proc : \A q \in interBandGroupComm(p) :
    kPoint[q] = kPoint[p] /\ (pc[q] = "done" <=> pc[p] = "done")

\* They have filtered the same blocks of their band group, though each sets those of the
\* others to zero by itself.
Passed(p, k, b) == kPoint[p] > k \/ (kPoint[p] = k /\ jvec[p] > b)

DomainsMeet ==
  Divides /\ ChecksPass => \A p \in Proc : \A q \in mpi_communicator(p), b \in Band, k \in Nat :
    InOwnGroup(p, EndOf(b)) => (Passed(q, k, b) <=> Passed(p, k, b))

LEMMA InComms ==
  \A p \in Proc : /\ interpoolcomm(p) \subseteq Proc
                  /\ interBandGroupComm(p) \subseteq Proc
                  /\ mpi_communicator(p) \subseteq Proc
BY DEF interpoolcomm, interBandGroupComm, mpi_communicator, kPointPool, interpool, intrapool

\* The sizes are set when no rank is in a loop.
LEMMA SetMeets ==
  ASSUME IInv, set
  PROVE  PoolsMeet' /\ GroupsMeet' /\ DomainsMeet'
<1>1. Proc' = Proc
  <2>1. [Next]_vars
    BY DEF Next
  <2>2. QED
    BY <2>1, Places
<1>2. \A q \in Proc : pc'[q] = "generateMPGrid" /\ kPoint'[q] = 0 /\ jvec'[q] = 0
  BY DEF set, Goto, AllAt, IInv, Rank, Early, loopVars
<1>3. \A p \in Proc : /\ interpoolcomm(p)' \subseteq Proc
                      /\ interBandGroupComm(p)' \subseteq Proc
                      /\ mpi_communicator(p)' \subseteq Proc
  BY <1>1 DEF interpoolcomm, interBandGroupComm, mpi_communicator, kPointPool, interpool, intrapool
<1>4. PoolsMeet'
  BY <1>1, <1>2, <1>3 DEF PoolsMeet
<1>5. GroupsMeet'
  BY <1>1, <1>2, <1>3 DEF GroupsMeet
<1>6. \A q \in Proc, k \in Nat, b \in Band' : ~ Passed(q, k, b)'
  <2>1. \A b \in Band' : b \in Int /\ b >= 0
    BY DEF Band
  <2>2. QED
    BY <1>2, <2>1 DEF Passed
<1>7. DomainsMeet'
  <2> SUFFICES ASSUME NEW p \in Proc, NEW q \in mpi_communicator(p)', NEW b \in Band', NEW k \in Nat
               PROVE  Passed(q, k, b)' <=> Passed(p, k, b)'
    BY <1>1 DEF DomainsMeet
  <2>1. QED
    BY <1>3, <1>6
<1>8. QED
  BY <1>4, <1>5, <1>7

LEMMA PoolsMeetStep == IInv /\ PoolsMeet /\ [Next]_vars => PoolsMeet'
<1> SUFFICES ASSUME IInv, PoolsMeet, [Next]_vars PROVE PoolsMeet'
  OBVIOUS
<1> DEFINE Places2 == {"generateMPGrid", "sumPools"}
<1>1. SUFFICES ASSUME ~ set, Divides,
                      NEW p \in Proc, NEW q \in interpoolcomm(p), NEW at \in Places2
               PROVE  pc'[q] = at <=> pc'[p] = at
  <2>1. CASE set
    BY <2>1, SetMeets
  <2>2. CASE ~ set
    <3>1. params' = params /\ Proc' = Proc
      BY <2>2, Places
    <3>2. (Divides' <=> Divides) /\ \A p \in Proc : interpoolcomm(p)' = interpoolcomm(p)
      BY <3>1, SameParams, SameComms
    <3>3. Divides => \A p \in Proc : \A q \in interpoolcomm(p), at \in Places2 :
                       pc'[q] = at <=> pc'[p] = at
      BY <1>1, <2>2
    <3>4. QED
      BY <3>1, <3>2, <3>3 DEF PoolsMeet
  <2>3. QED
    BY <2>1, <2>2
<1>2. q \in Proc /\ params \in ParametersType /\ (pc[q] = at <=> pc[p] = at)
  BY <1>1, InComms DEF PoolsMeet, IInv, TypeOK
<1>3. ASSUME NEW r \in Proc, NEW label, Goto(interpoolcomm(r), label) PROVE pc'[q] = at <=> pc'[p] = at
  <2>1. q \in interpoolcomm(r) <=> p \in interpoolcomm(r)
    BY <1>1, <1>2, Classes
  <2>2. QED
    BY <1>2, <1>3, <2>1 DEF Goto
<1>4. ASSUME Pool \/ computeRho PROVE pc'[q] = at <=> pc'[p] = at
  BY <1>2, <1>4 DEF Pool, computeRho, GotoIf, Goto
<1>5. ASSUME NEW r \in Proc, generateMPGrid(r) \/ SumOverPools(r) PROVE pc'[q] = at <=> pc'[p] = at
  BY <1>3, <1>5 DEF generateMPGrid, SumOverPools, SumRho
<1>6. ASSUME \A x \in Proc : pc'[x] = pc[x] \/ (pc[x] \notin Places2 /\ pc'[x] \notin Places2)
      PROVE  pc'[q] = at <=> pc'[p] = at
  <2>1. at \in Places2
    OBVIOUS
  <2> HIDE DEF Places2
  <2>2. QED
    BY <1>2, <1>6, <2>1
<1>7. ASSUME NEW r \in Proc,
             CheckParameters(r) \/ BeginSolve(r) \/ chebyshevFilter(r) \/ setZero(r) \/ Allreduce(r)
      PROVE  pc'[q] = at <=> pc'[p] = at
  <2>1. CASE CheckParameters(r) \/ BeginSolve(r)
    <3>1. \A x \in Proc : pc'[x] = pc[x] \/ (pc[x] \notin Places2 /\ pc'[x] \notin Places2)
      BY <2>1 DEF CheckParameters, BeginSolve, GotoIf, Goto
    <3>2. QED
      BY <3>1, <1>6
  <2>2. CASE chebyshevFilter(r) \/ setZero(r)
    <3>1. \A x \in Proc : pc'[x] = pc[x] \/ (pc[x] \notin Places2 /\ pc'[x] \notin Places2)
      BY <2>2 DEF chebyshevFilter, setZero, SetBlock, InBlockLoop
    <3>2. QED
      BY <3>1, <1>6
  <2>3. CASE Allreduce(r)
    <3> DEFINE comm == interBandGroupComm(r)
    <3>1. /\ AllAt(comm, "Allreduce")
          /\ pc' = [x \in Proc |->
               IF x \notin comm THEN pc[x]
               ELSE IF kPoint'[x] < d_kPoints[x].number THEN "filter" ELSE "computeRho"]
      BY <2>3 DEF Allreduce
    <3> HIDE DEF comm
    <3>2. \A x \in Proc : pc'[x] = pc[x] \/ (pc[x] \notin Places2 /\ pc'[x] \notin Places2)
      BY <3>1 DEF AllAt
    <3>3. QED
      BY <3>2, <1>6
  <2>4. QED
    BY <1>7, <2>1, <2>2, <2>3
<1>8. ASSUME NEW r \in Proc, SumOverBandGroups(r) PROVE pc'[q] = at <=> pc'[p] = at
  <2>1. \/ pc'[q] = pc[q]
        \/ pc[q] = "sumBandGroups" /\ pc'[q] = "done"
    BY <1>2, <1>8 DEF SumOverBandGroups, SumRho, AllAt, Goto
  <2>2. \/ pc'[p] = pc[p]
        \/ pc[p] = "sumBandGroups" /\ pc'[p] = "done"
    BY <1>2, <1>8 DEF SumOverBandGroups, SumRho, AllAt, Goto
  <2>3. QED
    BY <1>2, <2>1, <2>2
<1>9. CASE UNCHANGED vars
  BY <1>2, <1>9 DEF vars
<1>10. QED
  BY <1>1, <1>4, <1>5, <1>7, <1>8, <1>9 DEF Next

LEMMA GroupsMeetStep == IInv /\ GroupsMeet /\ [Next]_vars => GroupsMeet'
<1> SUFFICES ASSUME IInv, GroupsMeet, [Next]_vars PROVE GroupsMeet'
  OBVIOUS
<1> DEFINE Meet(p, q) == kPoint'[q] = kPoint'[p] /\ (pc'[q] = "done" <=> pc'[p] = "done")
<1>1. SUFFICES ASSUME ~ set, Divides, NEW p \in Proc, NEW q \in interBandGroupComm(p)
               PROVE  Meet(p, q)
  <2>1. CASE set
    BY <2>1, SetMeets
  <2>2. CASE ~ set
    <3>1. params' = params /\ Proc' = Proc
      BY <2>2, Places
    <3>2. (Divides' <=> Divides) /\ \A p \in Proc : interBandGroupComm(p)' = interBandGroupComm(p)
      BY <3>1, SameParams, SameComms
    <3>3. Divides => \A p \in Proc : \A q \in interBandGroupComm(p) : Meet(p, q)
      BY <1>1, <2>2
    <3>4. QED
      BY <3>1, <3>2, <3>3 DEF GroupsMeet
  <2>3. QED
    BY <2>1, <2>2
<1>2. /\ q \in Proc /\ params \in ParametersType
      /\ kPoint[q] = kPoint[p] /\ (pc[q] = "done" <=> pc[p] = "done")
  BY <1>1, InComms DEF GroupsMeet, IInv, TypeOK
<1>3. ASSUME NEW r \in Proc
      PROVE  q \in interBandGroupComm(r) <=> p \in interBandGroupComm(r)
  BY <1>1, <1>2, Classes
<1>4. ASSUME kPoint' = kPoint,
             \A x \in Proc : pc'[x] = pc[x] \/ (pc[x] # "done" /\ pc'[x] # "done")
      PROVE  Meet(p, q)
  BY <1>2, <1>4
<1>5. ASSUME Pool \/ computeRho PROVE Meet(p, q)
  BY <1>2, <1>5, <1>4 DEF Pool, computeRho, GotoIf, Goto, AllAt
<1>6. ASSUME NEW r \in Proc, CheckParameters(r) \/ BeginSolve(r) PROVE Meet(p, q)
  BY <1>4, <1>6 DEF CheckParameters, BeginSolve, GotoIf, Goto
<1>7. ASSUME NEW r \in Proc, generateMPGrid(r) \/ SumOverPools(r) PROVE Meet(p, q)
  <2>1. kPoint' = kPoint
    BY <1>7 DEF generateMPGrid, SumOverPools, SumRho
  <2>2. \A x \in Proc : pc'[x] = pc[x] \/ (pc[x] # "done" /\ pc'[x] # "done")
    BY <1>7 DEF generateMPGrid, SumOverPools, SumRho, AllAt, Goto
  <2>3. QED
    BY <1>4, <2>1, <2>2
<1>8. ASSUME NEW r \in Proc, chebyshevFilter(r) \/ setZero(r) PROVE Meet(p, q)
  <2>1. kPoint' = kPoint
    BY <1>8 DEF chebyshevFilter, setZero, SetBlock
  <2>2. \A x \in Proc : pc'[x] = pc[x] \/ (pc[x] # "done" /\ pc'[x] # "done")
    BY <1>8 DEF chebyshevFilter, setZero, SetBlock, InBlockLoop
  <2>3. QED
    BY <1>4, <2>1, <2>2
<1>9. ASSUME NEW r \in Proc, Allreduce(r) PROVE Meet(p, q)
  <2> DEFINE comm == interBandGroupComm(r)
  <2>1. /\ AllAt(comm, "Allreduce")
        /\ kPoint' = [x \in Proc |-> IF x \in comm THEN kPoint[x] + 1 ELSE kPoint[x]]
        /\ pc' = [x \in Proc |->
             IF x \notin comm THEN pc[x]
             ELSE IF kPoint'[x] < d_kPoints[x].number THEN "filter" ELSE "computeRho"]
    BY <1>9 DEF Allreduce
  <2>2. q \in comm <=> p \in comm
    BY <1>3
  <2> HIDE DEF comm
  <2>3. kPoint'[q] = kPoint'[p]
    BY <1>2, <2>1, <2>2
  <2>4. \A x \in Proc : pc'[x] = pc[x] \/ (pc[x] # "done" /\ pc'[x] # "done")
    BY <2>1 DEF AllAt
  <2>5. QED
    BY <1>2, <2>3, <2>4
<1>10. ASSUME NEW r \in Proc, SumOverBandGroups(r) PROVE Meet(p, q)
  <2>1. kPoint' = kPoint /\ Goto(interBandGroupComm(r), "done")
    BY <1>10 DEF SumOverBandGroups, SumRho
  <2>2. QED
    BY <1>2, <1>3, <2>1 DEF Goto
<1>11. CASE UNCHANGED vars
  BY <1>2, <1>11 DEF vars
<1>12. QED
  BY <1>1, <1>5, <1>6, <1>7, <1>8, <1>9, <1>10, <1>11 DEF Next

\* A rank that filters the next block has passed none of it.
LEMMA NextBlock ==
  ASSUME IInv, NEW p \in Proc, FiltersNext(p)
  PROVE  /\ jvec[p] \in Band /\ kPoint[p] \in Nat
         /\ InOwnGroup(p, EndOf(jvec[p]))
         /\ ~ Passed(p, kPoint[p], jvec[p])
<1>1. InBlockLoop(p) /\ InOwnGroup(p, BlockEnd(p))
  BY DEF FiltersNext
<1>2. /\ jvec[p] \in Band /\ BlockIsWhole(p, jvec[p]) /\ bands \in Nat
      /\ kPoint[p] \in Nat
  BY <1>1, InLoop DEF IInv, TypeOK
<1>3. jvec[p] < BlockEnd(p) /\ jvec[p] <= jvec[p] /\ jvec[p] \in Int
  BY <1>2 DEF BlockIsWhole, BlockEnd, Band
<1>4. InOwnGroup(p, EndOf(jvec[p]))
  BY <1>1, <1>2, <1>3 DEF BlockIsWhole, BlockEnd
<1>5. QED
  BY <1>2, <1>3, <1>4 DEF Passed

\* The ranks of a domain that filter a block filter the same one.
LEMMA SameBlock ==
  ASSUME IInv, DomainsMeet, NEW p \in Proc, NEW q \in mpi_communicator(p),
         FiltersNext(p), FiltersNext(q)
  PROVE  kPoint[q] = kPoint[p] /\ jvec[q] = jvec[p] /\ BlockEnd(q) = BlockEnd(p)
<1>1. Sizes
  BY InLoop DEF FiltersNext
<1>2. /\ q \in Proc /\ p \in mpi_communicator(q)
      /\ bandGroupTaskId(q) = bandGroupTaskId(p)
  BY <1>1, DomainIs DEF Sizes
<1>3. ~ Passed(q, kPoint[p], jvec[p])
  BY <1>1, NextBlock DEF DomainsMeet, Sizes
<1>4. ~ Passed(p, kPoint[q], jvec[q])
  BY <1>1, <1>2, NextBlock DEF DomainsMeet, Sizes
<1>5. /\ kPoint[p] \in Nat /\ kPoint[q] \in Nat /\ jvec[p] \in Int /\ jvec[q] \in Int
  BY <1>2 DEF IInv, TypeOK
<1>6. kPoint[q] = kPoint[p] /\ jvec[q] = jvec[p]
  BY <1>3, <1>4, <1>5 DEF Passed
<1>7. QED
  BY <1>2, <1>6 DEF BlockEnd, BVec, numSimultaneousBlocksCurrent

\* A block that is set to zero is none of the rank's own.
LEMMA ZeroPassesNoOwn ==
  ASSUME IInv, NEW r \in Proc, setZero(r), NEW x \in Proc, NEW b \in Band, NEW k \in Nat,
         InOwnGroup(x, EndOf(b))
  PROVE  Passed(x, k, b)' <=> Passed(x, k, b)
<1>1. InBlockLoop(r) /\ ~ InOwnGroup(r, BlockEnd(r)) /\ SetBlock({r}, "zero")
  BY DEF setZero
<1>2. kPoint' = kPoint /\ jvec'[x] = IF x = r THEN BlockEnd(x) ELSE jvec[x]
  BY <1>1 DEF SetBlock
<1>3. CASE x = r
  <2>1. BlockIsWhole(r, jvec[r]) /\ jvec[r] \in Band /\ bands \in Nat
    BY <1>1, InLoop
  <2>2. /\ BlockEnd(r) \in Int /\ jvec[r] < BlockEnd(r) /\ jvec[r] \in Int /\ b \in Int
        /\ jvec[r] <= b /\ b < BlockEnd(r) => (InOwnGroup(r, EndOf(b)) <=> InOwnGroup(r, BlockEnd(r)))
    BY <2>1 DEF BlockIsWhole, BlockEnd, Band
  <2>3. ~ (jvec[r] <= b /\ b < BlockEnd(r))
    BY <1>1, <1>3, <2>2
  <2>4. BlockEnd(r) > b <=> jvec[r] > b
    BY <2>2, <2>3
  <2>5. QED
    BY <1>2, <1>3, <2>4 DEF Passed
<1>4. CASE x # r
  BY <1>2, <1>4 DEF Passed
<1>5. QED
  BY <1>3, <1>4

\* To go on to the next k-point is to have passed all blocks of this one.
LEMMA AllreducePassesAll ==
  ASSUME IInv, NEW r \in Proc, Allreduce(r), NEW x \in Proc, NEW b \in Band, NEW k \in Nat
  PROVE  Passed(x, k, b)' <=> Passed(x, k, b)
<1> DEFINE comm == interBandGroupComm(r)
<1>1. /\ AllAt(comm, "Allreduce")
      /\ kPoint'[x] = IF x \in comm THEN kPoint[x] + 1 ELSE kPoint[x]
      /\ jvec'[x] = IF x \in comm THEN 0 ELSE jvec[x]
  BY DEF Allreduce
<1> HIDE DEF comm
<1>2. CASE x \in comm
  <2>1. jvec[x] = bands /\ kPoint[x] \in Nat
    BY <1>1, <1>2 DEF AllAt, IInv, Rank, TypeOK
  <2>2. b \in Int /\ 0 <= b /\ b < bands /\ bands \in Nat
    BY DEF Band, bands, IInv, TypeOK, ParametersType
  <2>3. QED
    BY <1>1, <1>2, <2>1, <2>2 DEF Passed
<1>3. CASE x \notin comm
  BY <1>1, <1>3 DEF Passed
<1>4. QED
  BY <1>2, <1>3

LEMMA DomainsMeetStep == IInv /\ DomainsMeet /\ [Next]_vars => DomainsMeet'
<1> SUFFICES ASSUME IInv, DomainsMeet, [Next]_vars PROVE DomainsMeet'
  OBVIOUS
<1>1. SUFFICES ASSUME ~ set, Divides, ChecksPass, NEW p \in Proc, NEW q \in mpi_communicator(p),
                      NEW b \in Band, NEW k \in Nat, InOwnGroup(p, EndOf(b))
               PROVE  Passed(q, k, b)' <=> Passed(p, k, b)'
  <2>1. CASE set
    BY <2>1, SetMeets
  <2>2. CASE ~ set
    <3>1. params' = params /\ Proc' = Proc
      BY <2>2, Places
    <3>2. /\ (Divides' <=> Divides) /\ (ChecksPass' <=> ChecksPass) /\ Band' = Band
          /\ \A x \in Band : EndOf(x)' = EndOf(x)
          /\ \A x \in Proc : \A e : InOwnGroup(x, e)' <=> InOwnGroup(x, e)
      BY <3>1, SameParams
    <3>3. \A p \in Proc : mpi_communicator(p)' = mpi_communicator(p)
      BY <3>1, SameComms
    <3>4. \A p \in Proc, b \in Band : InOwnGroup(p, EndOf(b))' <=> InOwnGroup(p, EndOf(b))
      BY <3>2
    <3>5. Divides /\ ChecksPass => \A p \in Proc : \A q \in mpi_communicator(p), b \in Band, k \in Nat :
            InOwnGroup(p, EndOf(b)) => (Passed(q, k, b)' <=> Passed(p, k, b)')
      BY <1>1, <2>2
    <3>6. QED
      BY <3>1, <3>2, <3>3, <3>4, <3>5 DEF DomainsMeet
  <2>3. QED
    BY <2>1, <2>2
<1>2. params \in ParametersType /\ Sizes
  BY <1>1 DEF Sizes, IInv, TypeOK
<1>3. /\ q \in Proc /\ p \in mpi_communicator(p) /\ bandGroupTaskId(q) = bandGroupTaskId(p)
      /\ Passed(q, k, b) <=> Passed(p, k, b)
  BY <1>1, <1>2, DomainIs DEF DomainsMeet
<1>4. InOwnGroup(q, EndOf(b))
  BY <1>1, <1>3 DEF InOwnGroup
<1>5. ASSUME kPoint' = kPoint, jvec' = jvec PROVE Passed(q, k, b)' <=> Passed(p, k, b)'
  BY <1>3, <1>5 DEF Passed
<1>6. ASSUME NEW r \in Proc, setZero(r) PROVE Passed(q, k, b)' <=> Passed(p, k, b)'
  BY <1>1, <1>3, <1>4, <1>6, ZeroPassesNoOwn
<1>7. ASSUME NEW r \in Proc, Allreduce(r) PROVE Passed(q, k, b)' <=> Passed(p, k, b)'
  BY <1>1, <1>3, <1>7, AllreducePassesAll
<1>8. ASSUME NEW r \in Proc, chebyshevFilter(r) PROVE Passed(q, k, b)' <=> Passed(p, k, b)'
  <2> DEFINE comm == mpi_communicator(r)
  <2>1. q \in comm <=> p \in comm
    BY <1>1, <1>2, <1>3, Classes
  <2>2. /\ \A x \in comm : FiltersNext(x)
        /\ kPoint' = kPoint
        /\ jvec' = [x \in Proc |-> IF x \in comm THEN BlockEnd(x) ELSE jvec[x]]
    BY <1>8 DEF chebyshevFilter, SetBlock, FiltersNext
  <2> HIDE DEF comm
  <2>3. CASE p \in comm
    <3>1. kPoint[q] = kPoint[p] /\ BlockEnd(q) = BlockEnd(p)
      BY <1>1, <2>1, <2>2, <2>3, SameBlock
    <3>2. QED
      BY <1>3, <2>1, <2>2, <2>3, <3>1 DEF Passed
  <2>4. CASE p \notin comm
    BY <1>3, <2>1, <2>2, <2>4 DEF Passed
  <2>5. QED
    BY <2>3, <2>4
<1>9. ASSUME Pool \/ computeRho PROVE Passed(q, k, b)' <=> Passed(p, k, b)'
  BY <1>5, <1>9 DEF Pool, computeRho, loopVars
<1>10. ASSUME NEW r \in Proc,
              \/ CheckParameters(r) \/ generateMPGrid(r) \/ BeginSolve(r)
              \/ SumOverPools(r) \/ SumOverBandGroups(r)
       PROVE  Passed(q, k, b)' <=> Passed(p, k, b)'
  BY <1>5, <1>10
     DEF CheckParameters, generateMPGrid, BeginSolve, SumOverPools, SumOverBandGroups, SumRho, loopVars
<1>11. CASE UNCHANGED vars
  BY <1>5, <1>11 DEF vars
<1>12. QED
  BY <1>1, <1>6, <1>7, <1>8, <1>9, <1>10, <1>11 DEF Next

-----------------------------------------------------------------------------
LEMMA StageIs ==
  /\ Stage["check_parameters"] = 0 /\ Stage["Pool"] = 1 /\ Stage["set"] = 2
  /\ Stage["generateMPGrid"] = 3 /\ Stage["solve"] = 4
  /\ Stage["filter"] = 5 /\ Stage["Allreduce"] = 5
  /\ Stage["computeRho"] = 6 /\ Stage["sumPools"] = 7 /\ Stage["sumBandGroups"] = 8
  /\ Stage["done"] = 9 /\ Stage["threw"] = 9
BY DEF Stage

LEMMA PartnersAre ==
  ASSUME NEW p
  PROVE  /\ pc[p] \in {"Pool", "set", "computeRho"} => Partners(p) = Proc
         /\ pc[p] \in {"generateMPGrid", "sumPools"} => Partners(p) = interpoolcomm(p)
         /\ pc[p] \in {"Allreduce", "sumBandGroups"} => Partners(p) = interBandGroupComm(p)
         /\ FiltersNext(p) => Partners(p) = mpi_communicator(p)
         /\ \/ pc[p] \in {"Pool", "set", "computeRho", "generateMPGrid", "sumPools",
                          "Allreduce", "sumBandGroups"}
            \/ FiltersNext(p)
            \/ Partners(p) = {}
<1>1. FiltersNext(p) => pc[p] = "filter"
  BY DEF FiltersNext, InBlockLoop
<1>2. QED
  BY <1>1 DEF Partners

\* The ranks of a pool have equally many k-points.
LEMMA NumbersAgree ==
  ASSUME IInv, SharesInv, Divides, NEW p \in Proc, NEW q \in Proc, FirstOf(q) = FirstOf(p),
         pc[p] \in Solving, pc[q] \in Ended
  PROVE  d_kPoints[q].number = d_kPoints[p].number
<1>1. PoolOf(q) = PoolOf(p)
  BY SamePool DEF IInv, TypeOK
<1>2. \A x \in Proc : pc[x] \in Solving \cup Ended =>
        d_kPoints[x].number = sendSizekPoints(PoolOf(x))
  <2> SUFFICES ASSUME NEW x \in Proc, pc[x] \in Solving \cup Ended
               PROVE  d_kPoints[x].number = sendSizekPoints(PoolOf(x))
    OBVIOUS
  <2>1. d_kPoints[x] = [first |-> mpiOffsetskPoints(PoolOf(x)), number |-> sendSizekPoints(PoolOf(x))]
    BY DEF SharesInv
  <2>2. QED
    BY <2>1
<1>3. QED
  BY <1>1, <1>2

\* What holds of the ranks of the calculation together.
MeetingInv == Together /\ RoundsInv /\ PoolsMeet /\ GroupsMeet /\ DomainsMeet

LEMMA AllreducersMeet ==
  ASSUME IInv, SharesInv, MeetingInv, NEW p \in Proc, pc[p] = "Allreduce",
         NEW q \in interBandGroupComm(p)
  PROVE  MakesSameCall(q, p) \/ Behind(q, p)
<1>1. /\ params \in ParametersType /\ Divides /\ jvec[p] = bands
      /\ kPoint[p] < d_kPoints[p].number /\ d_kPoints[p].number \in Nat /\ kPoint[p] \in Nat
  BY DEF IInv, TypeOK, Rank, Solving, Undivided
<1>2. q \in Proc /\ FirstOf(q) = FirstOf(p) /\ interBandGroupComm(q) = interBandGroupComm(p)
  BY <1>1, BandGroupsAre
<1>3. kPoint[q] = kPoint[p]
  BY <1>1 DEF MeetingInv, GroupsMeet
<1>4. pc[q] \in {"generateMPGrid", "solve", "filter", "Allreduce", "computeRho"}
  BY <1>2, CompanyIs DEF MeetingInv, Together, Scattered, Solving
<1>5. CASE pc[q] \in {"generateMPGrid", "solve"}
  BY <1>5, StageIs DEF Behind
<1>6. CASE pc[q] = "filter"
  <2>1. jvec[q] < jvec[p]
    BY <1>1, <1>2, <1>6 DEF MeetingInv, RoundsInv
  <2>2. QED
    BY <2>1, <1>3, <1>6 DEF Behind, InLoops
<1>7. CASE pc[q] = "Allreduce"
  <2>1. jvec[q] = jvec[p]
    BY <1>1, <1>2, <1>7 DEF IInv, Rank
  <2>2. Partners(q) = Partners(p)
    BY <1>2, <1>7, PartnersAre
  <2>3. QED
    BY <2>1, <2>2, <1>3, <1>7 DEF MakesSameCall
<1>8. CASE pc[q] = "computeRho"
  <2>1. kPoint[q] = d_kPoints[q].number
    BY <1>2, <1>8 DEF MeetingInv, RoundsInv, Ended
  <2>2. d_kPoints[q].number = d_kPoints[p].number
    BY <1>1, <1>2, <1>8, NumbersAgree DEF Solving, Ended
  <2>3. QED
    BY <2>1, <2>2, <1>1, <1>3
<1>9. QED
  BY <1>4, <1>5, <1>6, <1>7, <1>8

LEMMA FilterersMeet ==
  ASSUME IInv, SharesInv, MeetingInv, NEW p \in Proc, FiltersNext(p),
         NEW q \in mpi_communicator(p)
  PROVE  MakesSameCall(q, p) \/ Behind(q, p)
<1>1. Sizes /\ pc[p] = "filter" /\ jvec[p] < bands /\ InOwnGroup(p, BlockEnd(p))
  BY InLoop DEF FiltersNext, InBlockLoop
<1>2. /\ kPoint[p] < d_kPoints[p].number /\ d_kPoints[p].number \in Nat
  BY <1>1 DEF IInv, Rank, Solving
<1>3. /\ q \in Proc /\ FirstOf(q) = FirstOf(p) /\ bandGroupTaskId(q) = bandGroupTaskId(p)
      /\ mpi_communicator(q) = mpi_communicator(p)
  BY <1>1, DomainIs DEF Sizes
<1>4. ~ Passed(q, kPoint[p], jvec[p])
  BY <1>1, NextBlock DEF MeetingInv, DomainsMeet, Sizes
<1>5. /\ kPoint[p] \in Nat /\ kPoint[q] \in Nat /\ jvec[p] \in Int /\ jvec[q] \in Int
  BY <1>3 DEF IInv, TypeOK
<1>6. pc[q] \in {"generateMPGrid", "solve", "filter", "Allreduce", "computeRho"}
  BY <1>1, <1>3, CompanyIs DEF MeetingInv, Together, Scattered, Solving
<1>7. CASE pc[q] \in {"generateMPGrid", "solve"}
  BY <1>1, <1>7, StageIs DEF Behind
<1>8. CASE pc[q] = "computeRho"
  <2>1. kPoint[q] = d_kPoints[q].number
    BY <1>3, <1>8 DEF MeetingInv, RoundsInv, Ended
  <2>2. d_kPoints[q].number = d_kPoints[p].number
    BY <1>1, <1>3, <1>8, NumbersAgree DEF Solving, Ended, Sizes
  <2>3. QED
    BY <2>1, <2>2, <1>2, <1>4, <1>5 DEF Passed
<1>9. CASE pc[q] \in {"filter", "Allreduce"}
  <2>1. CASE kPoint[q] < kPoint[p] \/ (kPoint[q] = kPoint[p] /\ jvec[q] < jvec[p])
    BY <2>1, <1>1, <1>9 DEF Behind, InLoops
  <2>2. CASE kPoint[q] = kPoint[p] /\ jvec[q] = jvec[p]
    <3>1. pc[q] = "filter"
      <4>1. pc[q] = "Allreduce" => jvec[q] = bands
        BY <1>3 DEF IInv, Rank
      <4>2. bands \in Nat
        BY <1>1, SizesType
      <4>3. QED
        BY <4>1, <4>2, <1>1, <1>5, <1>9, <2>2
    <3>2. BlockEnd(q) = BlockEnd(p)
      BY <1>3, <2>2 DEF BlockEnd, BVec, numSimultaneousBlocksCurrent
    <3>3. InOwnGroup(q, BlockEnd(q))
      BY <1>1, <1>3, <3>2 DEF InOwnGroup
    <3>4. FiltersNext(q)
      BY <1>1, <2>2, <3>1, <3>3 DEF FiltersNext, InBlockLoop
    <3>5. Partners(q) = Partners(p)
      BY <1>3, <3>4, PartnersAre
    <3>6. QED
      BY <1>1, <2>2, <3>1, <3>5 DEF MakesSameCall
  <2>3. QED
    BY <2>1, <2>2, <1>4, <1>5 DEF Passed
<1>10. QED
  BY <1>6, <1>7, <1>8, <1>9

LEMMA PartnersDoMeet == IInv /\ SharesInv /\ MeetingInv => PartnersMeet
<1> SUFFICES ASSUME IInv, SharesInv, MeetingInv, NEW p \in Proc, NEW q \in Partners(p)
             PROVE  MakesSameCall(q, p) \/ Behind(q, p)
  BY DEF PartnersMeet
<1>1. CASE pc[p] \in {"Pool", "set", "computeRho"}
  <2>1. Partners(p) = Proc /\ q \in Proc
    BY <1>1, PartnersAre
  <2>2. pc[q] \in Company(pc[p])
    BY <2>1 DEF MeetingInv, Together
  <2>3. CASE pc[q] = pc[p]
    <3>1. Partners(q) = Proc
      BY <1>1, <2>3, PartnersAre
    <3>2. QED
      BY <1>1, <2>1, <2>3, <3>1 DEF MakesSameCall, InLoops
  <2>4. CASE pc[q] # pc[p]
    <3>1. \/ pc[p] = "Pool" /\ pc[q] = "check_parameters"
          \/ pc[p] = "computeRho" /\ pc[q] \in {"generateMPGrid", "solve", "filter", "Allreduce"}
      BY <1>1, <2>2, <2>4, CompanyIs DEF Scattered, Solving
    <3>2. QED
      BY <3>1, StageIs DEF Behind
  <2>5. QED
    BY <2>3, <2>4
<1>2. CASE pc[p] \in {"generateMPGrid", "sumPools"}
  <2>1. params \in ParametersType /\ Divides
    BY <1>2 DEF IInv, TypeOK, Rank, Undivided
  <2>2. q \in interpoolcomm(p) /\ interpoolcomm(q) = interpoolcomm(p)
    BY <1>2, <2>1, PartnersAre, OneOfEachPool
  <2>3. pc[q] = pc[p]
    BY <1>2, <2>1, <2>2 DEF MeetingInv, PoolsMeet
  <2>4. Partners(q) = Partners(p)
    BY <1>2, <2>2, <2>3, PartnersAre
  <2>5. QED
    BY <1>2, <2>3, <2>4 DEF MakesSameCall, InLoops
<1>3. CASE pc[p] = "sumBandGroups"
  <2>1. params \in ParametersType /\ Divides
    BY <1>3 DEF IInv, TypeOK, Rank, Undivided
  <2>2. q \in interBandGroupComm(p)
    BY <1>3, PartnersAre
  <2>3. q \in Proc /\ interBandGroupComm(q) = interBandGroupComm(p)
    BY <2>1, <2>2, BandGroupsAre
  <2>4. pc[q] # "done"
    BY <1>3, <2>1, <2>2 DEF MeetingInv, GroupsMeet
  <2>5. pc[q] \in {"sumPools", "sumBandGroups"}
    BY <1>3, <2>3, <2>4, CompanyIs DEF MeetingInv, Together, Summing
  <2>6. CASE pc[q] = "sumPools"
    BY <1>3, <2>6, StageIs DEF Behind
  <2>7. CASE pc[q] = "sumBandGroups"
    <3>1. Partners(q) = Partners(p)
      BY <1>3, <2>3, <2>7, PartnersAre
    <3>2. QED
      BY <1>3, <2>7, <3>1 DEF MakesSameCall, InLoops
  <2>8. QED
    BY <2>5, <2>6, <2>7
<1>4. CASE pc[p] = "Allreduce"
  BY <1>4, PartnersAre, AllreducersMeet
<1>5. CASE FiltersNext(p)
  BY <1>5, PartnersAre, FilterersMeet
<1>6. QED
  BY <1>1, <1>2, <1>3, <1>4, <1>5, PartnersAre

\* The invariant of the meetings.
LEMMA MeetingInvariantHolds == Spec => []MeetingInv
<1>1. Init => MeetingInv
  <2> SUFFICES ASSUME Init PROVE MeetingInv
    OBVIOUS
  <2>1. \A p \in Proc : pc[p] = "check_parameters" /\ kPoint[p] = 0 /\ jvec[p] = 0
    BY DEF Init
  <2>2. Together
    BY <2>1, CompanyIs DEF Together
  <2>3. RoundsInv
    BY <2>1 DEF RoundsInv, Ended
  <2>4. PoolsMeet /\ GroupsMeet
    BY <2>1, InComms DEF PoolsMeet, GroupsMeet
  <2>5. \A p \in Proc, b \in Band, k \in Nat : ~ Passed(p, k, b)
    <3>1. \A b \in Band : b \in Int /\ b >= 0
      BY DEF Band
    <3>2. QED
      BY <2>1, <3>1 DEF Passed
  <2>6. DomainsMeet
    BY <2>5, InComms DEF DomainsMeet
  <2>7. QED
    BY <2>2, <2>3, <2>4, <2>6 DEF MeetingInv
<1>2. IInv /\ MeetingInv /\ [Next]_vars => MeetingInv'
  BY TogetherStep, RoundsStep, PoolsMeetStep, GroupsMeetStep, DomainsMeetStep DEF MeetingInv
<1>3. QED
  BY <1>1, <1>2, InvariantHolds, PTL DEF Spec

\* Whatever the order in which the ranks go on: those that meet in a collective call are
\* there for the same call, the same block and the same k-point, and none of them can have
\* passed it or thrown (the barriers of Pool, the scatter of the k-points, the calls of the
\* block loop, whose foreign blocks each rank skips by itself, and the sums of the density).
THEOREM RanksMeetTheirPartners == Spec => []PartnersMeet
BY PartnersDoMeet, MeetingInvariantHolds, InvariantHolds, DensityInvariantHolds, PTL

LEMMA NobodyWaits == IInv /\ Together /\ PartnersMeet => NobodyIsLeftWaiting
<1> SUFFICES ASSUME IInv, Together, PartnersMeet,
                    \A p \in Proc : pc[p] \in {"done", "threw"} \/ WaitsForPartner(p)
             PROVE  (\A p \in Proc : pc[p] = "done") \/ (\A p \in Proc : pc[p] = "threw")
  BY DEF NobodyIsLeftWaiting
<1> DEFINE S == {p \in Proc : pc[p] \notin {"done", "threw"}}
<1>1. ASSUME NEW p \in Proc
      PROVE  /\ Stage[pc[p]] \in Nat
             /\ Stage[pc[p]] < 9 <=> p \in S
             /\ Stage[pc[p]] = 5 <=> pc[p] \in InLoops
  <2>1. pc[p] \in Early \cup Solving \cup Ended
    BY DEF IInv, TypeOK
  <2>2. QED
    BY <2>1, StageIs DEF Early, Undivided, Solving, Ended, InLoops
<1>2. ASSUME NEW p \in S PROVE \E q \in Proc : Behind(q, p)
  <2>1. PICK q \in Partners(p) : ~ MakesSameCall(q, p)
    BY <1>2 DEF WaitsForPartner
  <2>2. Behind(q, p)
    BY <2>1 DEF PartnersMeet
  <2>3. q \in Proc
    BY <2>1, PartnersAre, InComms
  <2>4. QED
    BY <2>2, <2>3
<1> HIDE DEF S
<1>3. ASSUME S # {} PROVE FALSE
  <2>1. S \subseteq Proc
    BY DEF S
  <2>2. PICK m \in Nat : /\ \E p \in S : Stage[pc[p]] = m
                         /\ \A p \in S : m <= Stage[pc[p]]
    <3> DEFINE T == {Stage[pc[p]] : p \in S}
    <3>1. T \in SUBSET Nat /\ T # {}
      BY <1>1, <1>3, <2>1
    <3> HIDE DEF T
    <3>2. PICK x \in T : \A y \in T : x <= y
      BY <3>1, LeastNumber
    <3>3. QED
      BY <3>1, <3>2 DEF T
  \* Nobody is at an earlier stage.
  <2>3. ASSUME NEW p \in S, Stage[pc[p]] = m, NEW q \in Proc, Behind(q, p)
        PROVE  /\ q \in S /\ Stage[pc[q]] = m /\ pc[q] \in InLoops /\ pc[p] \in InLoops
               /\ kPoint[q] < kPoint[p] \/ (kPoint[q] = kPoint[p] /\ jvec[q] < jvec[p])
    <3>1. Stage[pc[q]] \in Nat /\ m < 9
      BY <1>1, <2>1, <2>3
    <3>2. ~ (Stage[pc[q]] < m)
      BY <1>1, <2>2, <3>1
    <3>3. /\ pc[q] \in InLoops /\ pc[p] \in InLoops
          /\ kPoint[q] < kPoint[p] \/ (kPoint[q] = kPoint[p] /\ jvec[q] < jvec[p])
      BY <2>3, <3>2 DEF Behind
    <3>4. m = 5 /\ Stage[pc[q]] = 5
      BY <1>1, <2>1, <2>3, <3>3
    <3>5. QED
      BY <1>1, <3>3, <3>4
  <2> DEFINE First == {p \in S : Stage[pc[p]] = m}
  <2>4. \A p \in First : /\ p \in Proc /\ pc[p] \in Solving
                         /\ kPoint[p] \in Nat /\ jvec[p] \in Nat
    <3> SUFFICES ASSUME NEW p \in First
                 PROVE  p \in Proc /\ pc[p] \in Solving /\ kPoint[p] \in Nat /\ jvec[p] \in Nat
      OBVIOUS
    <3>1. p \in Proc /\ p \in S /\ Stage[pc[p]] = m
      BY <2>1
    <3>2. PICK q \in Proc : Behind(q, p)
      BY <3>1, <1>2
    <3>3. pc[p] \in Solving
      BY <3>1, <3>2, <2>3 DEF InLoops, Solving
    <3>4. jvec[p] \in 0 .. bands /\ kPoint[p] \in Nat
      BY <3>1, <3>3 DEF IInv, TypeOK, Rank, BlocksDone
    <3>5. QED
      BY <3>1, <3>3, <3>4
  <2>5. First # {}
    BY <2>2
  <2>6. \A p \in First : \E q \in First :
          kPoint[q] < kPoint[p] \/ (kPoint[q] = kPoint[p] /\ jvec[q] < jvec[p])
    BY <1>2, <2>3
  <2> HIDE DEF First
  <2>7. PICK k \in Nat : (\E p \in First : kPoint[p] = k) /\ \A p \in First : k <= kPoint[p]
    <3> DEFINE T == {kPoint[p] : p \in First}
    <3>1. T \in SUBSET Nat /\ T # {}
      BY <2>4, <2>5
    <3> HIDE DEF T
    <3>2. PICK x \in T : \A y \in T : x <= y
      BY <3>1, LeastNumber
    <3>3. QED
      BY <3>1, <3>2 DEF T
  <2> DEFINE Least == {p \in First : kPoint[p] = k}
  <2>8. PICK p \in Least : \A q \in Least : jvec[p] <= jvec[q]
    <3> DEFINE T == {jvec[q] : q \in Least}
    <3>1. T \in SUBSET Nat /\ T # {}
      BY <2>4, <2>7
    <3> HIDE DEF T
    <3>2. PICK x \in T : \A y \in T : x <= y
      BY <3>1, LeastNumber
    <3>3. QED
      BY <3>1, <3>2 DEF T
  <2>9. PICK q \in First : kPoint[q] < kPoint[p] \/ (kPoint[q] = kPoint[p] /\ jvec[q] < jvec[p])
    BY <2>6, <2>8
  <2>10. kPoint[q] = k /\ jvec[q] < jvec[p]
    BY <2>4, <2>7, <2>8, <2>9
  <2>11. QED
    BY <2>4, <2>8, <2>9, <2>10
<1>4. \A p \in Proc : pc[p] \in {"done", "threw"}
  BY <1>3 DEF S
<1>5. ASSUME NEW p \in Proc, pc[p] = "done", NEW q \in Proc PROVE pc[q] # "threw"
  BY <1>5, CompanyIs DEF Together, Summing
<1>6. QED
  BY <1>4, <1>5

\* No rank is left alone in a collective call, with any number of ranks, pools, band groups
\* and k-points: as long as the ranks have not all finished or all thrown, one of them can
\* go on.  Every check that throws does so on all ranks that the others wait for (dftUtils,
\* initkPointData and the checks at the head of the solve).
THEOREM NoRankIsLeftWaiting == Spec => []NobodyIsLeftWaiting
<1>1. MeetingInv => Together
  BY DEF MeetingInv
<1>2. QED
  BY <1>1, NobodyWaits, InvariantHolds, MeetingInvariantHolds, RanksMeetTheirPartners, PTL

-----------------------------------------------------------------------------
\* A rank comes to a later stage, or in the block loop to a later k-point or block.
Progresses(p) ==
  \/ Stage[pc'[p]] > Stage[pc[p]]
  \/ /\ pc[p] \in InLoops /\ pc'[p] \in InLoops
     /\ kPoint'[p] > kPoint[p] \/ (kPoint'[p] = kPoint[p] /\ jvec'[p] > jvec[p])
StaysPut(p) == pc'[p] = pc[p] /\ kPoint'[p] = kPoint[p] /\ jvec'[p] = jvec[p]

EachStepProgresses ==
  /\ \A p \in Proc : StaysPut(p) \/ Progresses(p)
  /\ \E p \in Proc : Progresses(p)

ProgressIsBounded ==
  \A p \in Proc :
    /\ Stage[pc[p]] \in 0 .. 9
    /\ pc[p] \in InLoops => kPoint[p] \in 0 .. d_kPoints[p].number - 1 /\ jvec[p] \in 0 .. bands

\* Nobody is missing from a communicator of its own.
LEMMA OwnComms ==
  ASSUME NEW p \in Proc
  PROVE  /\ p \in interpoolcomm(p) /\ p \in interBandGroupComm(p) /\ p \in mpi_communicator(p)
<1>1. p \in kPointPool(p)
  BY DEF kPointPool, intrapool
<1>2. p \in interpoolcomm(p)
  BY DEF interpoolcomm, interpool
<1>3. p \in interBandGroupComm(p) /\ p \in mpi_communicator(p)
  BY <1>1 DEF interBandGroupComm, mpi_communicator, interpool, intrapool
<1>4. QED
  BY <1>2, <1>3

LEMMA GotoProgresses ==
  ASSUME NEW comm \in SUBSET Proc, comm # {}, NEW label, Goto(comm, label),
         \A q \in comm : Stage[label] > Stage[pc[q]],
         pc \in [Proc -> Early \cup Solving \cup Ended],
         kPoint' = kPoint, jvec' = jvec
  PROVE  EachStepProgresses
<1>1. \A q \in Proc : pc'[q] = IF q \in comm THEN label ELSE pc[q]
  BY DEF Goto
<1>2. \A q \in comm : Progresses(q)
  BY <1>1 DEF Progresses
<1>3. \A q \in Proc : q \notin comm => StaysPut(q)
  BY <1>1 DEF StaysPut
<1>4. QED
  BY <1>2, <1>3 DEF EachStepProgresses

LEMMA SetBlockProgresses ==
  ASSUME IInv, NEW comm \in SUBSET Proc, comm # {}, NEW value, SetBlock(comm, value),
         \A q \in comm : InBlockLoop(q)
  PROVE  EachStepProgresses
<1>1. \A q \in Proc : /\ kPoint'[q] = kPoint[q]
                      /\ jvec'[q] = IF q \in comm THEN BlockEnd(q) ELSE jvec[q]
                      /\ pc'[q] = IF q \in comm /\ BlockEnd(q) >= bands THEN "Allreduce" ELSE pc[q]
  BY DEF SetBlock
<1>2. ASSUME NEW q \in comm PROVE Progresses(q)
  <2>1. pc[q] = "filter" /\ jvec[q] \in Band /\ BlockIsWhole(q, jvec[q])
    BY <1>2, InLoop DEF InBlockLoop
  <2>2. BlockEnd(q) \in Int /\ jvec[q] < BlockEnd(q) /\ jvec[q] \in Int
    BY <2>1 DEF BlockIsWhole, BlockEnd, Band
  <2>3. pc[q] \in InLoops /\ pc'[q] \in InLoops
    BY <1>1, <1>2, <2>1 DEF InLoops
  <2>4. kPoint'[q] = kPoint[q] /\ jvec'[q] > jvec[q]
    BY <1>1, <1>2, <2>2
  <2>5. QED
    BY <2>3, <2>4 DEF Progresses
<1>3. \A q \in Proc : q \notin comm => StaysPut(q)
  BY <1>1 DEF StaysPut
<1>4. QED
  BY <1>2, <1>3 DEF EachStepProgresses

LEMMA AllreduceProgresses ==
  ASSUME IInv, NEW p \in Proc, Allreduce(p)
  PROVE  EachStepProgresses
<1> DEFINE comm == interBandGroupComm(p)
<1>1. /\ AllAt(comm, "Allreduce")
      /\ kPoint' = [q \in Proc |-> IF q \in comm THEN kPoint[q] + 1 ELSE kPoint[q]]
      /\ jvec' = [q \in Proc |-> IF q \in comm THEN 0 ELSE jvec[q]]
      /\ pc' = [q \in Proc |->
           IF q \notin comm THEN pc[q]
           ELSE IF kPoint'[q] < d_kPoints[q].number THEN "filter" ELSE "computeRho"]
  BY DEF Allreduce
<1>2. comm \subseteq Proc /\ p \in comm
  BY InComms, OwnComms
<1> HIDE DEF comm
<1>3. ASSUME NEW q \in comm PROVE Progresses(q)
  <2>1. pc[q] = "Allreduce" /\ kPoint[q] \in Nat /\ kPoint'[q] = kPoint[q] + 1
    BY <1>1, <1>2 DEF AllAt, IInv, TypeOK
  <2>2. kPoint'[q] > kPoint[q]
    BY <2>1
  <2>3. CASE pc'[q] = "filter"
    BY <2>1, <2>2, <2>3 DEF Progresses, InLoops
  <2>4. CASE pc'[q] = "computeRho"
    <3>1. Stage[pc'[q]] > Stage[pc[q]]
      BY <2>1, <2>4, StageIs
    <3>2. QED
      BY <3>1 DEF Progresses
  <2>5. QED
    BY <1>1, <1>2, <2>3, <2>4
<1>4. \A q \in Proc : q \notin comm => StaysPut(q)
  BY <1>1 DEF StaysPut
<1>5. QED
  BY <1>2, <1>3, <1>4 DEF EachStepProgresses

LEMMA StepProgresses == IInv /\ [Next]_vars => [EachStepProgresses]_vars
<1> SUFFICES ASSUME IInv, Next PROVE EachStepProgresses
  BY DEF EachStepProgresses
<1>1. /\ pc \in [Proc -> Early \cup Solving \cup Ended]
      /\ Proc # {}
  <2>1. params.procs \in Nat \ {0}
    BY DEF IInv, TypeOK, ParametersType
  <2>2. 0 \in Proc
    BY <2>1 DEF Proc
  <2>3. QED
    BY <2>2 DEF IInv, TypeOK
<1>2. CASE Pool
  BY <1>1, <1>2, StageIs, GotoProgresses DEF Pool, AllAt, GotoIf, loopVars
<1>3. CASE set
  BY <1>1, <1>3, StageIs, GotoProgresses DEF set, AllAt, loopVars
<1>4. CASE computeRho
  BY <1>1, <1>4, StageIs, GotoProgresses DEF computeRho, AllAt, loopVars
<1>5. ASSUME NEW p \in Proc, CheckParameters(p) PROVE EachStepProgresses
  <2>1. {p} \in SUBSET Proc /\ {p} # {}
    OBVIOUS
  <2>2. QED
    BY <1>1, <1>5, <2>1, StageIs, GotoProgresses DEF CheckParameters, GotoIf, loopVars
<1>6. ASSUME NEW p \in Proc, generateMPGrid(p) PROVE EachStepProgresses
  <2> DEFINE comm == interpoolcomm(p)
  <2>1. comm \in SUBSET Proc /\ comm # {}
    BY InComms, OwnComms
  <2>2. /\ AllAt(comm, "generateMPGrid") /\ kPoint' = kPoint /\ jvec' = jvec
        /\ Goto(comm, "threw") \/ Goto(comm, "solve")
    BY <1>6 DEF generateMPGrid, loopVars
  <2> HIDE DEF comm
  <2>3. QED
    BY <1>1, <2>1, <2>2, StageIs, GotoProgresses DEF AllAt
<1>7. ASSUME NEW p \in Proc, BeginSolve(p) PROVE EachStepProgresses
  <2>1. /\ pc[p] = "solve" /\ kPoint' = kPoint /\ jvec' = jvec
        /\ Goto({p}, "threw") \/ Goto({p}, "filter")
    BY <1>7 DEF BeginSolve
  <2>2. {p} \in SUBSET Proc /\ {p} # {}
    OBVIOUS
  <2>3. QED
    BY <1>1, <2>1, <2>2, StageIs, GotoProgresses
<1>8. ASSUME NEW p \in Proc, chebyshevFilter(p) PROVE EachStepProgresses
  <2>1. /\ \A q \in mpi_communicator(p) : InBlockLoop(q)
        /\ SetBlock(mpi_communicator(p), "filtered")
    BY <1>8 DEF chebyshevFilter
  <2>2. mpi_communicator(p) \in SUBSET Proc /\ mpi_communicator(p) # {}
    BY InComms, OwnComms
  <2>3. QED
    BY <2>1, <2>2, SetBlockProgresses
<1>9. ASSUME NEW p \in Proc, setZero(p) PROVE EachStepProgresses
  <2>1. {p} \in SUBSET Proc /\ {p} # {} /\ InBlockLoop(p) /\ SetBlock({p}, "zero")
    BY <1>9 DEF setZero
  <2>2. QED
    BY <2>1, SetBlockProgresses
<1>10. ASSUME NEW p \in Proc, Allreduce(p) PROVE EachStepProgresses
  BY <1>10, AllreduceProgresses
<1>11. ASSUME NEW p \in Proc, SumOverPools(p) PROVE EachStepProgresses
  <2>1. interpoolcomm(p) \in SUBSET Proc /\ interpoolcomm(p) # {}
    BY InComms, OwnComms
  <2>2. /\ AllAt(interpoolcomm(p), "sumPools") /\ Goto(interpoolcomm(p), "sumBandGroups")
        /\ kPoint' = kPoint /\ jvec' = jvec
    BY <1>11 DEF SumOverPools, SumRho, loopVars
  <2>3. QED
    BY <1>1, <2>1, <2>2, StageIs, GotoProgresses DEF AllAt
<1>12. ASSUME NEW p \in Proc, SumOverBandGroups(p) PROVE EachStepProgresses
  <2>1. interBandGroupComm(p) \in SUBSET Proc /\ interBandGroupComm(p) # {}
    BY InComms, OwnComms
  <2>2. /\ AllAt(interBandGroupComm(p), "sumBandGroups") /\ Goto(interBandGroupComm(p), "done")
        /\ kPoint' = kPoint /\ jvec' = jvec
    BY <1>12 DEF SumOverBandGroups, SumRho, loopVars
  <2>3. QED
    BY <1>1, <2>1, <2>2, StageIs, GotoProgresses DEF AllAt
<1>13. QED
  BY <1>2, <1>3, <1>4, <1>5, <1>6, <1>7, <1>8, <1>9, <1>10, <1>11, <1>12 DEF Next

LEMMA ProgressBounds == IInv => ProgressIsBounded
<1> SUFFICES ASSUME IInv, NEW p \in Proc
             PROVE  /\ Stage[pc[p]] \in 0 .. 9
                    /\ pc[p] \in InLoops => /\ kPoint[p] \in 0 .. d_kPoints[p].number - 1
                                            /\ jvec[p] \in 0 .. bands
  BY DEF ProgressIsBounded
<1>1. pc[p] \in Early \cup Solving \cup Ended
  BY DEF IInv, TypeOK
<1>2. Stage[pc[p]] \in 0 .. 9
  BY <1>1, StageIs DEF Early, Undivided, Solving, Ended
<1>3. ASSUME pc[p] \in InLoops
      PROVE  kPoint[p] \in 0 .. d_kPoints[p].number - 1 /\ jvec[p] \in 0 .. bands
  <2>1. /\ kPoint[p] \in Nat /\ kPoint[p] < d_kPoints[p].number /\ d_kPoints[p].number \in Nat
        /\ jvec[p] \in 0 .. bands
    BY <1>3 DEF InLoops, IInv, TypeOK, Rank, Solving, BlocksDone
  <2>2. QED
    BY <2>1
<1>4. QED
  BY <1>2, <1>3

\* No step takes a rank back, each takes one further, and there is an end to how far: with
\* the checks of the sizes, blocks are never empty.  So the loops over k-points and blocks
\* end, and since nobody is left waiting, nothing but an end in common remains.
THEOREM IterationEnds == Spec => []ProgressIsBounded /\ [][EachStepProgresses]_vars
<1>1. QED
  BY StepProgresses, ProgressBounds, InvariantHolds, PTL DEF Spec
=============================================================================
