--------------------------- MODULE ChebyshevFilter ---------------------------
(***************************************************************************)
(* The Chebyshev filter of two blocks of wave functions on devices         *)
(* (src/linAlg/linearAlgebraOperationsDevice.cc, the overload that         *)
(* overlaps the compute of one block with the communication of the other)  *)
(* and the product HX it is built from                                     *)
(* (src/dftOperator/kohnShamDFTOperatorDevice.cc), on top of the ghost     *)
(* exchange of MPICommunicatorP2P.                                         *)
(*                                                                         *)
(* A filter is a program of MPICommunicatorP2P whose other operations are  *)
(* device kernels on all local entries of a vector.                        *)
(*                                                                         *)
(* Model simplifications.  Arithmetic is modulo Prime, so that the filter  *)
(* and the polynomial it stands for can be compared exactly; the float     *)
(* vector therefore rounds nothing.  A block holds one wave function.  The *)
(* nonlocal part of H is commented out in the code: the vectors of         *)
(* projectors are exchanged, and hold zeros.  A kernel is one step: the    *)
(* device runs the kernels of a rank in order, and waits before MPI reads. *)
(***************************************************************************)
EXTENDS MPICommunicatorP2P

CONSTANTS
  Prime,        \* the modulus
  localH,       \* localH[p][g, h]: what the cells of rank p contribute to H
  sqrtMass,     \* sqrtMass[g] of the entries that are not constrained
  constraints,  \* constraints[g] = [master, weight] of the constrained entries
  Filters,      \* the filters that are run, records [m, mixed]
  halfWidth, centre,  \* e and c: those of the unwanted spectrum
  sigma1              \* e / (a0 - c)

ASSUME PrimeAssumption == Prime \in Nat /\ Prime > 2

Block == 1 .. 2
XArray == <<"XArray1", "XArray2">>
YArray == <<"YArray1", "YArray2">>
projectorKetTimesVector == <<"projectorKetTimesVector1", "projectorKetTimesVector2">>
tempFloatArray == "tempFloatArray"

\* The vectors of a filter.
FilterVectors ==
  Vec = {tempFloatArray} \cup UNION {{XArray[k], YArray[k], projectorKetTimesVector[k]} : k \in Block}

-----------------------------------------------------------------------------
\* Numbers modulo Prime, and the coefficients of the recursion.
Mod(x) == x % Prime
InverseOf(x) == CHOOSE y \in 1 .. Prime - 1 : Mod(x * y) = 1

sigma2[d \in Nat \ {0}] ==
  IF d = 1 THEN sigma1 ELSE InverseOf(2 * InverseOf(sigma1) - sigma2[d - 1])

alpha1(d) == Mod((IF d = 1 THEN 1 ELSE 2) * sigma2[d] * InverseOf(halfWidth))
alpha2(d) == Mod(-(sigma2[d - 1] * sigma2[d]))
coeff(d) == Mod(-(centre * alpha1(d)))

\* The mass of a constrained entry is zero in both vectors.
d_sqrtMassVector(g) == IF g \in DOMAIN constraints THEN 0 ELSE sqrtMass[g]
d_invSqrtMassVector(g) == IF g \in DOMAIN constraints THEN 0 ELSE InverseOf(sqrtMass[g])

-----------------------------------------------------------------------------
\* The operations on vectors: one record for each call.
updateGhostValues(v) == <<[op |-> "updateBegin", v |-> v], [op |-> "updateEnd", v |-> v]>>
accumulate(v) == <<[op |-> "accumulateBegin", v |-> v], [op |-> "accumulateEnd", v |-> v]>>
zeroGhosts(v) == <<[op |-> "zeroOutGhosts", v |-> v]>>
setZero(v) == <<[op |-> "setZero", v |-> v]>>
swap(v, u) == <<[op |-> "swap", v |-> v, x |-> u]>>
copyEntries(from, to, which) == <<[op |-> "copy", v |-> to, x |-> from, which |-> which]>>
axpby(x, y, a, b) == <<[op |-> "axpby", v |-> y, x |-> x, a |-> a, b |-> b]>>
ascal(v, a) == <<[op |-> "scale", v |-> v, by |-> "one", a |-> a]>>
scaleSqrtMass(v, a) == <<[op |-> "scale", v |-> v, by |-> "sqrtMass", a |-> a]>>
scaleInvSqrtMass(v, a) == <<[op |-> "scale", v |-> v, by |-> "invSqrtMass", a |-> a]>>
combinedDeviceKernel(x, y, a, b, scalar, scalarOld) ==
  <<[op |-> "combined", v |-> y, x |-> x, a |-> a, b |-> b,
     scalar |-> scalar, scalarOld |-> scalarOld]>>

computePart1(src, dst) ==
  <<[op |-> "distribute", v |-> src], [op |-> "computeLocalHamiltonianTimesX", v |-> dst, x |-> src]>>
computePart2(dst) == <<[op |-> "distributeSlaveToMaster", v |-> dst]>>

\* Exchanges by way of the float vector, if mixed precision is used.
UpdateBegin(v, mixed) ==
  IF mixed
  THEN copyEntries(v, tempFloatArray, "owned") \o <<[op |-> "updateBegin", v |-> tempFloatArray]>>
  ELSE <<[op |-> "updateBegin", v |-> v]>>

UpdateEnd(v, mixed) ==
  IF mixed
  THEN <<[op |-> "updateEnd", v |-> tempFloatArray]>> \o copyEntries(tempFloatArray, v, "ghost")
  ELSE <<[op |-> "updateEnd", v |-> v]>>

AccumulateBegin(v, mixed) ==
  IF mixed
  THEN copyEntries(v, tempFloatArray, "all") \o <<[op |-> "accumulateBegin", v |-> tempFloatArray]>>
  ELSE <<[op |-> "accumulateBegin", v |-> v]>>

AccumulateEnd(v, mixed) ==
  IF mixed
  THEN <<[op |-> "accumulateEnd", v |-> tempFloatArray]>>
       \o copyEntries(tempFloatArray, v, "boundary") \o zeroGhosts(v)
  ELSE <<[op |-> "accumulateEnd", v |-> v]>>

\* Fault: the ghosts of the source are left as they are.
HXKeepingGhosts(src, dst, scaleFlag, scalar) ==
  scaleInvSqrtMass(src, scalar)
  \o (IF scaleFlag THEN scaleSqrtMass(dst, 1) ELSE <<>>)
  \o updateGhostValues(src)
  \o computePart1(src, dst) \o computePart2(dst)
  \o accumulate(dst)
  \o scaleInvSqrtMass(dst, 1) \o scaleSqrtMass(src, InverseOf(scalar))

HX(src, dst, scaleFlag, scalar) ==
  scaleInvSqrtMass(src, scalar)
  \o (IF scaleFlag THEN scaleSqrtMass(dst, 1) ELSE <<>>)
  \o updateGhostValues(src)
  \o computePart1(src, dst) \o computePart2(dst)
  \o zeroGhosts(src) \o accumulate(dst)
  \o scaleInvSqrtMass(dst, 1) \o scaleSqrtMass(src, InverseOf(scalar))

\* HXCheby without the flags of a part.
HXCheby(src, dst, mixed) ==
  UpdateBegin(src, mixed) \o UpdateEnd(src, mixed)
  \o computePart1(src, dst) \o computePart2(dst)
  \o zeroGhosts(src) \o AccumulateBegin(dst, mixed) \o AccumulateEnd(dst, mixed)

\* The product of the first degree, for one block.
FirstProduct(k) == HX(XArray[k], YArray[k], FALSE, 1)

FirstDegree(k) ==
  axpby(XArray[k], YArray[k], Mod(-centre), 1) \o ascal(YArray[k], alpha1(1))

SecondDegree(k, mixed) ==
  axpby(YArray[k], XArray[k], coeff(2), alpha2(2))
  \o scaleInvSqrtMass(YArray[k], alpha1(2)) \o scaleSqrtMass(XArray[k], 1)
  \o HXCheby(YArray[k], XArray[k], mixed)

LastDegree(k, m) ==
  scaleSqrtMass(XArray[k], InverseOf(alpha1(m - 1))) \o scaleInvSqrtMass(YArray[k], 1)
  \o axpby(YArray[k], XArray[k], coeff(m), alpha2(m))
  \o HX(YArray[k], XArray[k], TRUE, alpha1(m))

\* Fault: the compress of the other block begins before the update has ended.
CompressBeforeUpdateEnds(k, l, d, lagging, mixed) ==
  LET Lagging(ops) == IF lagging THEN ops ELSE <<>>
      P == projectorKetTimesVector
  IN  Lagging(<<[op |-> "accumulateBegin", v |-> P[l]]>>)
      \o combinedDeviceKernel(YArray[k], XArray[k], coeff(d), alpha2(d), alpha1(d), alpha1(d - 1))
      \o Lagging(<<[op |-> "accumulateEnd", v |-> P[l]]>> \o updateGhostValues(P[l]))
      \o UpdateBegin(YArray[k], mixed)
      \o Lagging(computePart2(XArray[l]) \o zeroGhosts(YArray[l]) \o AccumulateBegin(XArray[l], mixed))
      \o UpdateEnd(YArray[k], mixed)
      \o setZero(P[k])
      \o computePart1(YArray[k], XArray[k])
      \o Lagging(AccumulateEnd(XArray[l], mixed))

\* Half of an overlapped degree: the product of block k begins while that of
\* block l, which lags behind, is completed.
HalfDegree(k, l, d, lagging, mixed) ==
  LET Lagging(ops) == IF lagging THEN ops ELSE <<>>
      P == projectorKetTimesVector
  IN  Lagging(<<[op |-> "accumulateBegin", v |-> P[l]]>>)
      \o combinedDeviceKernel(YArray[k], XArray[k], coeff(d), alpha2(d), alpha1(d), alpha1(d - 1))
      \o Lagging(<<[op |-> "accumulateEnd", v |-> P[l]]>> \o updateGhostValues(P[l]))
      \o UpdateBegin(YArray[k], mixed)
      \o Lagging(computePart2(XArray[l]))
      \o UpdateEnd(YArray[k], mixed)
      \o Lagging(zeroGhosts(YArray[l]))
      \o setZero(P[k])
      \o Lagging(AccumulateBegin(XArray[l], mixed))
      \o computePart1(YArray[k], XArray[k])
      \o Lagging(AccumulateEnd(XArray[l], mixed))

\* What is left of the product of block 2 when no overlapped degree follows.
CompleteBlock2(mixed) ==
  LET P2 == projectorKetTimesVector[2]
  IN  accumulate(P2) \o updateGhostValues(P2)
      \o computePart2(XArray[2]) \o zeroGhosts(YArray[2])
      \o AccumulateBegin(XArray[2], mixed) \o AccumulateEnd(XArray[2], mixed)

\* overlap before degree d, and after it.
IsOverlapped(d, m) == 2 < d /\ d < m
overlap(d, m) == IsOverlapped(d - 1, m) /\ d - 1 # m - 1

OverlappedDegree(d, m, mixed) ==
  HalfDegree(1, 2, d, overlap(d, m), mixed)
  \o (IF overlap(d, m) THEN swap(XArray[2], YArray[2]) ELSE <<>>)
  \o HalfDegree(2, 1, d, TRUE, mixed)
  \o (IF d = m - 1 THEN CompleteBlock2(mixed) ELSE <<>>)

\* Fault: both blocks are swapped at the end of every degree.
SwapBoth(d, m) == swap(XArray[1], YArray[1]) \o swap(XArray[2], YArray[2])

SwapBlocks(d, m) ==
  swap(XArray[1], YArray[1])
  \o (IF overlap(d + 1, m) THEN <<>> ELSE swap(XArray[2], YArray[2]))

ChebyshevDegree(d, m, mixed) ==
  (CASE d = 2 -> SecondDegree(1, mixed) \o SecondDegree(2, mixed)
     [] d # 2 /\ d = m -> LastDegree(1, m) \o LastDegree(2, m)
     [] OTHER -> OverlappedDegree(d, m, mixed))
  \o SwapBlocks(d, m)

\* The caller fills both blocks; then the filter of degree m.
chebyshevFilter(m, mixed) ==
  LET upTo[d \in 1 .. m] ==
        IF d = 1
        THEN <<[op |-> "compute", v |-> XArray[1]], [op |-> "compute", v |-> XArray[2]]>>
             \o setZero(YArray[1]) \o setZero(YArray[2])
             \o FirstProduct(1) \o FirstProduct(2) \o FirstDegree(1) \o FirstDegree(2)
        ELSE upTo[d - 1] \o ChebyshevDegree(d, m, mixed)
  IN  upTo[m] \o copyEntries(YArray[1], XArray[1], "owned")
              \o copyEntries(YArray[2], XArray[2], "owned")

ProgramOf == [f \in Filters |-> chebyshevFilter(f.m, f.mixed)]
FilterPrograms == {ProgramOf[f] : f \in Filters}

\* What the code's filters have in common.  The two arrays of a block are made with one
\* pattern, since they change places, and no rank has an index both as owner and as ghost.
Alike(v, x) == OwnedRanges[v] = OwnedRanges[x] /\ GhostIndices[v] = GhostIndices[x]
AlikeBlocks == \A k \in Block : Alike(XArray[k], YArray[k])

FilterSetting ==
  /\ Filters \subseteq [m : Nat \ {0}, mixed : BOOLEAN]
  /\ Programs \subseteq FilterPrograms
  /\ FilterVectors
  /\ AlikeBlocks
  /\ \A v \in Vec : \A p \in Rank : GhostIndices[v][p] \cap Indices(OwnedRanges[v][p]) = {}

-----------------------------------------------------------------------------
\* The kernels.  Entry g of v on p is owned, or a ghost.
Owned(p, v) == Indices(OwnedRanges[v][p])
LocalEntries(p, v) == Owned(p, v) \cup GhostIndices[v][p]
entry(p, v, g) ==
  IF g \in Owned(p, v) THEN owned[p][v][g - OwnedRanges[v][p].first]
  ELSE ghost[p][v][localGhostIndex(GhostIndices[v][p], g)]

\* p's entries of v become f[g], for those that are in f's domain.
Assign(p, v, f) ==
  /\ owned' = [owned EXCEPT ![p][v] = [i \in DOMAIN @ |->
                 LET g == Global(p, v, i) IN IF g \in DOMAIN f THEN f[g] ELSE @[i]]]
  /\ ghost' = [ghost EXCEPT ![p][v] = [j \in DOMAIN @ |->
                 LET g == GhostAt(p, v, j) IN IF g \in DOMAIN f THEN f[g] ELSE @[j]]]

NextOp(p) == program[pos[p] + 1]

Factor(by, g) ==
  CASE by = "one" -> 1
    [] by = "sqrtMass" -> d_sqrtMassVector(g)
    [] by = "invSqrtMass" -> d_invSqrtMassVector(g)

\* The owned entries that are ghosts of another rank.
BoundaryNodes(p, v) == {g \in Owned(p, v) : \E q \in Rank : g \in GhostIndices[v][q]}

Copied(p, v, which) ==
  CASE which = "owned" -> Owned(p, v)
    [] which = "ghost" -> GhostIndices[v][p]
    [] which = "all" -> LocalEntries(p, v)
    [] which = "boundary" -> BoundaryNodes(p, v)

Constrained(p, v) == LocalEntries(p, v) \cap DOMAIN constraints
SlavesOf(p, v, g) == {s \in Constrained(p, v) : constraints[s].master = g}

\* combinedDeviceKernel, the new entries of x and of y.
CombinedX(p, o, g) == Mod(Mod(entry(p, o.x, g) * d_invSqrtMassVector(g))
                          * Mod(d_invSqrtMassVector(g) * o.scalar))
CombinedY(p, o, g) ==
  LET y == Mod(entry(p, o.v, g) * Mod(d_sqrtMassVector(g) * InverseOf(o.scalarOld)))
      x == Mod(entry(p, o.x, g) * d_invSqrtMassVector(g))
  IN  Mod(Mod(o.a * x + o.b * y) * d_sqrtMassVector(g))

\* The next call of p is a kernel of this name.
Launched(p, name) ==
  /\ pos[p] < Len(program)
  /\ NextOp(p).op = name
  /\ Advance(p)
  /\ UNCHANGED <<buffer, mpi>>

SetValue(p) ==
  /\ Launched(p, "setZero")
  /\ LET v == NextOp(p).v IN Assign(p, v, [g \in LocalEntries(p, v) |-> 0])

Copy(p) ==
  /\ Launched(p, "copy")
  /\ LET o == NextOp(p)
     IN  Assign(p, o.v, [g \in Copied(p, o.v, o.which) |-> entry(p, o.x, g)])

Axpby(p) ==
  /\ Launched(p, "axpby")
  /\ LET o == NextOp(p)
     IN  Assign(p, o.v, [g \in Owned(p, o.v) |->
           Mod(o.a * entry(p, o.x, g) + o.b * entry(p, o.v, g))])

Scale(p) ==
  /\ Launched(p, "scale")
  /\ LET o == NextOp(p)
     IN  Assign(p, o.v, [g \in Owned(p, o.v) |->
           Mod(entry(p, o.v, g) * Mod(o.a * Factor(o.by, g)))])

Combined(p) ==
  /\ Launched(p, "combined")
  /\ LET o == NextOp(p)
     IN  owned' = [owned EXCEPT
           ![p][o.v] = [i \in DOMAIN @ |-> CombinedY(p, o, Global(p, o.v, i))],
           ![p][o.x] = [i \in DOMAIN @ |-> CombinedX(p, o, Global(p, o.x, i))]]
  /\ UNCHANGED ghost

distribute(p) ==
  /\ Launched(p, "distribute")
  /\ LET v == NextOp(p).v
     IN  Assign(p, v, [g \in Constrained(p, v) |->
           Mod(constraints[g].weight * entry(p, v, constraints[g].master))])

distributeSlaveToMaster(p) ==
  /\ Launched(p, "distributeSlaveToMaster")
  /\ LET v == NextOp(p).v
     IN  Assign(p, v, [g \in LocalEntries(p, v) |->
           IF g \in Constrained(p, v) THEN 0
           ELSE Mod(entry(p, v, g) + MapThenSumSet(
                  LAMBDA s : constraints[s].weight * entry(p, v, s), SlavesOf(p, v, g)))])

computeLocalHamiltonianTimesX(p) ==
  /\ Launched(p, "computeLocalHamiltonianTimesX")
  /\ LET o == NextOp(p)
     IN  Assign(p, o.v, [g \in LocalEntries(p, o.v) |->
           Mod(entry(p, o.v, g) + MapThenSumSet(
             LAMBDA h : localH[p][g, h] * entry(p, o.x, h), LocalEntries(p, o.x)))])

\* MultiVector::swap: storage and communicator objects change places.
Swap(p) ==
  /\ pos[p] < Len(program)
  /\ LET o == NextOp(p)
         Swapped(f) == [f EXCEPT ![p][o.v] = f[p][o.x], ![p][o.x] = f[p][o.v]]
     IN  /\ o.op = "swap"
         /\ owned' = Swapped(owned)
         /\ ghost' = Swapped(ghost)
         /\ buffer' = Swapped(buffer)
  /\ Advance(p)
  /\ UNCHANGED mpi

KernelStep(p) ==
  \/ SetValue(p)
  \/ Copy(p)
  \/ Axpby(p)
  \/ Scale(p)
  \/ Combined(p)
  \/ distribute(p)
  \/ distributeSlaveToMaster(p)
  \/ computeLocalHamiltonianTimesX(p)

FilterNext ==
  \/ \E p \in Rank : RankStep(p) \/ KernelStep(p) \/ Swap(p)
  \/ Progress
  \/ Terminated

FilterSpec == Init /\ [][FilterNext]_vars
-----------------------------------------------------------------------------
\* What the filter stands for, on a vector x of the entries that are not
\* constrained: T(1) = alpha1 (H - c) x, T(d) = alpha1 (H - c) T(d - 1) + alpha2 T(d - 2),
\* where c is the centre and H is M^{-1/2} H M^{-1/2} with the constraints eliminated.
\* These vectors are graphs, sets of pairs <<g, value>>.
Everywhere == UNION {Owned(p, XArray[1]) : p \in Rank}
Free == Everywhere \ DOMAIN constraints
ValueAt(x, g) == CHOOSE n \in 0 .. Prime - 1 : <<g, n>> \in x

Extended(x) ==
  x \cup {<<g, Mod(constraints[g].weight * ValueAt(x, constraints[g].master))>> :
             g \in DOMAIN constraints}

GlobalH(x, g) ==
  MapThenSumSet(LAMBDA p :
    IF g \in LocalEntries(p, XArray[1])
    THEN MapThenSumSet(LAMBDA h : localH[p][g, h] * ValueAt(x, h), LocalEntries(p, XArray[1]))
    ELSE 0, Rank)

ScaledH(x) ==
  LET y == Extended({<<g, Mod(ValueAt(x, g) * InverseOf(sqrtMass[g]))>> : g \in Free})
      Row(g) == GlobalH(y, g) + MapThenSumSet(
                  LAMBDA s : constraints[s].weight * GlobalH(y, s),
                  {s \in DOMAIN constraints : constraints[s].master = g})
  IN  {<<g, Mod(Mod(Row(g)) * InverseOf(sqrtMass[g]))>> : g \in Free}

Polynomial(x, m) ==
  LET T[d \in 1 .. m] ==      \* T(d - 1) and T(d)
        LET last == IF d = 1 THEN <<{<<g, 0>> : g \in Free}, x>> ELSE T[d - 1]
            H == ScaledH(last[2])
        IN  <<last[2],
              {<<g, Mod(alpha1(d) * (ValueAt(H, g) - centre * ValueAt(last[2], g))
                        + (IF d = 1 THEN 0 ELSE alpha2(d) * ValueAt(last[1], g)))>> : g \in Free}>>
  IN  T[m][2]

InputOf(k) ==
  {<<g, Mod(Computed(OwnerOf(XArray[k], g), k - 1, g))>> : g \in Free}

\* However ranks and messages interleave, the filter with its two overlapped
\* blocks, its lagging second block and its shared float vector leaves in both
\* blocks the Chebyshev polynomial of H of degree m, applied to what was there.
FilterMatchesPolynomial ==
  \A p \in Rank : pos[p] = Len(program) =>
    \A f \in Filters : program = ProgramOf[f] =>
      \A k \in Block : \A g \in Free \cap Owned(p, XArray[k]) :
        Mod(entry(p, XArray[k], g)) = ValueAt(Polynomial(InputOf(k), f.m), g)

\* A product is added to a vector whose ghost section is clear, although the
\* accumulation of MultiVector does not clear it: what was there would be sent
\* to the owners a second time.
ProductsAddToClearedGhosts ==
  \A p \in Rank :
    pos[p] < Len(program) /\ NextOp(p).op = "computeLocalHamiltonianTimesX" =>
      \A j \in localGhost(p, NextOp(p).v) : ghost[p][NextOp(p).v][j] = 0

InAccumulate(p, v) == Opened(p, v, "accumulateBegin", "accumulateEnd")
Open(p, v) == InUpdate(p, v) \/ InAccumulate(p, v)

\* Between the begin and the end of an exchange of a vector, its rank neither
\* writes nor swaps it, and begins no other exchange of it: the float vector
\* serves one block at a time.
OpenVectorsAreLeftAlone ==
  [][\A p \in Rank : \A v \in Vec : pos'[p] # pos[p] /\ Open(p, v) /\ Open(p, v)' =>
       /\ owned'[p][v] = owned[p][v]
       /\ ghost'[p][v] = ghost[p][v]
       /\ buffer'[p][v] = buffer[p][v]]_vars
=============================================================================
