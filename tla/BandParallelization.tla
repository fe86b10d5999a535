------------------------ MODULE BandParallelization ------------------------
(***************************************************************************)
(* The division of the ranks of a calculation into pools of k-points, band *)
(* groups and domains (src/utils/dftUtils.cc, Pool), and what they do with *)
(* it in one self-consistent iteration: the k-points are scattered         *)
(* (src/dft/initkPointData.cc), the wave functions of each are filtered in *)
(* blocks by one band group or another and put together again              *)
(* (solvers/eigenSolvers/chebyshevOrthogonalizedSubspaceIteration*.cc),    *)
(* and the density is summed over all of them (dft/densityCalculator*.cc). *)
(*                                                                         *)
(* Model simplifications.  The build is the complex one (USE_COMPLEX); no  *)
(* spin and no spectrum splitting, whose loops have the same form.  A wave *)
(* function is "initial", "zero" or "filtered"; what orthogonalization and *)
(* rotation do to it on all ranks alike is left out.  A collective call is *)
(* one step of all the ranks of its communicator.  The blocks of a density *)
(* are one step, since no other rank takes part in it.                     *)
(***************************************************************************)
EXTENDS Integers, FiniteSets, FiniteSetsExt

CONSTANT Parameters  \* the parameter files, and numbers of ranks, of the runs

\* The ranges that the parameter file and MPI admit.
ParametersType ==
  [procs : Nat \ {0}, npool : Nat \ {0}, nbandGrps : Nat \ {0}, kPoints : Nat \ {0},
   numEigenValues : Nat \ {0}, chebyWfcBlockSize : Nat \ {0}, wfcBlockSize : Nat \ {0},
   useDevice : BOOLEAN, autoDeviceBlockSizes : BOOLEAN,
   overlapComputeCommunCheby : BOOLEAN, bandParalOpt : BOOLEAN]

ASSUME ParametersAssumption == Parameters \subseteq ParametersType

VARIABLES
  params,                \* what was read; the block sizes may be set later
  pc,                    \* pc[p]: what rank p does next
  d_kPoints,             \* d_kPoints[p]: the first k-point of p's pool, and their number
  kPoint,                \* kPoint[p]: how many of them p has solved
  jvec,                  \* jvec[p]: the next band of the block loop
  startIndexBandParal,   \* the first band that p filtered, and the number
  numVectorsBandParal,   \* of bands from there to the last
  eigenVectors,          \* eigenVectors[p][i][b]: band b of p's k-point i
  rhoValues              \* rhoValues[p][k, b]: how often the density has state (k, b)

vars == <<params, pc, d_kPoints, kPoint, jvec, startIndexBandParal,
          numVectorsBandParal, eigenVectors, rhoValues>>

-----------------------------------------------------------------------------
\* Two divisions of ranks.  A rank of a communicator is its place in it.
Proc == 0 .. params.procs - 1
RankIn(comm, p) == Cardinality({q \in comm : q < p})
poolSize(comm, npool) == Cardinality(comm) \div npool

interpool(comm, npool, p) ==
  {q \in comm : RankIn(comm, q) % poolSize(comm, npool) = RankIn(comm, p) % poolSize(comm, npool)}
intrapool(comm, npool, p) ==
  {q \in comm : RankIn(comm, q) \div poolSize(comm, npool)
                = RankIn(comm, p) \div poolSize(comm, npool)}

interpoolcomm(p) == interpool(Proc, params.npool, p)
kPointPool(p) == intrapool(Proc, params.npool, p)
interBandGroupComm(p) == interpool(kPointPool(p), params.nbandGrps, p)
mpi_communicator(p) == intrapool(kPointPool(p), params.nbandGrps, p)

-----------------------------------------------------------------------------
\* The bands of a group, as a half-open range.
bandGroupLow(numBands, groups, i) == i * (numBands \div groups)
bandGroupHigh(numBands, groups, i) ==
  IF i = groups - 1 THEN numBands ELSE (i + 1) * (numBands \div groups)

\* Fault: a block that ends where a group begins is also that group's.
EndsAtLowToo(numBands, groups, i, end) ==
  /\ end <= bandGroupHigh(numBands, groups, i)
  /\ end >= bandGroupLow(numBands, groups, i)

\* A block of bands is filtered by the group that its end lies in.
EndsInGroup(numBands, groups, i, end) ==
  /\ end <= bandGroupHigh(numBands, groups, i)
  /\ end > bandGroupLow(numBands, groups, i)

Minimum(a, b) == IF a <= b THEN a ELSE b
Ceil(a, b) == (a + b - 1) \div b
bands == params.numEigenValues
Band == 0 .. bands - 1
groupSize == bandGroupHigh(bands, params.nbandGrps, 0)

\* Fault: the place of a rank in its domain is taken for that of its band group.
PlaceInDomain(p) == RankIn(mpi_communicator(p), p)

bandGroupTaskId(p) == RankIn(interBandGroupComm(p), p)
InOwnGroup(p, end) == EndsInGroup(bands, params.nbandGrps, bandGroupTaskId(p), end)

vectorsBlockSize ==
  Minimum(params.chebyWfcBlockSize, IF params.useDevice THEN bands ELSE groupSize)

\* Fault: two blocks are filtered at once also if only one is left.
AlwaysTwoBlocks(p, j) == IF params.overlapComputeCommunCheby THEN 2 ELSE 1

\* Two blocks are filtered at once on devices, if both fit into the group.
numSimultaneousBlocksCurrent(p, j) ==
  LET i == bandGroupTaskId(p)
      numWfcsInBandGroup == bandGroupHigh(bands, params.nbandGrps, i)
                            - bandGroupLow(bands, params.nbandGrps, i)
      leftIndexBandGroupMargin == (j \div numWfcsInBandGroup) * numWfcsInBandGroup
  IN  IF /\ params.overlapComputeCommunCheby
         /\ j + 2 * vectorsBlockSize - leftIndexBandGroupMargin <= numWfcsInBandGroup
      THEN 2 ELSE 1

BVec(p, j) ==
  IF params.useDevice THEN numSimultaneousBlocksCurrent(p, j) * vectorsBlockSize
  ELSE Minimum(vectorsBlockSize, bands - j)

\* The sizes that are chosen for a run on devices.
BlockSizeChoices(n) ==
  CASE n <= 600 -> {90, 100, 110, 120}
    [] 600 < n /\ n <= 1000 -> {150, 160, 170, 180}
    [] 1000 < n /\ n <= 2000 -> {200, 220, 240, 260}
    [] n > 2000 -> {360, 380, 400, 440}

autoDeviceBlockSizes(f) ==
  LET n == Ceil(f.numEigenValues, f.nbandGrps)
      Bands(size) == Ceil(n, size) * size * f.nbandGrps
      Best == {s \in BlockSizeChoices(n) : \A t \in BlockSizeChoices(n) : Bands(s) <= Bands(t)}
      size == Min(Best)
  IN  IF n <= 100
      THEN [f EXCEPT !.numEigenValues = n * f.nbandGrps,
                     !.chebyWfcBlockSize = n, !.wfcBlockSize = n]
      ELSE [f EXCEPT !.numEigenValues = Bands(size), !.wfcBlockSize = size,
                     !.chebyWfcBlockSize = IF n <= 600 THEN size ELSE size \div 2]

-----------------------------------------------------------------------------
\* The checks of the parameters, in the order in which they are made.
check_parameters ==
  /\ params.nbandGrps <= params.numEigenValues
  /\ params.nbandGrps > 1 => params.wfcBlockSize = params.chebyWfcBlockSize

DeviceChecks ==
  /\ bands % params.chebyWfcBlockSize = 0 \/ bands \div params.chebyWfcBlockSize = 0
  /\ bands % params.wfcBlockSize = 0 \/ bands \div params.wfcBlockSize = 0
  /\ params.wfcBlockSize % params.chebyWfcBlockSize = 0
  /\ bands % params.nbandGrps = 0 \/ bands \div params.nbandGrps = 0
  /\ bands \div params.nbandGrps # 0
  /\ groupSize % params.chebyWfcBlockSize = 0
  /\ groupSize % params.wfcBlockSize = 0

ChecksPass == IF params.useDevice THEN DeviceChecks ELSE bands \div params.nbandGrps # 0

\* How many k-points a pool gets, and how many the pools before it get.
sendSizekPoints(i) ==
  params.kPoints \div params.npool + (IF i < params.kPoints % params.npool THEN 1 ELSE 0)

\* Fault: the pools are taken to have equally many k-points.
EqualOffsets(i) == i * (params.kPoints \div params.npool)

mpiOffsetskPoints(i) == MapThenSumSet(sendSizekPoints, 0 .. i - 1)

-----------------------------------------------------------------------------
Init ==
  /\ params \in Parameters
  /\ pc = [p \in Proc |-> "check_parameters"]
  /\ d_kPoints = [p \in Proc |-> [first |-> 0, number |-> 0]]
  /\ kPoint = [p \in Proc |-> 0]
  /\ jvec = [p \in Proc |-> 0]
  /\ startIndexBandParal = [p \in Proc |-> 0]
  /\ numVectorsBandParal = [p \in Proc |-> 0]
  /\ eigenVectors = [p \in Proc |-> <<>>]
  /\ rhoValues = [p \in Proc |-> <<>>]

AllAt(comm, label) == \A p \in comm : pc[p] = label
Goto(comm, label) == pc' = [p \in Proc |-> IF p \in comm THEN label ELSE pc[p]]
GotoIf(test, comm, label) == IF test THEN Goto(comm, label) ELSE Goto(comm, "threw")

loopVars == <<jvec, startIndexBandParal, numVectorsBandParal>>

\* dftParameters::check_parameters, on every rank by itself.
CheckParameters(p) ==
  /\ pc[p] = "check_parameters"
  /\ GotoIf(check_parameters, {p}, "Pool")
  /\ UNCHANGED <<params, d_kPoints, kPoint, loopVars, eigenVectors, rhoValues>>

\* Both pools are split, with barriers of all their ranks.
Pool ==
  /\ AllAt(Proc, "Pool")
  /\ GotoIf(/\ params.procs % params.npool = 0
            /\ (params.procs \div params.npool) % params.nbandGrps = 0, Proc, "set")
  /\ UNCHANGED <<params, d_kPoints, kPoint, loopVars, eigenVectors, rhoValues>>

\* dftClass::set: every rank computes the same sizes.
set ==
  /\ AllAt(Proc, "set")
  /\ params' = IF params.useDevice /\ params.autoDeviceBlockSizes
               THEN autoDeviceBlockSizes(params) ELSE params
  /\ Goto(Proc, "generateMPGrid")
  /\ UNCHANGED <<d_kPoints, kPoint, loopVars, eigenVectors, rhoValues>>

\* Fault: only the ranks of a pool that gets no k-point throw.
EmptyPoolsThrow(p) ==
  LET comm == interpoolcomm(p)
      number(q) == sendSizekPoints(RankIn(comm, q))
  IN  /\ AllAt(comm, "generateMPGrid")
      /\ pc' = [q \in Proc |-> IF q \notin comm THEN pc[q]
                               ELSE IF number(q) = 0 THEN "threw" ELSE "solve"]
      /\ d_kPoints' = [q \in Proc |->
           IF q \in comm THEN [first |-> mpiOffsetskPoints(RankIn(comm, q)), number |-> number(q)]
           ELSE d_kPoints[q]]
      /\ UNCHANGED <<params, kPoint, loopVars, eigenVectors, rhoValues>>

\* The ranks of interpoolcomm scatter the k-points.
generateMPGrid(p) ==
  LET comm == interpoolcomm(p)
  IN  /\ AllAt(comm, "generateMPGrid")
      /\ \/ /\ params.kPoints < params.npool
            /\ Goto(comm, "threw") /\ UNCHANGED d_kPoints
         \/ /\ params.kPoints >= params.npool
            /\ Goto(comm, "solve")
            /\ d_kPoints' = [q \in Proc |->
                 IF q \in comm THEN [first |-> mpiOffsetskPoints(RankIn(comm, q)),
                                     number |-> sendSizekPoints(RankIn(comm, q))]
                 ELSE d_kPoints[q]]
      /\ UNCHANGED <<params, kPoint, loopVars, eigenVectors, rhoValues>>

\* The checks at the head of the solve, and the wave functions of the start.
BeginSolve(p) ==
  /\ pc[p] = "solve"
  /\ \/ /\ ~ ChecksPass
        /\ Goto({p}, "threw") /\ UNCHANGED <<startIndexBandParal, eigenVectors>>
     \/ /\ ChecksPass
        /\ Goto({p}, "filter")
        /\ startIndexBandParal' = [startIndexBandParal EXCEPT ![p] = bands]
        /\ eigenVectors' = [eigenVectors EXCEPT
             ![p] = [i \in 0 .. d_kPoints[p].number - 1 |-> [b \in Band |-> "initial"]]]
  /\ UNCHANGED <<params, d_kPoints, kPoint, jvec, numVectorsBandParal, rhoValues>>

InBlockLoop(p) == pc[p] = "filter" /\ jvec[p] < bands
BlockEnd(p) == jvec[p] + BVec(p, jvec[p])

\* The block of each rank in comm gets a value, and the loop goes on.
SetBlock(comm, value) ==
  /\ eigenVectors' = [q \in Proc |->
       IF q \in comm
       THEN [eigenVectors[q] EXCEPT ![kPoint[q]] =
              [b \in Band |-> IF jvec[q] <= b /\ b < BlockEnd(q) THEN value ELSE @[b]]]
       ELSE eigenVectors[q]]
  /\ jvec' = [q \in Proc |-> IF q \in comm THEN BlockEnd(q) ELSE jvec[q]]
  /\ pc' = [q \in Proc |-> IF q \in comm /\ BlockEnd(q) >= bands THEN "Allreduce" ELSE pc[q]]
  /\ UNCHANGED <<params, d_kPoints, kPoint, rhoValues>>

\* A block of the group is filtered: a collective call of the domain.
chebyshevFilter(p) ==
  LET comm == mpi_communicator(p)
  IN  /\ \A q \in comm : InBlockLoop(q) /\ InOwnGroup(q, BlockEnd(q))
      /\ SetBlock(comm, "filtered")
      /\ startIndexBandParal' = [q \in Proc |->
           IF q \in comm THEN Minimum(jvec[q], startIndexBandParal[q]) ELSE startIndexBandParal[q]]
      /\ numVectorsBandParal' = [q \in Proc |->
           IF q \in comm THEN BlockEnd(q) - startIndexBandParal'[q] ELSE numVectorsBandParal[q]]

\* A block of another group is set to zero.
setZero(p) ==
  /\ InBlockLoop(p) /\ ~ InOwnGroup(p, BlockEnd(p))
  /\ SetBlock({p}, "zero")
  /\ UNCHANGED <<startIndexBandParal, numVectorsBandParal>>

\* What ranks make of a band together, when part[q] is what q has of it.
Joined(part) ==
  LET Parts == {q \in DOMAIN part : part[q] # "zero"}
  IN  IF Parts = {} THEN "zero"
      ELSE IF Cardinality(Parts) > 1 THEN "mixed"
      ELSE part[CHOOSE q \in Parts : TRUE]

\* The sum of all wave functions over the band groups.
Allreduced(comm, b) == Joined([q \in comm |-> eigenVectors[q][kPoint[q]][b]])

\* On hosts, with BAND PARAL OPT, only what each of them filtered is gathered.
Allgathered(comm, b) ==
  Joined([q \in comm |->
    IF startIndexBandParal[q] <= b /\ b < startIndexBandParal[q] + numVectorsBandParal[q]
    THEN eigenVectors[q][kPoint[q]][b] ELSE "zero"])

\* The wave functions are put together, and the next k-point begins, or the density.
Allreduce(p) ==
  LET comm == interBandGroupComm(p)
      Joint(b) == IF params.bandParalOpt /\ ~ params.useDevice
                  THEN Allgathered(comm, b) ELSE Allreduced(comm, b)
      Vectors == [b \in Band |-> Joint(b)]
  IN  /\ AllAt(comm, "Allreduce")
      /\ eigenVectors' = [q \in Proc |->
           IF q \in comm THEN [eigenVectors[q] EXCEPT ![kPoint[q]] = Vectors] ELSE eigenVectors[q]]
      /\ kPoint' = [q \in Proc |-> IF q \in comm THEN kPoint[q] + 1 ELSE kPoint[q]]
      /\ pc' = [q \in Proc |->
           IF q \notin comm THEN pc[q]
           ELSE IF kPoint'[q] < d_kPoints[q].number THEN "filter" ELSE "computeRho"]
      /\ jvec' = [q \in Proc |-> IF q \in comm THEN 0 ELSE jvec[q]]
      /\ startIndexBandParal' = [q \in Proc |-> IF q \in comm THEN bands ELSE startIndexBandParal[q]]
      /\ numVectorsBandParal' = [q \in Proc |-> IF q \in comm THEN 0 ELSE numVectorsBandParal[q]]
      /\ UNCHANGED <<params, d_kPoints, rhoValues>>

\* The end of the block of the density loop that band b is in.
DensityBlockEnd(b) ==
  LET end == (b \div vectorsBlockSize + 1) * vectorsBlockSize
  IN  IF params.useDevice THEN end ELSE Minimum(end, bands)

\* After a barrier of all ranks, each adds up the blocks of its own group for all
\* k-points of its pool.
computeRho ==
  /\ AllAt(Proc, "computeRho")
  /\ rhoValues' = [p \in Proc |-> [s \in (0 .. params.kPoints - 1) \X Band |->
       IF /\ s[1] \in d_kPoints[p].first .. d_kPoints[p].first + d_kPoints[p].number - 1
          /\ InOwnGroup(p, DensityBlockEnd(s[2]))
       THEN 1 ELSE 0]]
  /\ Goto(Proc, "sumPools")
  /\ UNCHANGED <<params, d_kPoints, kPoint, loopVars, eigenVectors>>

\* A sum over comm, which every rank of it receives.
SumRho(comm, from, to) ==
  /\ AllAt(comm, from)
  /\ rhoValues' = [q \in Proc |->
       IF q \in comm
       THEN [s \in DOMAIN rhoValues[q] |-> MapThenSumSet(LAMBDA r : rhoValues[r][s], comm)]
       ELSE rhoValues[q]]
  /\ Goto(comm, to)
  /\ UNCHANGED <<params, d_kPoints, kPoint, loopVars, eigenVectors>>

SumOverPools(p) == SumRho(interpoolcomm(p), "sumPools", "sumBandGroups")
SumOverBandGroups(p) == SumRho(interBandGroupComm(p), "sumBandGroups", "done")

Next ==
  \/ Pool
  \/ set
  \/ computeRho
  \/ \E p \in Proc :
       \/ CheckParameters(p) \/ generateMPGrid(p) \/ BeginSolve(p)
       \/ chebyshevFilter(p) \/ setZero(p) \/ Allreduce(p)
       \/ SumOverPools(p) \/ SumOverBandGroups(p)

\* MPI makes progress and no rank is suspended for ever.
Spec == Init /\ [][Next]_vars /\ WF_vars(Next)
-----------------------------------------------------------------------------
\* Once the wave functions of a k-point are put together, every rank has each of
\* them exactly as one band group filtered it: none is lost between two groups
\* or left as it was, and none is filtered by two.
FilteredByOneGroup ==
  \A p \in Proc : \A i \in DOMAIN eigenVectors[p] : i < kPoint[p] =>
    \A b \in Band : eigenVectors[p][i][b] = "filtered"

\* The density that a rank ends with has every band of every k-point once,
\* whatever remainders the three divisions leave.
DensityCountsEveryStateOnce ==
  \A p \in Proc : pc[p] = "done" =>
    \A k \in 0 .. params.kPoints - 1 : \A b \in Band : rhoValues[p][k, b] = 1

\* With sizes that the checks accept, also those chosen automatically, no block
\* on devices reaches past the last band.
BlocksFit == \A p \in Proc : InBlockLoop(p) => BlockEnd(p) <= bands

\* No rank is left in a collective call whose other ranks do something else or
\* threw: all end the iteration, or none begins it.
AllEndAlike == <>(\/ \A p \in Proc : pc[p] = "done"
                  \/ \A p \in Proc : pc[p] = "threw")

\* The ranks of the collective call that p makes next; none if p goes on by itself.
FiltersNext(p) == InBlockLoop(p) /\ InOwnGroup(p, BlockEnd(p))

Partners(p) ==
  CASE pc[p] \in {"Pool", "set", "computeRho"} -> Proc
    [] pc[p] \in {"generateMPGrid", "sumPools"} -> interpoolcomm(p)
    [] pc[p] \in {"Allreduce", "sumBandGroups"} -> interBandGroupComm(p)
    [] FiltersNext(p) -> mpi_communicator(p)
    [] OTHER -> {}

\* The two calls are one: in the same communicator, for the same block of the same
\* k-point.
InLoops == {"filter", "Allreduce"}
MakesSameCall(q, p) ==
  /\ pc[q] = pc[p] /\ Partners(q) = Partners(p)
  /\ pc[p] \in InLoops => kPoint[q] = kPoint[p] /\ jvec[q] = jvec[p]

\* q still comes to where p is.
Stage == [check_parameters |-> 0, Pool |-> 1, set |-> 2, generateMPGrid |-> 3, solve |-> 4,
          filter |-> 5, Allreduce |-> 5, computeRho |-> 6, sumPools |-> 7, sumBandGroups |-> 8,
          done |-> 9, threw |-> 9]
Behind(q, p) ==
  \/ Stage[pc[q]] < Stage[pc[p]]
  \/ /\ pc[q] \in InLoops /\ pc[p] \in InLoops
     /\ kPoint[q] < kPoint[p] \/ (kPoint[q] = kPoint[p] /\ jvec[q] < jvec[p])

\* A collective call names neither block nor k-point: what is summed or filtered together
\* is what the ranks of the communicator happen to have reached.  The ranks of p's next
\* call are in the same call, or still come to it; none has passed it or threw.
PartnersMeet ==
  \A p \in Proc : \A q \in Partners(p) : MakesSameCall(q, p) \/ Behind(q, p)

\* As long as not all ranks have ended alike, some rank can go on: no rank is left in a
\* collective call whose other ranks do something else, wait in another one or threw.
WaitsForPartner(p) == \E q \in Partners(p) : ~MakesSameCall(q, p)
NobodyIsLeftWaiting ==
  (\A p \in Proc : pc[p] \in {"done", "threw"} \/ WaitsForPartner(p)) =>
    (\A p \in Proc : pc[p] = "done") \/ (\A p \in Proc : pc[p] = "threw")
=============================================================================
