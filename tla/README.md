# Formal models of DFT-FE

TLA+ specifications of the parts of DFT-FE whose correctness is a matter of
order, concurrency and failure: the MPI communication under its distributed
vectors, the Chebyshev filter that overlaps it with computation, the division
of ranks into pools and band groups, the geometry optimization and molecular
dynamics drivers with their checkpoints, and the engine that an external driver
commands. Each module is translated from the C++ source; `PROJECT.json` names the
lines behind every definition. TLC checks the models on small instances (the
`.cfg` files), TLAPS proves theorems for all instances (`*_proof.tla`).

Paths are relative to the repository: `utils/…`, `include/…`, and `src/…` for the
directory `src` inside it.

## 1. Inventory

DFT-FE is an MPI program in which all ranks run the same code. It has no threads
of its own. What is concurrent are the ranks, and on each rank the nonblocking
MPI operations, which read and write buffers between their start and their wait.
Most of the code is numerical (finite elements, eigensolver, density mixing,
forces). Around it lie the components below.

| component | state | operations | interacts with | hard behaviour | status |
|---|---|---|---|---|---|
| Nonblocking consensus, `utils/MPIRequestersNBX.cc` | requests and buffers of one object, set of requesters | `getRequestingRankIds` | called by every pattern constructor | ranks in different phases and rounds, wildcard probes, when to stop | modelled, proved |
| Pattern, `utils/MPIPatternP2P.t.cc` | owned ranges, ghost indices, target lists | constructor | consensus; read by the communicator | agreement of all ranks on who sends what, empty or odd ranges, wrong input | modelled, proved |
| Ghost exchange, `utils/MPICommunicatorP2P.cc`, `src/linAlg/MultiVector.t.cc` | send/receive buffer, requests, vector entries | update and accumulate, each with Begin and End; `zeroOutGhosts` | pattern; other vectors, through the MPI communicator | open exchanges of several vectors with the same tags, buffers in use by MPI | host memory modelled, proved |
| Geometry optimization, `src/geoOpt/*.cc` | mode, cycle, status, update count; files under `optRestart` | `init`, `runOpt`; `init`, `run`, `save`, `update` of the relaxations | nonlinear solver, SCF, file utilities | crashes between and inside file writes, restart from older files | modelled, proved |
| Nonlinear solvers, `src/solvers/cgSolvers/*.cc` | iterate, history, trust radius, line search | `solve`, `save`, `load` | geometry optimization | restart in the middle, agreement of ranks, return values | interface only |
| Molecular dynamics, `src/md/molecularDynamicsClass.cc` | positions, velocities, thermostat, densities; files under `mdRestart` | the four `md…` loops, `writeRestartFile`, `checkRestart`, `InitialiseFromRestartFile` | SCF, file utilities | crashes between and inside file writes, steps computed twice | modelled, proved |
| Overlapped Chebyshev filter, `src/linAlg/linearAlgebraOperationsDevice.cc`, `src/dftOperator/kohnShamDFTOperatorDevice.cc` | two blocks of vectors, their products, one float vector | `chebyshevFilter`, `HX`, `HXCheby` | ghost exchange | exchanges of one block open during the computation of the other, ghosts left behind | two-block filter modelled, its use of the exchange proved |
| Band and k-point groups, `utils/dftUtils.cc` and its users | index ranges, communicators, blocks | `Pool`, `createBandParallelizationIndices`, block loop, density sums | eigensolver, density | sizes that do not divide, nested collective calls | one iteration modelled, proved |
| MDI engine, `src/mdi/MDIEngine.cpp`, `src/dftfeWrapper.cc` | flags and data received, the dft object | one handler for each command, `evaluate` | external driver; atom positions | parts of a system in many orders, over and over | modelled, proved |
| Atom positions, `src/dft/moveAtoms.cc`, `src/dft/dft.cc` | fractions, positions, images, net displacements, cell | `deformDomain`, `updateAtomPositionsAndMoveMesh`, deformations of the stress | MDI engine, relaxations | copies of one thing that must not drift apart | modelled (floating nuclear charges), proved |
| SCF, FE operators, Poisson, forces, pseudopotentials, mixing | fields | numerical kernels | all | real arithmetic | not modelled |
| Density and triangulation files, parameters, BLAS and device wrappers, Python and documentation | | | | pure I/O, parsing, wrappers | not modelled |

What makes the modelled components correct:

- *consensus*: every rank returns, with exactly the ranks that listed it in the
  same round; no rank leaves while somebody's message is unmatched; buffers are
  not freed while MPI writes to them.
- *pattern*: overlapping ranges stop every rank; legal input is never rejected;
  on completion what one rank will send is what the other expects, in the same
  order.
- *ghost exchange*: whatever the interleaving, the result is that of the same
  operations on one global vector; nothing is in flight after the end of an
  operation.
- *geometry optimization*: saves advance; a restart loses at most the save that
  was being written; the search for files ends; "converged" means that what the
  mode asks for is relaxed.
- *molecular dynamics*: a restart resumes the newest step that was recorded, and
  all it reads is of that one step; densities and displacements belong to the
  trajectory that is continued.
- *filter*: both blocks end as the Chebyshev polynomial of H, whatever is in
  flight meanwhile; vectors in flight are left alone.
- *groups*: every wave function is filtered by one band group and counted once in
  the density; no block reaches past the last band; no rank waits for one that
  will not come.
- *MDI engine, atom positions*: every reply is about the system that was asked
  for; the copies of a position agree; asking changes nothing.

The hazards behind these properties are listed, each at its line, in
`PROJECT.json`.

## 2. Modules and plan

```
SparseDualExchange <--implements-- MPIRequestersNBX <-- MCMPIRequestersNBX
                                        ^--- MPIRequestersNBX_proof
PatternData <--- MPIPatternP2P <--- MCMPIPatternP2P
     ^   ^--- PatternData_proof <--- MPIPatternP2P_proof ---> MPIPatternP2P
     ^---------- MPICommunicatorP2P <--- SequentialMeaning <--- MCMPICommunicatorP2P
                      ^                       ^--- MPICommunicatorP2P_proof
                      ^                                 (with PatternData_proof
                      ^                                  and ChebyshevFilter)
                      ^--- ChebyshevFilter <--- MCChebyshevFilter
GeometryOptimization <--- GeometryOptimization_proof
MolecularDynamics <--- MolecularDynamics_proof
BandParallelization <--- MCBandParallelization
     ^--- BandParallelization_proof
AtomPositions <--- MDIEngine <--- MDIEngine_proof
```

Each module builds on what the one below it promises: the pattern's constructor
uses the dual that `SparseDualExchange` returns, the ghost exchange works on
completed patterns (both use `PatternData`), and a filter is a program of the
ghost exchange with device kernels between the calls. The engine drives the
positions of the dft object. The two drivers with checkpoints and the groups
stand alone: they meet the rest only through a solve, which is one step here.

What a continuation would take up, in this order: the control of BFGS, LBFGS and
CG around their checkpoints, refining the solver interface of
`GeometryOptimization`, with restarts under another OPTIMIZATION MODE; moves of
the mesh without floating charges in `AtomPositions`.

The modules hold no RECURSIVE operator, so that all can be proved about. Faulty
variants of definitions, marked `Fault:`, stand before the definition they
replace. They are never used by a specification; substituting one for its
definition must make TLC report a violation, which shows that a property can
tell the code from a plausible bug.

## 3. Correspondence with the code

### MPIRequestersNBX (and SparseDualExchange)

`getRequestingRankIds` is: send to all targets with `MPI_Issend`; probe and
receive until all own sends were received; `MPI_Ibarrier`; probe and receive
until the barrier is complete; `finish`. `pc[p]` is the place of rank `p` in it:
`sending` and `barrier` are the two loops, whose bodies are
`ProbeAndReceiveIncomingMsg` and whose exits are `SignalLocalSendCompletion` and
`HaveAllIncomingMsgsReceived`. `pending[p]` are the targets that have not
matched `p`'s message; `requesters[p]` is `d_requestingProcesses`; `active[p]`
are the posted and incomplete receives; `lastRecv[p]` is what
`d_recvRequests.back()` waits for. Each object is used once, but patterns are
created one after the other with the same tag, so a *round* is one constructor
call, which starts with the `MPI_Allgatherv` of `getAllOwnedRanges`. `ndebug`
tells whether `finish` ends with the barrier of debug builds.

`SparseDualExchange` has no messages: a rank calls with its targets, and returns
the dual of all targets once all ranks have called. The refinement maps a rank
to `out` while it is outside the exchange proper, and its answer to its
requesters there.

### PatternData and MPIPatternP2P

`PatternData` has the local computations as operators: the overlap sweep
(`getOverlappingRangeIds`, with the order of `compareRangeMetaData`), the lookup
of owners by range ends with empty ranges moved behind all indices
(`SearchEnd`, `procIdOf`), and the local numbers sent to an owner
(`localIndicesForGhostProc`). `MPIPatternP2P` has one action for each stretch of
the constructor between two points where it waits for others: the check of the
range up to the allgather; ghost data evaluation up to the call of the
consensus; sending counts; sending lists after the counts arrived; receiving
lists. `targets[p]` stands for `d_targetProcIds`,
`d_numOwnedIndicesForTargetProcs` and `d_flattenedLocalTargetIndices` together.
A check that fails ends the job. Each of the two rounds ends with an `MPI_Waitall` on
the sends (`CountsTaken`, `ListsTaken`) and one on the receives (`CountsCame`,
`ListsCame`). `EagerLimit` is a choice of the MPI library: `MPI_Isend` copies
messages of at most so many numbers; a longer one is over only when the owner has
posted its receive (`PostedCount`, `PostedList`; `CountsMatched` and `ListsMatched` say that
for all sends). If the count is not copied at once
(`EagerSend` is false), it may be read from the variable later, when it holds the count
of the last turn of the loop.

### MPICommunicatorP2P and SequentialMeaning

A program is a sequence of operations that all ranks run, each at its own pace.
`sends[p][q][t]` and `receives[p][q][t]` are MPI's queues for a pair of ranks
and a tag: `Inject` reads the data of a pending send once its receive is posted
(`Matched`), or before, if MPI copies it, which it may for messages of up to `EagerLimit`
entries and need not; `Sent` and `Delivered` say when the wait on the sends and on the
receives returns; `Deliver` pairs the oldest send with the oldest receive and writes
the data where that receive points. Which vector the data belongs to plays no
role there, as in MPI. Begin actions post receives first and then sends, and
fill the send buffer (`d_sendRecvBuffer`, shared by both operations of a
vector); End actions are the `MPI_Waitall`. What callers compute between the
exchanges is the constant `Computed`: any number for each rank, place in the
program and entry, also different ones for the copies of one index.

`SequentialMeaning` is the reference: `Meaning` runs the same operations, one at a
time, on one global vector. An update means that each ghost entry becomes the
owner's entry as it was when the update began (`BeginOf`), an accumulation that the
owner adds all ghost entries of an index (`Contributions`). That is a meaning only
for programs that end an exchange of a vector before they do anything else with it
(`ExchangeAssumption`): the callers in `src/` work on other vectors in between, or on
nothing. That the filter is such a caller is not assumed, but checked in its own run,
and proved for every degree (section 5).

### GeometryOptimization

`disk` holds the checkpoint files that exist. `pc` names the next write or read
of the driver (`cycle`, `status`, `cellStatus`), of a relaxation (`relax`,
`begin`), of a save (`maxForce`, `geometry`, `solver`, `step`), or of a restart
(`search`, `look`, `found`). One action is one file access or one long
computation, because a crash may come between any two. `Writing` is the file
that the next step writes: a crash there leaves the old file, no file (it has
been moved to `.old`), or an empty one. `solved` tells whether forces are known,
without which a relaxation cannot start; `relaxed` whether the last check of
each relaxation succeeded for the current geometry. It is saved in the geometry
file, since the result of the check is a function of the geometry. `saved`,
`crashes`, `onlyUpdating` and `solverFailed` are history variables: no action of
the program reads them, except that the bound on crashes is in `Crash`.

### MolecularDynamics

A value that the job computes (positions, velocities, a density) stands for the
trajectory that led to it: the sequence of the jobs that computed its steps.
Two values are of one state exactly if they are equal, and the length is the
step. `pc` names what the job does next, in the order of the four loops, which
differ only in the thermostat; `todo` are the writes that the current operation
has left. `Write` does one of them, and `Crash` may come before any, or in the
middle, with the outcomes of `CutShort` (`writeDataIntoFile` moves the old file
away first; `cp` may leave an empty target). `RestartJob` is the constructor with
`checkRestart`, `InitialiseFromRestartFile` all reads that follow. `recorded`,
`onlySolving` and `unnamed` are history variables.

### ChebyshevFilter

A filter is the program that `chebyshevFilter` builds: the calls of the code in
their order, one record each, for the degree `m` and the precision `mixed`, with
the branches of the code (first degree, degree 2, overlapped degrees, the last)
as operators that return a part of the program. Communication operations are
those of `MPICommunicatorP2P`; the others are device kernels, one action each
(`Axpby`, `Scale`, `Combined`, `distribute`, `computeLocalHamiltonianTimesX`, …).
Swaps exchange the contents of two vectors between calls, as
`MultiVector::swap` does, so the tags and patterns stay with the name.
`Polynomial` is the reference: the three-term recursion on one global vector with
the constraints eliminated. Numbers are taken modulo a prime, where division is
exact. `FilterSetting` says what all filters of the code have in common: degrees from
1 on, the two arrays of a block with one pattern (`d_YArray.reinit` takes that of its
partner), and no index that a rank has both as owner and as ghost.

### BandParallelization

`interpool` and `intrapool` are the two communicators that `Pool` splits, used
once for k-points and once for bands. An action of one rank is local work; a
collective call is one action of all ranks of its communicator, enabled when all
of them are there, so a rank that is elsewhere makes the others wait for ever
(`AllEndAlike`). `jvec`, `startIndexBandParal` and `numVectorsBandParal` are the
variables of the block loop, and `BVec` the size of its next block, with the two
blocks at once of devices. A wave function is `"initial"`, `"zero"` or
`"filtered"`; `Joined` is what a sum, or a gather, over band groups makes of
them. `rhoValues` counts how often each state is in the density.

### MDIEngine and AtomPositions

`Receive(f)` stands for the `receive_…` handlers, `Request` for `<ENERGY`,
`<FORCES` and `<STRESS` with all that `evaluate` does, `Exit` for the commands
that end the job. `d_sys`, `d_flags`, `d_actionflag` are the members of the engine;
`dft` and `settings` the object that the wrapper holds. `asked`, `sent` and `told`
belong to the driver: the system it means, by everything it has sent. A driver
sends a new system in one order, natoms first (the handlers of coordinates and
elements read `d_sys_natoms`), and may forget parts; it sends a new cell, new
coordinates or both at any time, in either order. What it means by a new cell
alone is that the atoms move with it.

`AtomPositions` holds the operations on one record: `atomLocationsFractional`,
`atomLocations` (relative to the centre), `d_imagePositions`, the cell, and
`netDisp`, which is `d_netFloatingDispSinceLastBinsUpdate` and decides between a
wrapped and an unwrapped move. In one dimension and in whole numbers, a cell `c`
is `Q * c` long and the fraction `f / Q` lies at `f * c`. A failed `AssertThrow`
or a read past the end of a vector (a deformation of a system without periodic
directions, which has no fractions) sets `status`, and the job ends.

## 4. Runs

| run | instance | shows |
|---|---|---|
| `nbx` | 3 ranks, any targets of each among the sets of the MC module, 2 rounds, both builds; 280 thousand states | answer is the dual of the same round, inductive invariant; nobody leaves early; some rank inside the call can always go on; every rank returns; implements `SparseDualExchange` |
| `nbx_buffers` | the same, 1 round | **violated**: `finish()` waits only for the last receive |
| `pattern` | 3 ranks, any of 8 ranges each (all non-empty ones below 3, one empty, one reversed), any ghost indices up to 3; 103 thousand states | overlaps are caught, legal input never throws, the pattern is the dual; ranks wait only for ranks behind them, for sends and receives; a completed pattern is what the exchange takes for granted |
| `pattern_counts` | 3 ranks owning 1, 1 and 2 indices in any order, no eager sends | **violated**: a count is read from a dead variable |
| `ghost` | 3 ranks, 2 vectors with different patterns, 71 programs; 342 thousand states | result of a sequential run, messages reach their vector, ranks wait only for ranks behind them, for sends and receives, nothing outlives its operation |
| `ghost_unordered` | one update where ranges are not in rank order | **violated**: values of two owners are swapped |
| `geoopt` | all modes, 2 cycles, at most 1 update of a relaxation, 3 crashes; 1.06 million states | restarts lose at most one save, saves advance, converged means relaxed, the search ends |
| `geoopt_search` | ION mode, VERBOSITY 0 | **violated**: the search does not end |
| `md` | both kinds of thermostat, 4 steps per job, 4 jobs; 769 thousand states | a restart resumes one state and no recorded step is lost; displacements, densities and extrapolation follow the trajectory; crashes in a solve never prevent the end |
| `filter` | 3 ranks with 2, 2 and 1 entries, one constraint across ranks and one entry inside; degrees 1, 4 and 6, double and mixed precision; 350 thousand states | the filter computes its polynomial, adds to clear ghosts only, leaves open vectors alone |
| `bands` | 1 to 4 ranks, all grids of pools and band groups that the MC module lists, hosts and devices, block sizes given or automatic; 46 thousand states | one group filters each wave function, the density counts each state once, blocks fit; the ranks of a collective call meet in it, nobody is left waiting, all ranks end alike |
| `mdi` | 1 or 2 atoms, two cells, four coordinates, periodic or not, no bound on the number of requests; 5.4 million states | replies are about the system asked for, copies agree, a stress leaves nothing behind |

*Why the bounds are enough.* Three ranks are the smallest number with a sender,
a receiver and a bystander that runs ahead; two rounds are the smallest number
in which messages of different rounds could mix, and the invariant (proved for
any number) shows that ranks are never further apart. Ranges below 3 contain
nested, equal, touching and disjoint ones, holes, and an empty range inside
another. In `ghost` one rank has ghosts of two owners, one index is a ghost of
two ranks and one rank owns nothing; the programs are all 70 merges of the four
operations of each vector, and one with repeated updates and a cleared ghost
section. In `geoopt` one update per relaxation gives two saves for each, two
cycles give the step back from ions to the cell of the previous cycle, and three
crashes are needed for a restart to meet files that an earlier fallback left
behind (two are not enough for that). `MaxCycles` is 100 in the code.
In `md` four steps per job are enough for the extrapolation to have its three
densities and then one more step, and four jobs for a step to be computed three
times. In `filter` degree 1 has no overlap, degree 4 one overlapped degree, which
is first and last at once, and degree 6 three of them; degree 2 takes a branch of
its own (see below). In `bands` the numbers of bands, k-points and blocks leave
every remainder that two or three groups can leave, and the automatic block sizes
are taken at both sides of each change of the formula. In `mdi` the cells are 4
and 8 long; the coordinates are inside both, inside the larger only, on a
boundary, and outside even after one wrap of the smaller, where the job throws;
a net displacement reaches `HalfBohr` in one move or in several. The theorems of
section 5 hold for any of these numbers. Each run checks what it adds to the others: the
types of `nbx` are in its `IInv`, those of `pattern`, `geoopt`, `md` and `bands` are proved,
and so is for every degree of a filter what `ghost` checks of the messages and waits.

*Deadlock* is checked in the runs up to `filter`: where the modelled program
ends, an explicit `Terminated` step says so. In `bands` and `mdi` the job really
stops, at its end or by a throw, and the check is off; that `bands` stops only
when all ranks have ended alike is its property `NobodyIsLeftWaiting`.

A deadlock of the model says that nothing at all can move. The properties
`NoCallIsStuck`, `WaitsOnlyForRanksBehind` (of the constructors, and of the exchange)
and `PartnersMeet` say more: whom a rank waits for. In the constructors and in the
exchange it is always a rank that has run less of the same calls, so waiting cannot go in
a circle. That includes the waits on sends. MPI may copy a message before its receive is
posted, and then the send is over; it may also let the send wait for its receiver. In
`ghost` and `filter` it may do either for any message; in `pattern` the counts are copied,
and `late` counts are the subject of `pattern_counts`. `WaitsOnlyForRanksBehind` does not rely
on copies: a rank goes on (`GoesOn`), or MPI is done with its sends (`MPIQuiet`), only if the
receives are posted, so what holds in these runs holds if nothing is copied. The mutants of
both properties leave a send without a receive.
In a collective call of the groups every other rank is there or still comes,
for the same block of the same k-point, since MPI would join calls for different
blocks without a word. These are invariants, so that they can be proved for all
instances, which the liveness properties cannot (section 5).

*Fairness.* `nbx` assumes weak fairness of every rank and of MPI's progress: both
loops poll without waiting, and a posted receive that is matched completes.
`geoopt` assumes weak fairness of the job's own work: it is sequential, and a job
that went down is restarted. Crashes are not fair. `IonCellSearchEnds` holds under
it because every turn of the search lowers the step, or moves on to the other
relaxation. `md` assumes the same, and `SolvingCrashesFinish` adds that every crash came in a
solve after a recorded step. `bands` assumes that some enabled step is taken
(`WF_vars(Next)`): local work goes on and MPI completes a collective call that all
have joined. `mdi` and `filter` assume nothing, their properties are safety. The
runs with temporal violations use the same fairness.

### Findings

- `nbx_buffers`: `utils/MPIRequestersNBX.cc:223` waits for
  `d_recvRequests.back()` in every turn of its loop instead of the i-th request.
- `pattern_counts`: `utils/MPIPatternP2P.t.cc:428` sends from a variable local to
  the loop body and waits after the loop. Harmless where MPI copies small
  messages at once.
- `ghost_unordered`: the pattern is documented, and checked by `pattern`, for
  ranges in any order of the ranks; the communicator is right only if they are in
  rank order. deal.II's partitioning is in rank order, so callers today do not
  meet it.
- `geoopt_search`: `src/geoOpt/geometryOptimizationClass.cc:121` decrements the
  step in the arguments of a message that is printed only if VERBOSITY is above 0.

Seen while modelling and not the subject of a run:

- *Geometry optimization.* MAXIMUM STAGGERED CYCLES is read
  (`utils/dftParameters.cc:1396`) but `runOpt` uses 100. A crash between
  `status.chk` and the first `step.chk` of the cell relaxation, which includes the
  long `trivialSolveForStress`, leaves files from which every restart ends with an
  error. A combined optimization goes on to the cell after a failed ion
  relaxation and may then end as converged (`ConvergedMeansRelaxed` excludes it).
  An LBFGS solve that converges with an empty history returns FAILURE
  (`LBFGSNonLinearSolver.cc:897`).
- *Atom moves.* With FLOATING NUCLEAR CHARGES off, a Gaussian move of the mesh
  whose quality check fails in a periodic system (`src/dft/moveAtoms.cc:625-650`)
  adds the displacements to the atoms a second time.
- *Molecular dynamics.* With a RESTART FOLDER other than `.` the thermostat's
  files are written to, and looked for in, different folders
  (`molecularDynamicsClass.cc:1737`, `:1894`), so such a job cannot be restarted.
  Step 1 cannot be restarted at all. A crash between `Displacement.chk` and its
  copy to `TotalDisplacement.chk` loses records of the latter. A crash inside the
  write of `time.chk` leaves none, and no restart.
- *Filter.* At degree 2 the branch of the overlapped filter
  (`linearAlgebraOperationsDevice.cc:1358`) is not followed by that of the last
  degree, and the result stays scaled. The filter of one block (561-862) runs 105
  timing trials and exits.
- *Groups.* `check_parameters` demands equal block sizes for NPBAND > 1, but the
  automatic sizes on devices differ above 600 bands per group. Real builds never
  compare NPKPT with the number of k-points. The wrapper's `reinit` ignores the
  value of `npkpt` that it is given (`dftfeWrapper.cc:650`).
- *MDI engine.* `d_flag_dimensions` and `d_sys_dimensions` have no initial value, so
  a system may be made without `>DIMENSIONS`. `>CELL_DISPL` has a handler, and is
  called optional, but is not registered. In a system without periodic directions
  `<STRESS`, or a new `>CELL` alone, reads past the end of the empty
  `atomLocationsFractional`. `>NATOMS` after `>COORDS` or `>ELEMENTS` makes the
  engine read past what it received. After `>CELL` alone, `<COORDS` returns the
  coordinates of before. An atom of a system without periodic directions may
  leave its cell in a move, but not at creation. A driver that sends coordinates
  more than one cell outside ends the job.

## 5. Proofs

`MPIRequestersNBX_proof` proves, for any set of ranks, any target sets and any
number of rounds, from the three named assumptions of the module only
(`RankAssumption`, `TargetAssumption`, `RoundAssumption`):

- `TypeCorrect`: `Spec => []TypeOK`
- `InvariantHolds`: `Spec => []IInv`
- `AnswerCorrect`: `Spec => []RequestersAreDual`
- `NeverThrows`: `Spec => []NoSecondMessage`
- `DrainedWhenLeaving`: `Spec => LeavesOnlyWhenDrained`
- `NoRankIsStuck`: `Spec => []NoCallIsStuck`
- `Implements`: `Spec => ImplementsDualExchange`

`RequestersAreDual` is not inductive. The invariant `IInv` adds what the
argument needs:

- `RoundsAdvanceTogether`: a rank may be one round ahead of another, and only
  while it waits in the `MPI_Allgatherv`. This is what keeps two rounds with one
  tag apart, since release builds have no barrier at the end.
- `PendingIsOwnTargets`: only a rank in its first loop has unmatched messages.
- `BarrierWasComplete`: a rank that left its loops knows that all have joined
  the barrier of its round.
- `ReceivedIsMatched`: `q` is in `requesters[p]` exactly if `q` has posted its
  messages of `p`'s round, `p` was a target, and the message is matched.
- `UnreadUntilProbing`: no message is matched before its receiver probes.

When `p` leaves its second loop, everybody has joined the barrier, so by
`PendingIsOwnTargets` nothing is unmatched (`DrainedWhenLeaving`), and by
`ReceivedIsMatched` `p` has exactly the ranks that listed it (`AnswerCorrect`). A
message that is found is unmatched, so its source is not yet a requester
(`NeverThrows`). For `Implements`, every step is shown to be a `Call`, a `Return`
or a stutter of `SparseDualExchange` under the refinement mapping.

`NoRankIsStuck` is the safety half of `EveryRankReturns`: while ranks are inside the
call and all calls were made that they are in, one of them has a step to take. If some
are a round ahead, then by `RoundsAdvanceTogether` all ranks of the earlier round have
joined its nonblocking barrier, and one of them goes on (`LaggardGoesOn`). If all are in
one round, and the message of a rank is unmatched, its target still probes; if there is no
such rank, the barriers are complete (`CommonRoundGoesOn`).

TLC checks `IInv` too, in the run `nbx`.

`MDIEngine_proof` proves, for any cells, atom counts, coordinates and number of
commands, from `QAssumption` and `DriverAssumption` only (coordinates are
fractions of every cell, so that whole numbers suffice):

- `TypeCorrect`: `Spec => []TypeOK`
- `CopiesAlwaysAgree`: `Spec => []CopiesAgree`
- `StressLeavesNothingBehind`: `Spec => []StressLeavesNothing`
- `RepliesCorrect`: `Spec => []RepliesAreOfTheSystemAsked`

None of the last three is inductive. `CopiesAgree` says nothing of the vectors'
lengths or of a system that is not periodic, and a reply depends on everything
received since the last one. The invariant `IInv` adds:

- `ReceivedAsAsked`: what the engine received is what the driver means, except
  for coordinates that moved with the cell, and its flags are what was sent (an
  uninitialized `d_flag_dimensions` apart).
- `Good`: the dft object has its types, its copies and images agree, and it has
  fractions exactly if it is periodic.
- `UpToDate`: while no part of a new system is on its way, the dft object is the
  system asked for, except for the parts sent and not yet evaluated. The atoms are
  compared by their fractions (`FractionsPlaced`), which a deformation keeps.

There is one lemma for each operation on positions: `DeformKeeps`, `ImagesKeep`,
`MoveKeeps` (both kinds of move end at the coordinates sent, up to a cell),
`StressKeeps` (the deformations undo each other), `NewKeeps`. From them follow
`CreateSound` and `AdjustSound`, the two ways of `evaluate`, and from these
`RequestKeeps`. `AdjustSound` is where the order of the code matters: the
displacements are differences to the positions in the new cell.

`BandParallelization_proof` proves, for any numbers of ranks, pools, band groups,
k-points and bands and any block sizes, from `ParametersAssumption` only (the
ranges that the parameter file admits):

- `EveryEndInOneGroup`: every block end from 1 to the number of bands lies in
  exactly one group's range, whatever remainder the division leaves. This one is
  about the ranges alone, not about the specification.
- `InvariantHolds`: `Spec => []IInv`
- `EachFilteredByOneGroup`: `Spec => []FilteredByOneGroup`
- `BlocksAlwaysFit`: `Spec => []BlocksFit`
- `EveryKPointInOnePool`: the shares that `generateMPGrid` scatters have every k-point
  exactly once, whatever remainder the division leaves; about the shares alone.
- `DensityHasEveryState`: `Spec => []DensityCountsEveryStateOnce`
- `RanksMeetTheirPartners`: `Spec => []PartnersMeet`
- `NoRankIsLeftWaiting`: `Spec => []NobodyIsLeftWaiting`
- `IterationEnds`: `Spec => []ProgressIsBounded /\ [][EachStepProgresses]_vars`

`FilteredByOneGroup` speaks of finished k-points only. `IInv` says of every rank
what is so far done of the k-point in work (`BlocksDone`): a band before `jvec` is
filtered if the end of its block (`EndOf`) lies in the rank's own group, and zero
otherwise, and every filtered one lies in the range that the gather sends. Neither
depends on how far other ranks are, so the order of the ranks does not matter. The
argument has three parts:

- *The grid.* `MembersAre` and `OneOfEachGroup`: if both pools were split without a
  remainder, the ranks of one place in their domains (`interBandGroupComm`) are
  exactly one of each band group, and a rank's number among them is its group.
- *The blocks.* `HostBlock` and `DeviceBlock`: on hosts a block may cross the border
  between two groups, and belongs to the group of its end. On devices the checks
  of `dftClass::solve` make the bands of a group a whole number of blocks, so a
  block, or two at once, ends within the group in which it begins. `AutoSizes`:
  sizes that the program chooses are sizes again.
- *The join.* `OneFilters` and `JoinedIsFiltered`: of the ranks that sum or gather
  a band, exactly one has something else than zero.

The density has an invariant of its own, `SharesInv /\ RhoInv`, on top of `IInv`:
`RhoInv` says what is in a rank's density after `computeRho` (its band group's part of
its pool's k-points), after the sum over the pools (that part of all k-points) and after
the sum over the band groups (every state once). No rank is ever ahead of the others in
its sum, because the ranks of one place in all pools are of one band group
(`OneOfEachPool`): so the two sums may come in any order of the ranks. The sums are
`MapThenSumSet` folds; `SumIs` says that such a fold is any function on the subsets that
adds one element at a time, and `SumOfOne` and `OffsetSums` give that function for a sum
with one term, and for the offsets of the pools. The end of a block of the density
loop is one of a band also on devices (`DensityBlockEndType`), where no minimum is taken.

That the collective calls meet is proved with a third invariant, `MeetingInv`, on top of
`IInv`. The communicators come from two splits that are taken modulo different
numbers. `Classes` shows that each of the three kinds divides the ranks into classes, so
that "the ranks of my call" means the same set to all of them. Then:

- `Together`, by `Company(at)`: where the other ranks may be when one is at `at`. All
  ranks run the same checks on the same numbers, so either all pass or all throw, and a
  call of all ranks separates what is before it from what is behind.
- `PoolsMeet`, `GroupsMeet`: the ranks of one place in all pools scatter and sum
  together; those of one place in all band groups are at the same k-point.
- `DomainsMeet`: the ranks of one domain have filtered the same blocks of their own group.
  It cannot say that they are at the same block: each skips the blocks of the
  other groups at its own pace, and `Passed` counts only blocks that end in the own range.
  A step of one rank therefore moves nothing (`ZeroPassesNoOwn`), and the call of all
  passes the same for all (`AllreducePassesAll`).
- `RoundsInv`: where the two loops end.

For the filter, the two ranks are of one group, and what `DomainsMeet` leaves open are
blocks of other groups only: by `NextBlock`, nobody has passed the block that is filtered
next. For the join over the band groups at the end of a k-point, `GroupsMeet` gives the
k-point, and `NumbersAgree` (equally many k-points for all ranks of a pool) excludes that
a rank has already gone on to the density.

`NoRankIsLeftWaiting` follows without a further invariant: take a rank at the least stage,
k-point and block that any unfinished rank is at. By `PartnersMeet` its partners are in its
call or behind it, and nobody is behind it, so its call is complete.

`IterationEnds` is about the steps themselves: each takes some rank to a later stage, or in
the loops to a later k-point or block, and takes nobody back, and all three numbers are
bounded. It needs `BlockIsWhole`, which follows from the checks of the block sizes
(`HostBlock`, `DeviceBlock`): a block is never empty, so `jvec` moves on.

`PatternData_proof` and `MPIPatternP2P_proof` prove, for any number of ranks, any
range of each rank and any ghost indices up to `MaxIndex`, from
`NumProcsAssumption`, `MaxIndexAssumption`, `RangeAssumption` and
`EagerAssumption`:

- `SweepFindsOverlap`: for ranges that pass the first check,
  `getOverlappingRangeIds(rs) = {}` exactly if no two ranges share an index
- `TypeCorrect`: `Spec => []TypeOK`
- `OverlapAlwaysCaught`: `Spec => []OverlapIsCaught`
- `LegalGoesOn`: `EagerSend => (Spec => []LegalNeverThrows)`
- `NoGhostIsOrphan`: `Spec => []NoOrphanGhost`
- `ConstructorsWaitForThoseBehind`: `Spec => []WaitsOnlyForRanksBehind`
- `ConstructorsMakePatterns`: `EagerSend => (Spec => []CompletedPatternIsUsable)`
- `TargetsAreDual`: `EagerSend => (Spec => []PatternIsDual)`

Three of them need `EagerSend`: without it a count may be read from a variable that
is gone, and `pattern_counts` shows what comes of that. The others hold
for any `EagerLimit`, also 0.

`PatternData_proof` is about the local computations:

- *Folds.* The sweep and the number of indices are folds over finite sets.
  `SubsetInduction` is an induction over the subsets of a finite set. It speaks of a
  set of subsets, not of a predicate, so that it can be used here, and follows from
  the strict subset order being well-founded. `FoldsExist` and `FoldIs` make a fold a
  function that can be computed element by element; `SumOfSizes` and `SweepIs` use
  them.
- *The sweep.* `EventOrder`: the events are totally ordered, and an end comes before
  a start at the same place. `SweepInv` holds after the events up to any point: as
  long as no range has been reported, the ranges that have started are disjoint and
  only the open one has not ended; if the ranges are disjoint, none is reported.
  `StartKeeps` and `EndKeeps` are its two steps.
- *The search.* `OwnerIsFound`: if ranges are disjoint and end within the indices,
  the least end beyond an index is its owner's, also among empty ranges, which are
  searched at places beyond all indices. `NumbersAreContiguous`: the ghost indices of
  one owner then have numbers without a gap.

The invariant `IInv` of the construction says what each rank has checked
(`CheckedInv`: the ranges, and its own ghost indices), that a count and a list that
were sent are what the inputs make them (`CountsInv`, `ListsInv`), who must have sent
(`PlacesInv`), and that a completed rank has what was received (`TargetsInv`). What
is received then depends on the inputs alone, not on the order of the ranks.
`LegalInv` says that nobody has thrown. If the input is legal, all checks pass
(`PartitionIsValid`). If it is not, and all ranks complete all the same, the ranges
were disjoint, and every index asked for is in the range of the rank that was
asked, since a rank checks that before it sends its list (`InOwnersRange`,
`DoneFindsOwners`).

`ConstructorsWaitForThoseBehind`: a rank in the constructor that cannot go on waits for one
that has made fewer of its calls. For the two rounds of messages this is not a matter of
order only: the ranks that `p` receives from are those that named it to the consensus, and
the ranks that a rank sends to are those it named, so by `PlacesInv`, `CountsInv` and
`ListsInv` a message that `p` lacks is one that its sender has not come to (`WaitsBehind`).
A send that is not copied waits for its owner's receive; the owner posts one for every rank
that named it, so it too has not come to that point.
The rank furthest behind then goes on, unless an exception ends the job.

`ConstructorsMakePatterns` joins the two halves of the verification: when all ranks have
completed, their ranges and ghost indices satisfy `IsPattern`, word for word what
`PatternAssumption` demands below, and `targets` are the local numbers that
`MPICommunicatorP2P` computes (`getOwnedLocalIndicesForTargetProcs`). So what is proved of
the exchange is proved for every vector whose pattern was constructed.

`MPICommunicatorP2P_proof` proves, for any number of ranks, any vectors with any
patterns and any programs, from the assumptions on these: `NumProcsAssumption`,
`ProgramAssumption` (a program ends an update only after it began one),
`PatternAssumption` (`IsPattern` for each vector: the ranges of the ranks do not overlap and
every ghost index has an owner, which is what `ConstructorsMakePatterns` proves of the
constructor), `ComputedAssumption` (callers write numbers) and, for the last theorem,
`ExchangeAssumption` (section 3):

- `TypeCorrect`: `Spec => []TypeOK`
- `MessagesReachTheirVector`: `Spec => []MessagesMatchTheirVector`
- `UpdatesLeaveNothingBehind`: `Spec => []NothingOutlivesItsOperation`
- `RanksWaitForThoseBehind`: `Spec => []WaitsOnlyForRanksBehind`
- `ExchangesDoNotDeadlock`: `Spec => []ExchangeGoesOn`
- `ExchangeIsSequential`: `RanksInOrder /\ Spec => []MatchesSequential`

MPI pairs the k-th send of a rank to another with the k-th receive there, whatever
they are about; the ranks may be any number of operations apart.
`MessagesReachTheirVector` needs to say what each queue holds: `IInv` states that for
two ranks and a tag there is one place in the program (`FollowProgram`) such that the sends that wait are those
of the operations between that place and the sender's position, and the receives that
wait those between it and the receiver's. An operation appends to the queues and moves
one position (`StepFollows`); a pairing removes the first of both, which are of the
same operation because both queues list the same set up to two bounds (`ListsAgree`),
and moves the common place there (`PairFollows`). `QueuesMatch` is the theorem's
consequence. That a rank is a sender of one exactly if that one waits for it is read
off the patterns, which both sides compute from the same ranges and ghost indices:
it is what `TargetsAreDual` proves of the constructor. `UpdatesLeaveNothingBehind`
counts beginnings and ends (`InUpdateNext`): an operation that begins an update makes
it open, one that ends it has waited, and no other touches messages of that vector
with that tag.

Waiting is read off the same queues. If no send is left whose receive is posted
(`MPIQuiet`, which takes no early copy for granted) and a rank still waits, one of its
receives has no send, or one of its sends, which MPI has not copied, has no receive. The
place that both queues have in common then shows that the other rank has not come to the
operation of that receive (`UnmatchedReceiveIsAhead`) or send (`UnmatchedSendIsAhead`), so it
has run less of the program (`QuietWaits`). A rank that has run least never waits then
(`SomeRankGoesOn`): whatever patterns the vectors have, however their exchanges overlap, and
whatever `EagerLimit` is, the ranks do not block each other in a circle.

`TypeCorrect` is more than types: `MessagesTyped` says that the data of a message is
as long as the segment it goes to, so a receive of one vector's pattern never takes a
message cut by another's, and `AccumulateIs` that all that is added up is there.

`ExchangeIsSequential` says that the exchange as a whole is right: at any time, in
every rank's part of a vector, there is what the operations that this rank has run
leave in one global vector, although other ranks may be many operations behind or
ahead and each message was read and written at some other time. `RanksInOrder` is a
condition on the pattern: owners of smaller indices have smaller ranks. Without it,
the ghost section, which is sorted by index, and its segments, which follow the ranks,
do not fit, and `ghost_unordered` shows the property violated; the theorem says that
nothing else can go wrong. The inductive invariant `SInv` has for each rank and vector

- `OwnedFollows`, `GhostFollows`: entries that no exchange is open for have the meaning
  of the program at the rank's position (`MemoryAt`);
- `BufferFollows`: while an update is open, the send buffer has the owned entries as
  they were when it began, and nothing has overwritten them;
- `SegmentFollows`, `ReceiptFollows`: while an exchange is open, each segment is either
  still to be received (`Pending`) or has the sender's data of this operation;

and for each queue (`QueuesFollow`) that each message is of one operation of the
program, has the data of the sender at that operation (`Data`) if it was read, and
otherwise is of the last operation on its vector, so that what MPI will read is still
there. The steps that need an argument: reading a message late gives the data of the
beginning (`InjectedData`); a pairing is of one operation on both sides
(`DeliveredHead`), and fills its own segment and no other (`SegmentsFilled`); at the
end of an update no segment waits, and each ghost entry lies in the segment of its
owner at the place where the owner put it (`GhostIsWanted`, which needs
`RanksInOrder`); at the end of an accumulation the segments add up to all ghost
entries of an index (`ReceivedIsContributed`). Sums over sets are folds in the
community modules; `SumsOf` and the lemmas after it establish what the proof needs of
them (the sum over a set with one more element, and over two sets with equal terms).
TLC checked `SInv` on the instance of `ghost` before.

The same module proves how `ChebyshevFilter` uses the exchange, for every degree of a
filter, in double and in mixed precision, any number of ranks, patterns, constraints,
matrices and numbers, in the setting of the code (`FilterSetting`, section 3, which TLC
evaluates on the instance of `filter`):

- `FiltersEndWhatTheyBegin`: a filter ends only updates that it began, which
  `ProgramAssumption` asks of a program; about the programs alone
- `FilterMessagesReachTheirVector`: `FilterSpec => []MessagesMatchTheirVector`
- `FilterWaitsForRanksBehind`: `FilterSpec => []WaitsOnlyForRanksBehind`
- `ProductsFindClearGhosts`: `FilterSpec => []ProductsAddToClearedGhosts`
- `FilterLeavesOpenVectorsAlone`: `FilterSpec => OpenVectorsAreLeftAlone`, an action
  property

None of them can be seen at one place of the code: whether a product finds clear ghosts
depends on calls that were made up to two degrees, a swap and a branch before, and the
degree that the run checks may not be the one that goes wrong. The argument separates
the program from its run.

- *The program.* `Leads(A, s, B)` says that the operations `s` may be run one after the
  other where the exchanges that are open and the vectors that are clear are those of
  `A`, and end at `B`; `Allows` is that for one operation, and says what none may do:
  write or swap an open vector, or add to ghosts that are not clear. There is one lemma
  for each kind of call, and one for each part of a degree, up to `LaggingLeads` (half of
  an overlapped degree behind which the product of the other block is completed) and
  `OverlappedLeads`. The invariant of the recursion is `ClearAfter(d, m)`: behind degree
  `d` no exchange is open, and what is clear is `XArray` of both blocks, or of block 1
  alone if block 2 lags behind. `DegreeLeads` shows that each branch keeps it,
  `FilterLeads` follows for every degree by way of the least degree for which it would
  fail, since the prover has no induction.
- *The run.* `FInv` joins the queues' invariant `IInv` with `GhostsClear`: a vector that is
  clear at a rank's place in the program has zeros as ghosts. `Effect` is what an
  operation may do to the memory, shown for the exchange, each kernel and the swap;
  `EffectKeeps` and `EffectLeavesOpen` need nothing else. MPI's own writes are
  `DeliveryKeeps`: it writes ghosts only while an update of that vector is open. Here the
  setting is needed: an index that is owned and a ghost at once would be written by
  kernels that are meant for owned entries only, and vectors with different patterns
  could not change places.

`GeometryOptimization_proof` proves, for any `MaxCycles`, `MaxUpdates`, `MaxCrashes`
and `Verbosity`, so with no bound on how often the job is killed, from the
assumptions that these are numbers and `Modes` are modes:

- `TypeCorrect`: `Spec => []TypeOK`
- `ConvergedIsRelaxed`: `Spec => []ConvergedMeansRelaxed`
- `SavesAdvance`: `Spec => []CheckpointsAdvance`
- `RestartLosesAtMostOneSave`: `Spec => []LosesAtMostOneSave`
- `CrashesInUpdatesLoseNothing`: `Spec => []UpdateCrashesLoseNothing`
- `SearchDescends`: `Verbosity > 0 => (Spec => []SearchIsBounded /\ [][SearchGoesBack]_vars)`

With ions and cell in turn, the driver ends as converged when a relaxation returns
0, that is, when it made no update: its own forces or stress are small, and the
geometry is still the one at which the other relaxation converged just before.
After a crash that is true only if the geometry read from disk is the right one,
so the invariant `IInv` must speak of the files:

- `DiskInv`, `Fits`: what each file may contain, or it was cut short. A geometry
  file of step 0 was saved where the other relaxation had converged, unless a
  solver had given up by then (`AtStart`).
- `StartInv`: until the relaxation begins, a restarted job keeps the geometry of
  the step that `step.chk` names; a job that was not restarted comes from the other
  relaxation.
- `SolvingInv`: as long as the step is 0, the geometry is the one it started from.
- `KindInv`, `CycleInv`, `StepInv`, `FlagsInv`, `ResultInv`: the types, with the
  control points at which a cycle or step is out of its range.

One lemma for each kind of file (`FitsCycle`, `FitsStep`, ...) says that what is
written there fits; `DiskPut`, `DiskRemove` and `DiskKept` that this is all that
`DiskInv` asks of a step or of a crash in the middle of it.

The three properties about the saves need more, on top of `IInv`:

- `OrderInv`: all saves are in order, not only neighbours, and what comes next is
  not before the last one (`NextIsLater`). A restart keeps the saves up to the
  position it resumes, a prefix (`PrefixOrders`). This gives `SavesAdvance`.
- `FilesInv`, in three parts. `PointersInv`: while a relaxation runs, `cycle.chk` and
  `status.chk` name it, unless they were cut short. `SavedInv`: these files name
  nothing older than a save; a save's geometry is missing only after a crash in which
  it was written a second time, and then they name exactly this save, which is the
  last. `SearchInv`: the search for files starts after the saves that are there, and
  does not pass them. A position that the search finds is then a save or later, so at
  most the last one is lost (`RestartLosesAtMostOneSave`).
- `UpdateInv`, for jobs that only went down in updates: where the last save is
  complete with all that a restart reads (`Complete`), and which files of the next one
  are written already. It includes that the forces are known where the solver needs
  them (`ForcesKnown`), because a restarted job does not solve first.

`MolecularDynamics_proof` proves, for any number of steps and of jobs, any
restart folder and both thermostats, from the two assumptions of the module:

- `TypeCorrect`: `Spec => []TypeOK`
- `RestartsFromOneState`: `Spec => []ResumesOneState`
- `KeepsRecordedSteps`: `Spec => []LosesNoRecordedStep`
- `DisplacementsAreOfTheTrajectory`: `Spec => []DisplacementsFollowTrajectory`
- `LoadsDensityOfTheStep`: `Spec => []LoadedDensityIsOfTheStep`
- `ExtrapolatesTheTrajectory`: `Spec => ExtrapolatesLastThreeSteps`, an action property

The code names a step in `time.chk` before it writes the step's files, so what
`time.chk` names may not exist, and a restart may find files of a step that an
earlier job computed beside those of the same step from a later job. That this does
no harm rests on one file of each step, `Key(n)`: the velocity, or with Nose-Hoover
chains the thermostat's file, which is the last that is written of those that
`checkRestart` looks for. The invariant `IInv` says:

- `TimeInv`, `PlaceInv`, `MemoryInv`: the numbers of the job, the control points they
  go with, and that all parts in memory are of the step and trajectory in work.
- `NamesInv`: `time.chk` does not name a step before the last recorded one, and no
  step after the named one has its key.
- `ContentOK`, `StepOK`, `DisplacementOK`: what can be read of a step is of that step;
  if its key is there, positions and velocities are, and all its files that can be
  read are of one trajectory; without its key, nothing of it is summed up.
- `AheadInv`: no step after the one in work has its key, also after a restart that
  went back. It is why a job that computes a step again never meets files of it
  that look complete.
- `ResumedInv`, `PreviousInv`: the step that a restart chose has its key; the
  displacements of the step before lead to the one in work.
- `TodoInv`: how far the writes of the operation in progress have got, and which
  files hold the new value or are still missing because of that.

The writes are where the work is: `WriteKeeps` takes a write that is finished or
cut short (no file, an empty one, the old one) and shows each part, one lemma for
each kind of file. A restart that searches back takes the newest step whose files
exist; that there is a newest one is the one use of well-foundedness. If the
thermostat's folder is not the restart folder, no key ever exists (`Restartable`),
and the job starts anew each time, which keeps all these properties.

The densities have an invariant of their own, `RhoInv`, proved on top of `IInv`:

- `NamedInv`: if `time.chk` names a step that has its key, the saved density is of the
  positions of that step, unless a crash has come between the save of a density and
  the `time.chk` of its step (`unnamed`). While a job is between the two, nothing is
  claimed: the step in work has no key and the old name is about to go.
- `DensitySavedInv`: the density of the step in work is on disk before its files are.
- `LoadsInv`: a job told to load the density restarts from the step `time.chk` names.
- `DensitiesInv`: `densities` holds the prefixes of the trajectory that end in the last
  two steps, or in the last one if the job has just begun; a solve appends a step that
  they lack until `DensityExtrapolation`.

*Only model-checked*: the liveness properties `EveryRankReturns`, `IonCellSearchEnds`,
`SolvingCrashesFinish` and `AllEndAlike`, since liveness under fairness and ENABLED are out of
the prover's reach, and the invariant `FilterMatchesPolynomial`. Of the liveness of the
consensus, the exchange and the groups, what is safety is proved: some rank can always go on
(`NoRankIsStuck`, `ExchangesDoNotDeadlock`, `NoRankIsLeftWaiting`). Two
others give the descent that termination rests on: `IterationEnds` for the iteration of the
groups, and `SearchDescends` for the search for files of a
combined optimization in `init`, whose every turn lowers a bounded pair
(twice the cycle plus the relaxation, and what is left of its steps). What remains for TLC of
`AllEndAlike` and `IonCellSearchEnds` is the step from there to fairness: that a step which
can be taken is taken; of the consensus, also that it takes finitely many steps.

`FilterMatchesPolynomial` is left to TLC because of its numbers. It compares the Chebyshev recursion with
its unrolled form in the code. The numbers are modulo a prime, with inverses that exist
only if it is one and if no `sigma` vanishes, and the products are sums over entries of
several ranks: every degree would need the linearity of these sums and the cancellation
of all scalings, in nonlinear arithmetic that the SMT solver does not decide. What does not
depend on the numbers is what is proved above.

## 6. What is left out

- Failing MPI calls, and ranks that die alone: an exception on a rank ends the
  job, which is what an uncaught exception does.
- Device memory, communication channels and blocks of vectors in the ghost
  exchange; the serial constructors; lookups that change nothing.
- The content of files beyond what a restart looks at. A file that is empty
  stands for one cut short, and reading it is an error: the code then indexes an
  empty vector, whose outcome is undefined; the model takes the one in which the
  job ends.
- `domainBoundingVectorsCurrent.chk` and the atoms' file of a step are one file
  in the model: the search requires both.
- The physics: whether a check succeeds, a solver gives up or a step is accepted
  is any outcome.
- Molecular dynamics with RESCALE and CSVR keeps no state of its own and runs as
  the ensemble without control; a change of the thermostat between jobs.
- The further loops over band groups (orthogonalization, projection, forces), and
  `createKpointParallelizationIndices`; spin and spectrum splitting.
- The nonlocal part of H in the filter, which is commented out in the code, and
  the rounding of the float vector.
- `<` commands that read back what was sent; the plugin mode of the engine, which
  calls the same handlers; three dimensions of the cell, of which one is modelled.
- `reproducible_output`, which turns all checkpoints off, and a first run started
  in a folder with files of an older optimization.
