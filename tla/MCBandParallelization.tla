----------------------- MODULE MCBandParallelization -----------------------
(* Runs on hosts and on devices, with and without remainders. *)
EXTENDS BandParallelization

Run(grid, kPoints, bandsOf, cheby, wfc) ==
  [procs |-> grid[1], npool |-> grid[2], nbandGrps |-> grid[3], kPoints |-> kPoints,
   numEigenValues |-> bandsOf, chebyWfcBlockSize |-> cheby, wfcBlockSize |-> wfc,
   useDevice |-> FALSE, autoDeviceBlockSizes |-> FALSE,
   overlapComputeCommunCheby |-> FALSE, bandParalOpt |-> TRUE]

Opt(runs) == {[r EXCEPT !.bandParalOpt = opt] : r \in runs, opt \in BOOLEAN}

\* On hosts: [ranks, NPKPT, NPBAND] with the block sizes equal, as NPBAND > 1 demands.
SmallGrids == {<<1, 1, 1>>, <<2, 1, 2>>, <<2, 2, 1>>, <<3, 1, 3>>, <<3, 2, 1>>, <<4, 1, 3>>}

HostRuns ==
  Opt({Run(g, k, n, c, c) : g \in SmallGrids, k \in {1, 3}, n \in {2, 5, 8}, c \in {1, 2, 3}})
  \cup Opt({Run(<<4, 2, 2>>, 3, 5, 2, 2), Run(<<4, 1, 2>>, 1, 5, 2, 2), Run(<<3, 3, 1>>, 5, 3, 2, 2)})
  \cup {Run(<<2, 1, 2>>, 1, 1, 1, 1), Run(<<2, 1, 2>>, 1, 4, 1, 2), Run(<<1, 1, 1>>, 1, 4, 1, 2)}

OnDevice(run, auto, overlap) ==
  [run EXCEPT !.useDevice = TRUE, !.autoDeviceBlockSizes = auto, !.overlapComputeCommunCheby = overlap]

DeviceRuns ==
  {OnDevice(Run(g, 2, n, c, w), FALSE, overlap) :
     g \in {<<1, 1, 1>>, <<2, 1, 2>>, <<3, 1, 3>>}, n \in {5, 6, 8, 12},
     c \in {1, 2, 3}, w \in {1, 2, 3, 6}, overlap \in BOOLEAN}
  \cup {OnDevice(Run(<<4, 2, 2>>, 3, 8, 2, 2), FALSE, TRUE)}

\* The block sizes are chosen by the program: the numbers of bands around each
\* change of the choice.
AutoRuns ==
  {OnDevice(Run(<<1, 1, 1>>, 1, n, 1, 1), TRUE, TRUE) : n \in {7, 101, 601, 1001, 2001}}
  \cup {OnDevice(Run(<<2, 1, 2>>, 1, n, 1, 1), TRUE, TRUE) : n \in {13, 201, 601}}

AllRuns == HostRuns \cup DeviceRuns \cup AutoRuns
=============================================================================
