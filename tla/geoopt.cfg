CONSTANTS
  Modes = {0, 1, 2}
  Verbosity = 1
  MaxCycles = 2
  MaxUpdates = 1
  MaxCrashes = 3
SPECIFICATION FairSpec
INVARIANTS LosesAtMostOneSave UpdateCrashesLoseNothing CheckpointsAdvance ConvergedMeansRelaxed
PROPERTY IonCellSearchEnds
