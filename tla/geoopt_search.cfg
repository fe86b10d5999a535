CONSTANTS
  Modes = {0}
  Verbosity = 0
  MaxCycles = 1
  MaxUpdates = 1
  MaxCrashes = 2
SPECIFICATION FairSpec
PROPERTY RestartSearchEnds
