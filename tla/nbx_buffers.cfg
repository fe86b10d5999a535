CONSTANTS
  r1 = r1
  r2 = r2
  r3 = r3
  Rank <- ThreeRanks
  TargetSets <- Targets
  NoRank = NoRank
  MaxRound = 1
SPECIFICATION Spec
INVARIANT NoReceiveOutlivesItsBuffer
