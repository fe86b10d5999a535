CONSTANTS
  r1 = r1
  r2 = r2
  r3 = r3
  Rank <- ThreeRanks
  TargetSets <- Targets
  NoRank = NoRank
  MaxRound = 2
SPECIFICATION FairSpec
INVARIANTS RequestersAreDual NoCallIsStuck IInv
PROPERTIES LeavesOnlyWhenDrained EveryRankReturns ImplementsDualExchange
