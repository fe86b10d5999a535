CONSTANTS
  NumProcs = 3
  va = va
  vb = vb
  Vec = {va, vb}
  OwnedRanges <- RankOrdered
  GhostIndices <- SomeGhosts
  Programs <- AllPrograms
  EagerLimit = 1
  Computed <- SomeValue
SPECIFICATION Spec
INVARIANTS TypeOK MatchesSequential MessagesMatchTheirVector WaitsOnlyForRanksBehind NothingOutlivesItsOperation
