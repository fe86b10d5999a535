CONSTANTS
  NumProcs = 3
  va = va
  vb = vb
  Vec = {va, vb}
  OwnedRanges <- NotRankOrdered
  GhostIndices <- SomeGhosts
  Programs <- OneUpdate
  EagerLimit = 1
  Computed <- SomeValue
SPECIFICATION Spec
INVARIANT MatchesSequential
