CONSTANTS
  NumProcs = 3
  Vec <- AllVec
  OwnedRanges <- ThreeRanks
  GhostIndices <- ThreeRankGhosts
  Programs <- FilterPrograms
  EagerLimit = 2
  Computed <- SomeValue
  Filters <- SomeFilters
  Prime = 97
  localH <- SomeH
  sqrtMass <- SomeMass
  constraints <- SomeConstraints
  halfWidth = 3
  centre = 5
  sigma1 = 4
SPECIFICATION FilterSpec
INVARIANTS FilterMatchesPolynomial ProductsAddToClearedGhosts
PROPERTIES OpenVectorsAreLeftAlone
