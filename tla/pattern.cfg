CONSTANTS
  NumProcs = 3
  MaxIndex = 3
  RangeInputs <- SomeRanges
  EagerLimit = 1
SPECIFICATION Spec
INVARIANTS OverlapIsCaught LegalNeverThrows PatternIsDual WaitsOnlyForRanksBehind CompletedPatternIsUsable
