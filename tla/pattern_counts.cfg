CONSTANTS
  NumProcs = 3
  MaxIndex = 4
  RangeInputs <- SomePartition
  EagerLimit = 0
SPECIFICATION Spec
INVARIANT TargetCountsAreRight
