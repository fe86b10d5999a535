CONSTANTS
  Q = 4
  HalfBohr = 3
  AtomCounts = {1, 2}
  Species = {1}
  MPGrids = {1, 2}
  MPShifts = {0}
  Spins = {0}
  Cells = {1, 2}
  Coordinates = {2, 4, 6, 10}
  MaxOmitted = 1
SPECIFICATION Spec
INVARIANTS TypeOK RepliesAreOfTheSystemAsked CopiesAgree StressLeavesNothing
CHECK_DEADLOCK FALSE
