CONSTANT Parameters <- AllRuns
SPECIFICATION Spec
INVARIANTS FilteredByOneGroup DensityCountsEveryStateOnce BlocksFit PartnersMeet NobodyIsLeftWaiting
PROPERTIES AllEndAlike
CHECK_DEADLOCK FALSE
