CONSTANTS
  Thermostats = {"NO_CONTROL", "NOSE_HOVER_CHAINS"}
  RestartFolder = "."
  NumberOfSteps = 4
  MaxJobs = 4
SPECIFICATION FairSpec
INVARIANTS ResumesOneState LosesNoRecordedStep DisplacementsFollowTrajectory LoadedDensityIsOfTheStep
PROPERTIES ExtrapolatesLastThreeSteps SolvingCrashesFinish
