CONSTANTS
  NumCpu = 3
  MaxLaunches = 2
  MaxSlices = 2
  CreateMayFail = TRUE
  Spurious = {"complete"}
SPECIFICATION FairSpec
INVARIANTS NoStaleLaunch  LaunchExact
PROPERTIES CallsReturn RefinesForkJoin
