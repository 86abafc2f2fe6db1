CONSTANTS
  NumCpu = 3
  MaxLaunches = 1
  MaxSlices = 1
  CreateMayFail = TRUE
  Spurious = {}
SPECIFICATION FairSpec
PROPERTY InitReturns
