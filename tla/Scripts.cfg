SPECIFICATION Spec
CONSTANTS
  W = 5
  XDims = {2, 17, 25}
  YDims = {0, 1, 17}
  ZDims = {0, 2}
  Starts = {0, 1}
  Ends = {0, 3}
  Chunks = {0, 1}
  LaneCounts = {1, 2, 3}
  MaxCells = 34
  MaxWork = 34
  ScriptOf <- MCScriptOf
  HasInput = {2, 3, 4}
  MaxLines = 3
  GroupLanes = 2
  GroupRows = 2
  MaxClosures = 3
  MaxRuns = 1
  ClosureCells = 2
  ScriptNames = {"s"}
  GroupNames = {"g"}
  Variants = {1, 2, 3}
  MaxLive = 2
  MaxBuilds = 2
  MaxCopies = 2
INVARIANTS
  EachCellOnce
  ReductionExact
  AcceptedIsDag
  ConnectedComputes
  
  CacheSound
CHECK_DEADLOCK FALSE
