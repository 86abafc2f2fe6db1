CONSTANTS
  Apps = {a1, a2}
  Finalizers = {f1, f2}
  MaxCalls = 1
  MaxInline = 2
  CmdSize = 1
  HdrSize = 1
  BufSize = 4
  DataSizes = {0, 1, 2, 3}
  Cap = 4
  Vsync = TRUE
SPECIFICATION FairSpec
INVARIANTS CommandsValid OwnReply
PROPERTIES CallReturns RefinesQueue
