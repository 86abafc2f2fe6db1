CONSTANTS
  NumObjs = 1
  Makers = {"app"}
  Owner = "app"
  MaxHandles = 2
  MaxQueue = 2
  Shared = {1}
  MayBind = FALSE
  Split = {1}
  MayDestroy = FALSE
  LateDestroy = FALSE
SPECIFICATION FairSpec
INVARIANT NoUseAfterFree
