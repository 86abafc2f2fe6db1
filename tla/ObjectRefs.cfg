CONSTANTS
  NumObjs = 3
  Makers = {"app", "app2"}
  Owner = "app"
  MaxHandles = 1
  MaxQueue = 1
  Shared = {1, 2}
  MayBind = TRUE
  Split = {3}
  MayDestroy = TRUE
  LateDestroy = FALSE
SPECIFICATION FairSpec
INVARIANTS NoUseAfterFree ReferencesExact
PROPERTIES DestroyFrees
