SPECIFICATION Spec
CONSTANTS
  MayFail = {"driver"}
  MaxCmds = 1
INVARIANT NoUseAfterDelete
