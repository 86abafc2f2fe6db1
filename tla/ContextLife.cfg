SPECIFICATION Spec
CONSTANTS
  MayFail = {"io", "attr", "create", "driver", "gl", "soft"}
  MaxCmds = 2
INVARIANTS JoinedUnlessError CreatedIsRunning TornIsLast
PROPERTIES CallsReturn
