CONSTANTS
  MaxFrames = 4
  MaxExtra = 2
  Budgets = {}
  Adapters = {"sameboy"}
  Options <- SmallOptions
  FRAME = 2
  CycleBound = 12
  None = none
SPECIFICATION Spec
INVARIANT StopRunsExtraFrames
CHECK_DEADLOCK FALSE
