CONSTANTS
  MaxFrames = 4
  MaxExtra = 2
  Budgets = {5}
  Adapters = {"sameboy", "sameboy_tcycle", "gambatte", "mgba", "docboy", "gateboy", "missingno"}
  Options <- SmallOptions
  FRAME = 2
  CycleBound = 12
  None = none
SPECIFICATION Spec
INVARIANTS PicturesInTheirFrames StopTakesExtraFrames BudgetNeverTruncates
PROPERTY RunIsBounded
CHECK_DEADLOCK FALSE
