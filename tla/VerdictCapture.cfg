CONSTANTS
  MAX_INSTRUCTIONS = 4
  FrameSteps = 2
  MaxRan = 3
  Paces = {1, 4, 11, 13, 25}
  Options <- SmallOptions
SPECIFICATION Spec
INVARIANTS VerdictIsThePrograms VerdictTraceWhole BudgetSuffices
PROPERTY CaptureEnds
CHECK_DEADLOCK FALSE
