CONSTANTS
  None = None
  Null = Null
  Odd = Odd
  MaxRows = 4
  MaxFrames = 3
  MaxLines = 3
  MayFail = TRUE
  WriterMayFail = TRUE
  Inputs <- SmallInputs
  JsonlFiles <- SmallFiles
  Columns = {"a", "n", "x"}
  Vocabulary = {"a", "n"}
  NullableCols = {"n"}
  Types <- SmallTypes
  Flags <- SmallFlags
  Exact <- SmallExact
  Numbered <- SmallNumbered
  Queries <- SmallQueries
  Contexts = {0, 2}
SPECIFICATION SpecCommands
INVARIANTS EveryFrameMarkedOnce MarksWithinOneRow RowsAreTheEntries FlagsMarkTheirEntries TransitionsAlternate SummaryOfTheRange ShownInContext
CHECK_DEADLOCK FALSE
