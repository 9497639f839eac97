CONSTANTS
  None = None
  Null = Null
  Odd = Odd
  MaxRows = 0
  MaxFrames = 0
  MaxLines = 0
  MayFail = FALSE
  WriterMayFail = FALSE
  Inputs = {}
  JsonlFiles <- FewFiles
  Columns = {"a", "n", "x"}
  Vocabulary = {"a", "n"}
  NullableCols = {"n"}
  Types <- SmallTypes
  Flags <- SmallFlags
  Exact <- SmallExact
  Numbered <- SmallNumbered
  Queries <- Pairs
  Contexts = {0}
SPECIFICATION SpecCommands
INVARIANT FindsWhatMeetsAll
CHECK_DEADLOCK FALSE
