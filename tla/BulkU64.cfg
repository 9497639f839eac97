CONSTANTS
  Cells = {0, 1}
  Null = null
  Default = 0
  NoValue = empty
  MaxRows = 2
  MaxChunk = 2
  TestedKinds = {"u64"}
  Walks <- SmallWalks
SPECIFICATION WalkSpec
INVARIANT BulkCountsLikeScalar
CHECK_DEADLOCK FALSE
