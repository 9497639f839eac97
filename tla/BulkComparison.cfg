CONSTANTS
  Null = null
  Default = 0
  NoValue = empty
  None = none
  Entry = 1
  AfterEntry = 2
  Other = 3
  HeadRows = 2
  MaxA = 4
  MaxB = 2
  TestedKinds = {"u8", "u64", "dict"}
  Pairs <- SmallPairs
  Filters <- TestedFilters
  Cells = {0, 1, 2, 3}
  Walks = {}
  Asked <- TestedCalls
SPECIFICATION BulkSpec
INVARIANTS MapsInOrder StartsWhereAsked StatsCountPairs
INVARIANTS WalksGiveTheCounts CountsEachDifference ListsTheDifferences
PROPERTY WalkTerminates
CHECK_DEADLOCK FALSE
