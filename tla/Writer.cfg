CONSTANTS
  a = a
  b = b
  c = c
  Columns = {a, b, c}
  Groups <- PairAndSingle
  Nullable = {b}
  Cells = {v0}
  Default = v0
  Null = null
  Unset = unset
  Tags = {0, 1}
  TagFrame = 0
  Payloads = {}
  NoPayload = nopayload
  ChunkSize = 2
  MaxEntries = 3
  MaxSnapshots = 1
  MaxFaults = 2
SPECIFICATION Spec
INVARIANTS IInv RowsPlaced FileConsistent DisciplineNeverRejected
PROPERTY ImplementsLog
CHECK_DEADLOCK FALSE
