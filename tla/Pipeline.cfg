CONSTANTS
  b = b
  Columns = {b}
  Groups <- OneGroup
  Nullable = {b}
  Cells = {v0}
  Default = v0
  Null = null
  Unset = unset
  Tags = {0}
  TagFrame = 0
  Payloads = {}
  NoPayload = nopayload
  ChunkSize = 2
  MaxEntries = 3
  MaxSnapshots = 1
  MaxFaults = 1
  Capacity = 1
  None = none
SPECIFICATION PipelineSpec
INVARIANT OpensWholeTraces
PROPERTY ImplementsArchive
CHECK_DEADLOCK FALSE
CONSTRAINT UnsoundReadOnce
