CONSTANTS
  a = a
  b = b
  Columns = {a, b}
  Groups <- TwoGroups
  Default = 0
  Null = null
  None = none
  NoPayload = nopayload
  TagFrame = 0
  Capacity = 2
  Disks <- WholeAndDamaged
SPECIFICATION Spec
INVARIANTS AnswersReadTheFile CacheSound
CHECK_DEADLOCK FALSE
