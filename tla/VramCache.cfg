CONSTANTS
  low = low
  high = high
  Addresses = {low, high}
  Bytes = {0, 1}
  Zero = 0
  None = none
  Interval = 2
  Rows = 4
  Traces <- ShortTraces
  MaxEntry = 5
SPECIFICATION Spec
INVARIANTS IInv AnswersExact CheckpointsClose
