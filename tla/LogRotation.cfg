SPECIFICATION Spec
CONSTANTS
  None = None
  MaxTime = 2
  MaxFiles = 6
  SeqMax = 1
  Tolerance = 2
  Backoff = 1
  Interval = 1
  MaxSize = 1
  Scenarios <- Instances
INVARIANTS RetentionKept CleanClose
CHECK_DEADLOCK FALSE
