SPECIFICATION Spec
CONSTANTS
  None = None
  MaxTime = 2
  MaxFiles = 6
  SeqMax = 2
  Tolerance = 2
  Backoff = 1
  Interval = 1
  MaxSize = 1
  Scenarios <- SteppedBack
INVARIANT NewNameIsNewest
CHECK_DEADLOCK FALSE
