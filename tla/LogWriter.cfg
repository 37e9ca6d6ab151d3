SPECIFICATION Spec
CONSTANTS
  Threads = {t1, t2}
  Batch = 4
  Ceiling = 7
  MaxFile = 4
  QueueSize = 1
  Scenarios <- Instances
INVARIANTS RecordsKept NoSleepOnWork
SYMMETRY ThreadSymmetry
CHECK_DEADLOCK FALSE
