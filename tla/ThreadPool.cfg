SPECIFICATION Spec
CONSTANTS
  Workers = {w1, w2}
  Clients = {c1, c2}
  MaxTasks = 3
  Cap = 1
  Modes = {"try", "timed"}
  Nesting = TRUE
SYMMETRY Symmetry
INVARIANTS CompletesOnce ShutdownIsFinal NobodyStranded
PROPERTY WaitIsBarrier
CHECK_DEADLOCK FALSE
