SPECIFICATION FairSpec
CONSTANTS
  r1 = r1
  r2 = r2
  Regs = {r1, r2}
  Clients = {c1}
  Owners = {o1}
  Workers = {w1}
  Poller = poller
  Scenarios <- Instances
  Conditions = {"in", "err"}
  Capacity = 2
  Null = Null
INVARIANTS NoUseAfterFree CallbacksInTurn
CHECK_DEADLOCK FALSE
PROPERTY LoopProgresses
