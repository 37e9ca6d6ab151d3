SPECIFICATION FairSpec
CONSTANTS
  r1 = r1
  r2 = r2
  Requests = {r1, r2}
  Ctxs = {1, 2}
  Scenarios <- MCScenarios
  Null = Null
  MaxIdle = 1
INVARIANTS
  LiveWhileUsed
  TimeoutIsOwn
  AtMostOnce
  ReuseIsSound
PROPERTY
  RequestsSettle
CHECK_DEADLOCK FALSE
