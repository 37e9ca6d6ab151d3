SPECIFICATION HFairSpec
CONSTANTS
  t1 = t1
  t2 = t2
  Callers = {t1, t2}
  Objs = {o1, o2}
  MaxSlots = 2
  NStripes = 2
  StripeOf <- StripesFor2
  GenMod = 16
  QuietExit = TRUE
  NoObj = NoObj
  Getters = {g1, g2, g3}
  Producers = {p1, p2}
  Owner = owner
  Results = {r1, r2}
  Null = Null
  ClaimFirst = TRUE
INVARIANTS PinnedObjectAlive IndicesSound NoUseAfterFree SameResult
PROPERTIES DestroyReturns FutureSettles
CHECK_DEADLOCK FALSE
