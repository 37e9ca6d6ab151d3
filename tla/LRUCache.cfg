SPECIFICATION CacheSpec
CONSTANTS
  Callers = {t1, t2, t3}
  Keys = {k1, k2}
  Values = {v1, v2}
  SizeOf <- SizeOne
  AnySize = AnySize
  BufferSizes = {2}
  Capacity = 1
  Callbacks <- AllOrNone
  MaxCalls = 4
  Null = Null
SYMMETRY Symmetric
INVARIANTS EntriesIntact OneWorksForAll GetsFresh
