SPECIFICATION Spec
CONSTANTS
  Threads = {t1, t2, t3}
  Mags = {m1, m2, m3}
  Addresses = {1, 2, 3}
  Null = Null
  Empty = Empty
  Hash <- Hashes
  HashSize = 8
  MinCapacity = 2
  Scenarios <- Instances
  MinCachedPool = 1
  MagazineLimit = 2
  CapacityMax = 1
  ReserveDivisor = 2
INVARIANTS EntryPlacedOnce DynamicEntriesFound NoDanglingMagazine RefusedOnlyWhenFull
SYMMETRY ThreadSymmetry
CHECK_DEADLOCK FALSE
