SPECIFICATION Spec
CONSTANTS
  c1 = c1
  c2 = c2
  c3 = c3
  r1 = r1
  r2 = r2
  Null = Null
  Conns = {c1, c2, c3}
  MemCap = 3
  MaxNeed = 8
  MaxBody = 4
  MaxRegs = 2
  Callers <- MCCallers
  Reactors = {r1, r2}
  Workers = {"w1"}
  Rejecters = {"j1"}
  Scenarios <- MCScenarios
SYMMETRY Symmetric
INVARIANTS
  OneHolder
  ServerLives
  MemoryBounded
  NoLostAdmission
PROPERTY
  ImplementsBodyMemory
