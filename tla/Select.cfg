SPECIFICATION Spec
CONSTANTS
  s1 = s1
  s2 = s2
  q1 = q1
  q2 = q2
  Fd = Fd
  Null = Null
  Selectors = {s1, s2}
  Others = {p1}
  Queues = {q1, q2}
  Selectables <- Pairs
  Capacity = 1
  MaxEvents = 2
INVARIANTS NoDanglingNode NoLostNotify
