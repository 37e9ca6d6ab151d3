SPECIFICATION QSpec
CONSTANTS
  MaxSize = 2
  MaxCount = 3
  Senders = {s1, s2, o1}
  Owners = {o1}
  Receivers = {r1, r2}
  ListReceivers = {r1, r2, r3}
  Data = {d1}
  Nothing = Nothing
SYMMETRY Symmetric
INVARIANTS NoWakeupLost WaitersCounted
PROPERTIES ImplementsFIFO ListImplementsFIFO
