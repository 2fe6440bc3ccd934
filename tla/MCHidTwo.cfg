SPECIFICATION CallsSpec
CONSTANTS
  p1 = p1  p2 = p2  s1 = s1  s2 = s2
  None = None
  Foreign = Foreign
  LastReport = 3
  Quirks <- Keeps
  Disturbances = {}
  Proc = {p1, p2}
  Secret = {s1}
  RetryBudget = 0
SYMMETRY Names
INVARIANTS BufferFits
PROPERTY ExchangeSpec
