SPECIFICATION Spec
CONSTANTS
  p1 = p1  p2 = p2  s1 = s1  s2 = s2
  None = None
  Foreign = Foreign
  LastReport = 3
  Quirks <- AnyQuirk
  Disturbances = {}
  Proc = {p1}
  Secret = {s1}
  RetryBudget = 0
PROPERTY WrittenMeansWritten
