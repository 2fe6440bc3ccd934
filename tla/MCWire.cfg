SPECIFICATION MCSpec
CONSTANTS
  p1 = p1  s1 = s1  s2 = s2
  None = None
  Foreign = Foreign
  LastReport = 3
  Quirks <- AnyQuirk
  Disturbances = {"unplug", "foreign", "interrupt", "touch"}
  Proc = {p1}
  Secret = {s1, s2}
  RetryBudget = 1
  CardAnswer <- Answers
  MaxChunk = 3
  Wide = 3
  MaxNoise = 1
  Inquires = TRUE
  Others = TRUE
INVARIANTS Types QuietCallSucceeds FullResponse CertIsFound
PROPERTY EveryCallEnds
CHECK_DEADLOCK FALSE
