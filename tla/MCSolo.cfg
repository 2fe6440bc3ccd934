SPECIFICATION FairSpec
CONSTANTS
  k1 = k1  k2 = k2  s1 = s1  s2 = s2  n1 = n1  n2 = n2  d1 = d1  d2 = d2  p1 = p1  p2 = p2
  None = None  OtherKey = OtherKey
  BadPin = BadPin
  Key = {k1, k2}
  Secret = {s1, s2}
  Proc = {p1}
  Device = {d1}
  Contents <- AllContents
  Flag = {None, "pcsc", "scdaemon"}
  Env = {None, "", "auto", "pcsc", "scdaemon", "bogus"}
  MaxTries = 2
  Cooldown = 2
  RetryBudget = 2
  Pin = {n1, n2}
  PinOf <- SamePin
INVARIANTS TypeOK QuietOutcome
PROPERTY SessionEnds
