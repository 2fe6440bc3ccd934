SPECIFICATION Spec
CONSTANTS
  k1 = k1  k2 = k2  s1 = s1  s2 = s2  n1 = n1  n2 = n2  d1 = d1  d2 = d2  p1 = p1  p2 = p2
  None = None  OtherKey = OtherKey
  BadPin = BadPin
  Key = {k1, k2}
  Secret = {s1, s2}
  Proc = {p1, p2}
  Device = {d1, d2}
  Contents <- TwoContents
  Flag = {None}
  Env = {None}
  MaxTries = 1
  Cooldown = 1
  RetryBudget = 1
  Pin = {n1, n2}
  PinOf <- OwnPin
INVARIANTS SessionInv NoWrongIkm
CONSTRAINT Few
SYMMETRY SameProcs
PROPERTY ServiceSpec
