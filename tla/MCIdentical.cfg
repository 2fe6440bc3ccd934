SPECIFICATION Spec
CONSTANTS
  k1 = k1  k2 = k2  s1 = s1  s2 = s2  n1 = n1  n2 = n2  d1 = d1  d2 = d2
  None = None  OtherKey = OtherKey
  BadPin = BadPin
  Key = {k1, k2}
  Secret = {s1, s2}
  Root = k2
  Shared2 = s2
  MaxTries = 1
  Pin = {n1, n2}
  PinOf <- OnePin
  Device = {d1, d2}
  Contents <- TwoContents
  Cooldown = 1
  MgmOf <- Protected
  Metadata = {d1, d2}
  Options <- OnlyClone
INVARIANT ClonesAreIdentical
CONSTRAINT OneInPort
CHECK_DEADLOCK FALSE
