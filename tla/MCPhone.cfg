SPECIFICATION MCSpec
CONSTANTS
  k1 = k1  k2 = k2  s1 = s1  s2 = s2  n1 = n1  n2 = n2  d1 = d1  d2 = d2
  None = None  OtherKey = OtherKey
  Null = Null
  BadPin = BadPin
  Key = {k1, k2}
  Secret = {s1, s2}
  Device = {d1, d2}
  Contents <- AllContents
  MaxTries = 2
  Cooldown = 0
  Pin = {n1, n2}
  PinOf <- OwnPin
  Purpose = {"a"}
  MaxTaps = 2
  Ikm <- Ikms
  DeriveArgs <- DeriveArguments
  WgArgs <- WgArguments
  MaxCalls = 2
INVARIANTS
  Types NfcKeyMaterial PinOfferedOnce SameDerivation MaskedUntilRevealed SameAsCli
  AbsentMeansNone
PROPERTY ReadingEnds
CHECK_DEADLOCK FALSE
