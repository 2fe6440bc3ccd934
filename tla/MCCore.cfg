SPECIFICATION MCSpec
CONSTANTS
  OkmLen <- OkmLens
  Ikm <- Ikms
  Passphrase <- Passphrases
  Label = {"x25519", "age-x25519", "mlkem768", "raw", "aes"}
  Purpose <- Purposes
  Index <- Indices
  Length <- Lengths
  IndexText = {"0", "00", "7", "007", "+7", "-7", "x"}
  MaxCalls = 2
  Key <- Keys
  KeyProfile <- Profiles
  Namespace = {"file", "email"}
  Message = {"m1", "m2"}
  MaxSigned = 1
  MaxAlterations = 1
INVARIANTS
  Types OkmIsRfc5869 StreamsApart DoorsAgree ContextDerives RoundTrip
  Sound Complete
CHECK_DEADLOCK FALSE
