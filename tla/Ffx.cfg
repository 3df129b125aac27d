SPECIFICATION Spec
CONSTANTS
  Lengths <- MCLengths
  Rounds = 4
  Inputs <- MCInputs
  MaxCalls = 3
INVARIANTS
  TypeOK
  HalvesFit
  DecryptInverts
  EncryptInjective
PROPERTIES
  IsEncrypter
CHECK_DEADLOCK FALSE
