SPECIFICATION Spec
CONSTANTS
  Order = 5
  Total = 3
  DkgThresholds = {2}
  PdkThresholds = {1, 2}
  RotationThresholds = {2}
  Draws <- TwoDraws
  Errors = {0, 1, 4}
INVARIANTS
  CeremonyTypeOK
  QuorumsHoldTheKey
  VerificationSharesMatch
  VerifiesIffSharesInterpolate
  IdentifiableAbort
PROPERTIES
  RotationKeepsTheKey
CHECK_DEADLOCK FALSE
