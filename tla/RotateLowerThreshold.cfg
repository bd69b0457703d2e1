SPECIFICATION Spec
CONSTANTS
  Order = 5
  Total = 3
  DkgThresholds = {}
  PdkThresholds = {3}
  RotationThresholds = {2}
  Draws <- TwoDraws
  Errors = {0}
INVARIANTS
  QuorumsHoldTheKey
CHECK_DEADLOCK FALSE
