SPECIFICATION Spec
CONSTANTS
  SharingThreshold = 2
  SharingTotal = 3
  Programs = {"v1", "v2"}
  Args = {"a"}
  Outputs <- OneOutput
  Keys = {"K0", "K1"}
  DefaultKey = "K0"
  MaxEpoch = 1
  MaxAdmin = 3
  None = None
  OldCid = "v1"
  NewCid = "v2"
  ProgramKey = "K1"
  OwnKey = TRUE
  Sessions = {s1, s2}
SYMMETRY SessionSymmetry
INVARIANTS
  TypeOK
  InFlightSessionsSurvive
  OldVersionSuperseded
  NewVersionAttests
CHECK_DEADLOCK FALSE
