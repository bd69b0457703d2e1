SPECIFICATION Spec
CONSTANTS
  SharingThreshold = 2
  SharingTotal = 2
  Programs = {"v1", "v2"}
  Args = {"a"}
  Outputs <- OneOutput
  Keys = {"K0", "K1"}
  DefaultKey = "K0"
  MaxEpoch = 1
  MaxAdmin = 4
  None = None
  OldCid = "v1"
  NewCid = "v2"
  ProgramKey = "K0"
  OwnKey = FALSE
  Sessions = {s1}
INVARIANTS
  NewVersionAttests
CHECK_DEADLOCK FALSE
