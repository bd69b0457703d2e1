SPECIFICATION Spec
CONSTANTS
  SharingThreshold = 2
  SharingTotal = 2
  Programs = {"v1"}
  Args = {"a"}
  Outputs <- TwoOutputs
  Keys = {"K0"}
  DefaultKey = "K0"
  MaxEpoch = 0
  MaxAdmin = 0
  None = None
  Threshold = 2
  NodeCount = 2
  GroupPublicKey = "K0"
  Networked = FALSE
  MaxNonces = 2
INVARIANTS
  AttestedByThreshold
CHECK_DEADLOCK FALSE
