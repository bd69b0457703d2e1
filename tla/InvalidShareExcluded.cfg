SPECIFICATION FaultySpec
CONSTANTS
  SharingThreshold = 2
  SharingTotal = 3
  Programs = {"v1"}
  Args = {"a"}
  Outputs <- OneOutput
  Keys = {"K0"}
  DefaultKey = "K0"
  MaxEpoch = 0
  MaxAdmin = 0
  None = None
  Threshold = 2
  NodeCount = 3
  GroupPublicKey = "K0"
  Networked = FALSE
  MaxNonces = 3
  Faulty = {1}
INVARIANTS
  InvalidShareExcluded
CHECK_DEADLOCK FALSE
