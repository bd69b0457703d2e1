SPECIFICATION Spec
CONSTANTS
  SharingThreshold = 2
  SharingTotal = 2
  Programs = {"v1"}
  Args = {"a"}
  Outputs <- OneOutput
  Keys = {"K0", "K1"}
  DefaultKey = "K0"
  MaxEpoch = 0
  MaxAdmin = 2
  None = None
  Threshold = 2
  NodeCount = 2
  GroupPublicKey = "K1"
  Networked = FALSE
  MaxNonces = 2
PROPERTY
  ProgramKeyAttests
CHECK_DEADLOCK FALSE
