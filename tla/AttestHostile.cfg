SPECIFICATION FaultySpec
CONSTANTS
  SharingThreshold = 3
  SharingTotal = 4
  Programs = {"v1"}
  Args = {"a"}
  Outputs <- OneOutput
  Keys = {"K0"}
  DefaultKey = "K0"
  MaxEpoch = 1
  MaxAdmin = 1
  None = None
  Threshold = 3
  NodeCount = 5
  GroupPublicKey = "K0"
  Networked = TRUE
  MaxNonces = 4
  Faulty = {1, 2}
INVARIANTS
  SlotHoldsCommittedNonce
  NonceSignsOnce
  FailureHasACulprit
  AttestedByHonestQuorum
PROPERTIES
  ImplementsService
CHECK_DEADLOCK FALSE
