SPECIFICATION FairSpec
CONSTANTS
  SharingThreshold = 2
  SharingTotal = 3
  Programs = {"v1", "v2"}
  Args = {"a"}
  Outputs <- OneOutput
  Keys = {"K0", "K1"}
  DefaultKey = "K0"
  MaxEpoch = 1
  MaxAdmin = 1
  None = None
  Threshold = 2
  NodeCount = 3
  GroupPublicKey = "K0"
  Networked = FALSE
  MaxNonces = 3
  Bytes = {"a", "b"}
  Texts <- MCTexts
  Times <- MCTimes
  Digest <- MCDigest
  Decimal <- MCDecimal
  NonFinite = {NaN, Infinity}
  MaxIndex = 1
INVARIANTS
  TypeOK
  SlotHoldsCommittedNonce
  NonceSignsOnce
  AttestedByThreshold
  VerificationFailsOnlyOnKeys
  InsufficientOnlyAfterAllAsked
  PanicOnlyOnMisconfiguration
PROPERTIES
  ImplementsService
  AttestReturns
  StatementsKeptApart
  DerivedKeysKeptApart
  ProgramsKeptApart
CHECK_DEADLOCK FALSE
