SPECIFICATION FairSpec
CONSTANTS
  Cids = {"wasm"}
  Dids = {"alice", "bob"}
  Amounts = {0, 1, 2}
  None = None
  NoTable = NoTable
  WordSize = 3
  MemorySize = 3
  Threads = {"t1", "t2"}
  Calls <- MCCalls
  Batches <- MCBatches
  GuestWrites = {}
  MaxCalls = 3
  MaxQueries = 2
INVARIANTS
  TypeOK
  ValidatorsAgree
PROPERTIES
  ExecutionsNeverPoison
  VerdictFromStates
  BootstrapOnce
  CallsReturn
  RegionsExact
CHECK_DEADLOCK FALSE
