SPECIFICATION Spec
CONSTANTS
  Cids = {"wasm"}
  Dids = {"alice", "bob"}
  Amounts = {0, 1, 2}
  None = None
  NoTable = NoTable
  WordSize = 3
  MemorySize = 3
  Threads = {"t1"}
  Calls <- MCCalls
  Batches <- MCBatches
  GuestWrites <- MCGuestWrites
  MaxCalls = 3
  MaxQueries = 2
PROPERTY
  ReadOnlyExecution
CHECK_DEADLOCK FALSE
