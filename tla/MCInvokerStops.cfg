SPECIFICATION Spec
CONSTANTS
  NumJobs = 2
  TotalCalls <- UnevenTotal
  ChunkSize <- Pairs
  MaxWorkers = 1
  ASYNC_INVOKERS = 2
  Sync = TRUE
  MaxStops = 1
  MaxQuota = 1
  MaxErrors = 1
  MaxCrashes = 1
  NoCall = NoCall
INVARIANTS
  TypeOK
  OnePlace
  NoDoubleActivation
CHECK_DEADLOCK FALSE
