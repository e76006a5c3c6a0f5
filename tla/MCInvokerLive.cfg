SPECIFICATION FairSpec
CONSTANTS
  NumJobs = 2
  TotalCalls <- ShortLastTotal
  ChunkSize <- Pairs
  MaxWorkers = 1
  ASYNC_INVOKERS = 2
  Sync = FALSE
  MaxStops = 0
  MaxQuota = 1
  MaxErrors = 1
  MaxCrashes = 1
  NoCall = NoCall
INVARIANTS
  SlotsConserved
PROPERTIES
  PoolSpec
  EveryCallInvoked
\* A client that has submitted every job and whose calls are done rests.
CHECK_DEADLOCK FALSE
