SPECIFICATION FairSpec
CONSTANTS
  NumJobs = 2
  NumTasks <- TwoThenOne
  worker_processes = 2
  MaxClears = 2
  None = None
INVARIANTS
  LatchCoversTasks
  NoOrphans
PROPERTIES
  ClearReturns
  ManagerStops
\* A client that has invoked and cleared everything rests.
CHECK_DEADLOCK FALSE
