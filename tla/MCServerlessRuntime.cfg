SPECIFICATION RuntimeFairSpec
CONSTANTS
  Backends <- AllBackends
  Clients = {1, 2}
  Mem = {1}
  MaxOps = 3
  MaxFaults = 1
INVARIANTS
  MetadataMeansDeployed
PROPERTIES
  CleanIsComplete
  OperationsEnd
  RuntimeRestored
\* Users who have done all they do rest.
CHECK_DEADLOCK FALSE
