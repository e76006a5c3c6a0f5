SPECIFICATION FairSpec
CONSTANTS
  Backends <- AllBackends
  MaxInits = 3
  MaxFaults = 2
  MaxCrashes = 1
PROPERTIES
  OnlyOwnDeleted
  CleanIsComplete
  CleanEnds
\* A user who has cleaned everything rests.
CHECK_DEADLOCK FALSE
