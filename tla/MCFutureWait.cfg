SPECIFICATION FairSpec
CONSTANTS
  c1 = c1
  c2 = c2
  Call = {c1, c2}
  NumJobs = 2
  JobOf <- TwoJobs
  Direct = FALSE
  MinSlack = 0
  MaxFails = 1
  None = None
INVARIANTS
  OneOutcome
PROPERTIES
  DoneStaysDone
  CallReported
CHECK_DEADLOCK FALSE
