SPECIFICATION Spec
CONSTANTS
  c1 = c1
  c2 = c2
  Call = {c1}
  NumJobs = 1
  JobOf <- OneJob
  Direct = TRUE
  MinSlack = 0
  MaxFails = 1
  None = None
INVARIANTS
  Truthful
CHECK_DEADLOCK FALSE
