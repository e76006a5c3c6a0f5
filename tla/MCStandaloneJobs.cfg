CONSTANTS
  j1 = j1
  j2 = j2
  Modes = {"consume", "create", "reuse"}
  Jobs = {j1, j2}
  Others = {j2}
  Calls <- MCCalls
  Workers = {w1, w2}
  Master = w1
  Procs = 1
  MaxStops = 1
  MaxMishaps <- MCMishaps
SPECIFICATION Spec
INVARIANTS TaskInOnePlace DoneMeansAllRan
PROPERTIES DoneNeverReverts JobsEnd
CHECK_DEADLOCK FALSE
