SPECIFICATION Spec
CONSTANTS
  Inputs <- MCInputs
  Options <- MCOptions
  Threshold = 1
INVARIANTS EveryByteOnce GroupsMatch
CHECK_DEADLOCK FALSE
