SPECIFICATION VMSpec
CONSTANTS
  VMTasks = {a, b}
  Retries = 2
  Soft = 1
  Hard = 2
INVARIANTS StartedIsValidated
PROPERTIES NoJobCutShort Dismantled
CHECK_DEADLOCK FALSE
