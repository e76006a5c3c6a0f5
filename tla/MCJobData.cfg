SPECIFICATION FairSpec
CONSTANTS
  Starts <- AllStarts
  JobOrder <- BeforeAndNow
  Job = "A"
  PageSize = 3
  Retries = 2
INVARIANTS
  AnswersTruthful
  ObjectsListed
  CleanedIsGone
PROPERTIES
  StatusSeen
  LoadedIsCleaned
\* The user's program ends, and so do the workers and the cleaner.
CHECK_DEADLOCK FALSE
