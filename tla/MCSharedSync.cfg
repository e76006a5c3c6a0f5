SPECIFICATION Spec
CONSTANTS
  Procs = {p1, p2, p3}
  MaxOps = 2
INVARIANTS LockExclusive JoinTruthful BarrierTogether
PROPERTIES EventWakes BarrierEnds
CHECK_DEADLOCK FALSE
