SPECIFICATION Spec
CONSTANTS
  Limits <- MCLimits
  Depths <- MCDepths
INVARIANTS
  PoolWithinLimits
  NothingLeftRunning
PROPERTIES
  LoopGoesOn
  StopGetsDone
CHECK_DEADLOCK FALSE
