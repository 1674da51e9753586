CONSTANTS
  M = 1
  N = 2
  Persistent = TRUE
  Failures = {}
SPECIFICATION Spec
INVARIANTS
  VerdictUsesOwnBases
CHECK_DEADLOCK FALSE
