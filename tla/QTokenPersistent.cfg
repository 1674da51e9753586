CONSTANTS
  M = 1
  N = 2
  Persistent = TRUE
  Failures = {}
SPECIFICATION Spec
INVARIANTS
  InFlightSound
  SameSessionVerdictExact
CHECK_DEADLOCK FALSE
