CONSTANTS
  n = 3
  EMax <- MCEMax
SPECIFICATION Spec
INVARIANTS
  VerifiesCharliesHalf
CHECK_DEADLOCK FALSE
