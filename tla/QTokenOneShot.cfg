CONSTANTS
  M = 1
  N = 1
  Persistent = FALSE
  Failures = {"timeout", "kill", "sigint"}
SPECIFICATION FairSpec
INVARIANTS
  TypeOK
  BasesOnlyAtSelected
  TokenOnlyAtSelected
  VerdictUsesOwnBases
PROPERTIES
  PresentedOnce
  AliceEnds
  BobAgentsStop
  AliceAgentsStop
CHECK_DEADLOCK FALSE
