CONSTANTS
  ServerRounds = 2
  ClientRounds = 3
  Faults = {"start", "connect", "stop", "data", "abort", "raise", "exit"}
SPECIFICATION FairSpec
INVARIANTS
  NoRoundCut
  HardwareStopped
PROPERTIES
  RoundsEnd
CHECK_DEADLOCK FALSE
