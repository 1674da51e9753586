CONSTANTS
  Position = {1, 2}
SPECIFICATION FairSpec
INVARIANTS
  TypeOK
  VerdictsAgree
  AcceptsWithBob
  SuccessIsShared
PROPERTIES
  VerdictEndsAll
CHECK_DEADLOCK FALSE
