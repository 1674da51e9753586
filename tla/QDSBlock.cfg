CONSTANTS
  n = 3
  EMax <- MCEMax
SPECIFICATION FairSpec
INVARIANTS
  TypeOK
  AcceptedAfterTransfer
  RejectionNeedsHiddenErrors
  SignatureSound
PROPERTIES
  AcceptedIsJudged
  EndEndsAll
CHECK_DEADLOCK FALSE
