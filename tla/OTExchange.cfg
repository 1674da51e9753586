\* Every abort, every split of the matched and unmatched positions, every disk.
SPECIFICATION FairSpec
CONSTANTS
  Remaining = 12
  Mid = 2
  Small = 3
  Large = 4
  Margin = 4
  Rows = 1
  Cap = 2
INVARIANT StopsAgree
INVARIANT TransferCompletes
INVARIANT CorrectTransfer
PROPERTY BothLeave
CHECK_DEADLOCK FALSE
