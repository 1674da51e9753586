\* What the result guide of the README says of the received message.
SPECIFICATION Spec
CONSTANTS
  Remaining = 12
  Mid = 2
  Small = 3
  Large = 4
  Margin = 4
  Rows = 1
  Cap = 2
CHECK_DEADLOCK FALSE
INVARIANT ReceiverGetsMessage
