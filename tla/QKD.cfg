CONSTANTS
  Sifted <- MCSifted
  Qber <- MCQber
  LowQber <- MCLowQber
  MaxQber <- MCMaxQber
  Mid = 2
  Small = 3
  Large = 4
  Killable = {"Alice", "Bob"}
SPECIFICATION FairSpec
INVARIANTS
  KeysMatch
  NeverExits
PROPERTIES
  BothLeave
  AgreementSpec
CHECK_DEADLOCK FALSE
