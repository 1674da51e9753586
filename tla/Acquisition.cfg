CONSTANTS
  ByteBits = 2
  SmallList = 2
  M = 2
  BatchSize = 1
  BitSizes = {3, 4}
  Pulses <- MCPulses
  TotalSent = {4, 8000}
  GammaErr <- MCGammaErr
  GammaDet <- MCGammaDet
SPECIFICATION FairSpec
INVARIANTS
  FirstPulses
  VerdictAsMeasured
  UnblindedOnlyAtB
PROPERTIES
  ReadersReturn
CHECK_DEADLOCK FALSE
