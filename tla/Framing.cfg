CONSTANTS
  Header = 2
  Sizes <- MCSizes
  Misread = {0, 1, 4}
SPECIFICATION FairSpec
PROPERTIES
  LinkSpec
  ReportsArrive
CHECK_DEADLOCK FALSE
