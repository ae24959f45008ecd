CONSTANTS
  HDR = 2
  PayLens = {0, 1, 3, 4, 5}
  CAP = 3
  BUF = 6
  RecMax = 3
  WireCap = 2
  MaxPkts = 1
  Selects = FALSE
SPECIFICATION FairSpec
PROPERTIES TimeoutEnds
CHECK_DEADLOCK FALSE
