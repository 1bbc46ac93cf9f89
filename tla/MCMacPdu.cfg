SPECIFICATION Spec
CONSTANTS
  BlockSizes = {124, 268}
  Resources <- MCResources
  Plain <- MCPlain
  Fills = {0, 9}
  SysInfos <- MCSysInfos
  MaxPdus = 2
  MaxFancy = 1
INVARIANTS
  SdusAsSent
  CursorOnPdu
CHECK_DEADLOCK FALSE
