SPECIFICATION FairSpec
CONSTANTS
  AccessAssigns <- MCAccessAssigns
  Ssis = {7, 8}
  PduBits = {0, 104}
  DumpDirs = {TRUE, FALSE}
  AirTimes <- MCAirTimes
  Word = 65536
  MaxBursts = 3
PROPERTIES
  BlockEnds
CHECK_DEADLOCK FALSE
