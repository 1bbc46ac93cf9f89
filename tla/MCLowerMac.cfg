SPECIFICATION FairSpec
CONSTANTS
  AccessAssigns <- MCAccessAssigns
  Ssis = {7, 8}
  PduBits = {104, 112}
  DumpDirs = {TRUE, FALSE}
  AirTimes <- MCAirTimes
  Word = 65536
  MaxBursts = 6
INVARIANTS
  TypeOK
  FateFollowsBurst
  DumpNamesItsBurst
  PduTimeIsAirTime
PROPERTIES
  BlockEnds
CHECK_DEADLOCK FALSE
