SPECIFICATION FairSpec
CONSTANTS
  Slots = {1, 3}
  N203 = 1
  Capacity = 3
  MaxMsgs = 2
  MaxPieces = 3
INVARIANTS
  TypeOK
  SduIsWhatWasHeard
  NoSplice
PROPERTIES
  LeftoversGo
CHECK_DEADLOCK FALSE
