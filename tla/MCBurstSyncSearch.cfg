SPECIFICATION Spec
CONSTANTS
  BitsPerTS = 8
  BitbufSize = 19
  ReadSize = 2
  SyncOffset = 3
  NormOffset = 4
  NextOffset = 5
  SyncLen = 1
  NormLen = 1
  SeenFrom = {1}
  BitnumSize = 58
  StreamBits = 56
  MaxSeqs = 1
INVARIANTS
  FindsTrainSeq
CHECK_DEADLOCK FALSE
