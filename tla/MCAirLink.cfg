SPECIFICATION AirSpec
CONSTANTS
  BitsPerTS = 7
  BitbufSize = 16
  ReadSize = 2
  SyncOffset = 1
  NormOffset = 2
  NextOffset = 6
  SyncLen = 2
  NormLen = 1
  SeenFrom = {0}
  BitnumSize = 1024
  StreamBits = 55
  MaxSeqs = 100
  Cycle = 3
  SyncPeriod = 1
  MaxSlips = 1
  MaxClean = 6
INVARIANTS
  FramesAreBursts
  RelocksInTime
  ClockCatchesUp
PROPERTIES
  LockHolds
CHECK_DEADLOCK FALSE
