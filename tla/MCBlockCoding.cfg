SPECIFICATION Spec
CONSTANTS
  Ones = {0, 1, 14, 60, 124}
  Cells <- MCCells
INVARIANTS TypeOK TrellisFollowsEncoder CrcResidue ReceiverUndoes
CHECK_DEADLOCK FALSE
