SPECIFICATION KeysSpec
CONSTANTS
  Cells <- MCCells
  KeyFiles <- MCKeyFiles
  CckIds = {5, 6}
  Hns = {7}
  AccessDefines <- MCAccessDefines
  N203 = 1
  Capacity = 3
  MaxMsgs = 2
  MaxPieces = 3
INVARIANTS
  TypeOK
  KeyIsCurrent
  DecryptsForCell
  
  MessageKeepsItsKey
  FragmentsCanBeDecrypted
CHECK_DEADLOCK FALSE
