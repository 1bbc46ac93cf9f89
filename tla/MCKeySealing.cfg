SPECIFICATION Spec
CONSTANTS
  ByteSize = 16
  Xor <- MCXor
  Sbox <- MCSbox
  XorConsts <- MCXorConsts
  KeyNumbers = {0, 1, 2, 3}
  Keys <- MCKeys
  Versions <- MCVersions
  Data <- MCData
  Texts <- MCTexts
PROPERTIES
  UnsealUndoesSeal
  AcceptedReseals
CHECK_DEADLOCK FALSE
