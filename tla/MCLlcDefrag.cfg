SPECIFICATION Spec
CONSTANTS
  Links = {a, b}
  NsSize = 2
  BufSegs = 3
  MaxSdus = 2
  MaxSegs = 3
  MaxRepeats = 1
INVARIANTS
  TypeOK
  NoLateGap
PROPERTIES
  ExactWhenUndisturbed
CHECK_DEADLOCK FALSE
