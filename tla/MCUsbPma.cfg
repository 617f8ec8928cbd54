CONSTANTS
  NWords = 3
  Vals = {0, 1}
  MaxLen = 5
SPECIFICATION Spec
INVARIANTS
  TypeOK
  CopyToExact
PROPERTY CopyRefined
CHECK_DEADLOCK FALSE
