CONSTANTS
  FifoSize = 8
  XferSizes = {2, 4}
  CmdSizes = {6, 10}
  RespSizes = {4}
  MaxOps = 8
  FwVerSize = 4
  RoLens = {1, 3, 5}
  RwLens = {1, 4}
SPECIFICATION Spec
INVARIANTS
  TypeOK
  FifoBounded
  FwVerInString
PROPERTIES
  ExecutionCompletes
CHECK_DEADLOCK FALSE
