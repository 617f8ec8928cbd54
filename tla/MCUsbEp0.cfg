CONSTANTS
  MaxPacket = 2
  IfaceCount = 1
  StrCount = 1
  DescLen <- MCDescLen
  Setups <- MCSetups
  RemoteWakeup = TRUE
  WebUsb = TRUE
  Bos = TRUE
  MaxEvents = 5
SPECIFICATION Spec
INVARIANTS
  TypeOK
  StreamConsistent
PROPERTIES
  DataInOrder
  DataStageLength
  TransferCompletes
CHECK_DEADLOCK FALSE
