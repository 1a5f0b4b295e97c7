CONSTANTS
  SIZE_ONE_PACKET = 12
  SIZE_LARGE_DATA = 36
  SIZE_RCV_BUF = 13
  ReadSizes <- MCReadSizes
  SockBuf = 2
  Crashes = TRUE
SPECIFICATION Spec
INVARIANTS
  TypeOK
  ChannelTiles
  CompleteDelivery
  VerdictSound
  NoDeadlock
PROPERTIES
  Termination
  DeliversBlock
CHECK_DEADLOCK FALSE
