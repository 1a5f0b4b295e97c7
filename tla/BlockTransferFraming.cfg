CONSTANTS
  SIZE_ONE_PACKET = 12
  SIZE_LARGE_DATA = 31
  SIZE_RCV_BUF = 13
  ReadSizes <- MCReadSizes
  SockBuf = 2
  Crashes = FALSE
SPECIFICATION Spec
INVARIANT NoFalseEOF
CHECK_DEADLOCK FALSE
