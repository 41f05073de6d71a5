CONSTANTS
  RingSize = 3
  TcpWnd = 2
  SockRoom = 1
  MaxUp = 2
  MaxDown = 4
SPECIFICATION Spec
INVARIANTS
  TypeOK
  SendQueueStable
  PcbValid
PROPERTIES
  UploadKept
  ImplementsRelay
  NeverStalls
CHECK_DEADLOCK FALSE
