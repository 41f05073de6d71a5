CONSTANTS
  q1 = q1
  q2 = q2
  q3 = q3
  N = 3
  NeedCurrent = TRUE
  InProcess = {3}
  Ports <- MCPorts
  NoPort = NoPort
  NoChild = NoChild
  MaxCrashes = 2
SPECIFICATION Spec
INVARIANTS
  TypeOK
  OneChild
  MembersReachable
  SkippedIsDown
  ClosedIsDown
PROPERTY
  CrashNoticed
CHECK_DEADLOCK FALSE
