CONSTANTS
  p1 = p1
  p2 = p2
  wifi = wifi
  cell = cell
  NoPort = NoPort
  NoNet = NoNet
  Ports = {p1}
  Networks <- MCNetworks
  AutoMode = TRUE
  ProxyOnly = FALSE
  MaxCommands = 1
  MaxNetEvents = 2
  MaxTriggers = 1
SPECIFICATION Spec
PROPERTIES
  NewNetworkApplied
  LockReleased
CHECK_DEADLOCK FALSE
