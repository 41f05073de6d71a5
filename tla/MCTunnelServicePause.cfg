CONSTANTS
  p1 = p1
  p2 = p2
  wifi = wifi
  cell = cell
  NoPort = NoPort
  NoNet = NoNet
  Ports <- MCPorts
  Networks <- MCNetworks
  AutoMode = TRUE
  ProxyOnly = FALSE
  MaxCommands = 2
  MaxNetEvents = 1
  MaxTriggers = 1
INIT Init
NEXT Next
SYMMETRY Symmetry
PROPERTY
  PauseHolds
CHECK_DEADLOCK FALSE
