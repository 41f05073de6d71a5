SPECIFICATION Spec
CONSTANTS
  Slots = {s1, s2, s3, s4, s5}
  NoSlot = NoSlot
  NGroups = 3
  Detect <- DetectAuto
  SqSize = 2
  MaxClients = 2
  MaxUp = 0
  MaxDown = 0
SYMMETRY Sym
INVARIANT CacheUsable
CHECK_DEADLOCK FALSE
