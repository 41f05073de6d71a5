SPECIFICATION Spec
CONSTANTS
  Slots = {s1, s2, s3, s4}
  NoSlot = NoSlot
  NGroups = 3
  Detect <- DetectAuto
  SqSize = 3
  MaxClients = 1
  MaxUp = 2
  MaxDown = 1
SYMMETRY Sym
INVARIANT AssertHolds
CHECK_DEADLOCK FALSE
