CONSTANTS
  Sessions = {s1, s2}
  MaxSessionCount = 2
  Burst = 1
SPECIFICATION Spec
INVARIANTS
  TypeOK
  NeverAborts
  QuitReachesAll
PROPERTIES
  OwnQuit
  EventAnswered
