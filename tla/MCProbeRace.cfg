CONSTANTS
  N = 4
  Parallel = 2
  StopAfter = 2
SPECIFICATION Spec
INVARIANTS
  TypeOK
  OvershootBounded
  NoFalseNegative
  SilentOnlyIfStopped
PROPERTIES
  ReportedOnce
  RaceEnds
