CONSTANTS
  NoFile = NoFile
  MaxUpdates = 2
  MaxDeaths = 1
  MaxFaults = 2
  MaxChecks = 1
  MaxLoads = 1
  MaxWipes = 1
SPECIFICATION Spec
INVARIANTS
  TypeOK
  FileIsNotAhead
  PanicErases
PROPERTIES
  NothingLost
  EveryUpdateSaved
CHECK_DEADLOCK FALSE
