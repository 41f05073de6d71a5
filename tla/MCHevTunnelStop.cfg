CONSTANTS
  Sessions = {s1}
  MaxSessionCount = 0
  Burst = 1
SPECIFICATION Spec
PROPERTY
  StopReturns
