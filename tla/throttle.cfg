SPECIFICATION ThrottleSpec
CONSTANTS
  Callers = {c1, c2, c3}
  c1 = c1
  c2 = c2
  c3 = c3
  MinDelay = 2
  MaxTime = 6
CHECK_DEADLOCK FALSE
INVARIANTS
  ThrottleTypeOK
PROPERTIES
  OwnSpacing
