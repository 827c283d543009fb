SPECIFICATION FairBreakerSpec
CONSTANTS
  Callers = {c1, c2, c3}
  c1 = c1
  c2 = c2
  c3 = c3
  ConfigThreshold = 5
  ConfigTimeout = 15
  CountCap = 6
INVARIANTS
  BreakerTypeOK
  ClosedIffShortStreak
  HalfOpenIsAged
PROPERTIES
  ImplementsGate
  OpenIsNotForever
