SPECIFICATION OperationsSpec
CONSTANTS
  Callers = {c1, c2, c3}
  c1 = c1
  c2 = c2
  c3 = c3
SYMMETRY Symmetry
\* Every goroutine submits the order once.
CHECK_DEADLOCK FALSE
INVARIANTS
  OperationsTypeOK
  OrderOnce
  DoneMeansDone
  RefusalIsError
PROPERTIES
  ErrorTellsFate
  ImplementsLedger
