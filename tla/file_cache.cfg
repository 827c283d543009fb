SPECIFICATION FileSpec
CONSTANTS
  Callers = {c1, c2, c3}
  c1 = c1
  c2 = c2
  c3 = c3
  Keys = {k1, k2}
  k1 = k1
  k2 = k2
  Entries = {e1, e2}
  e1 = e1
  e2 = e2
  Miss = Miss
  Silent = Silent
  NoCaller = NoCaller
  Missing = Missing
  Torn = Torn
INVARIANTS
  FileTypeOK
  WriterInv
PROPERTIES
  ImplementsStore
