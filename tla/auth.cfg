SPECIFICATION AuthSpec
CONSTANTS
  Callers = {c1, c2}
  c1 = c1
  c2 = c2
  Tokens = {t1, t2}
  t1 = t1
  t2 = t2
  NoCaller = NoCaller
  NoToken = NoToken
  ExpiresIn <- SomeExpiresIn
  TokenTTL = 3
  Margin = 1
  Timeout = 1
  CacheFaults = {"set"}
  ClientPanics = TRUE
  Persistent = FALSE
  Restarts = TRUE
  MaxTime = 4
SYMMETRY Symmetry
INVARIANTS
  AuthTypeOK
  OneExchangeAtATime
  NoRedundantFetch
  ValidMeansAlive
  RefreshReplaces
  MetadataKnown
