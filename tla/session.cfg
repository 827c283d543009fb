SPECIFICATION FairSessionSpec
CONSTANTS
  Requests = {r1, r2}
  r1 = r1
  r2 = r2
  Mutating = {}
  SecretOnly = {}
  SharedCtx = {}
  MaxRetries = 1
  WireOutcomes = {"2xx", "429", "deadline"}
  TokenErrors = {"authStatus"}
  Cancellable = FALSE
  ConfigThreshold = 1
  ConfigTimeout = 1
  CountCap = 1
  Tokens = {t1, t2}
  t1 = t1
  t2 = t2
  NoCaller = NoCaller
  NoToken = NoToken
  ExpiresIn <- MCExpiresIn
  TokenTTL = 3
  Margin = 2
  Timeout = 1
  CacheFaults = {}
  MaxTime = 3
  RetryDelay <- MCRetryDelay
  Second = 1
  RetryAfter <- MCRetryAfter
  NoHeader = NoHeader
  HalfRange = 4
CHECK_DEADLOCK FALSE
INVARIANTS
  SessionTypeOK
  TokenAliveOnArrival
  LockDiscipline
PROPERTIES
  RetryAfterRespected
  EveryRequestReturnsInTime
