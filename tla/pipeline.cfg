SPECIFICATION PipelineSpec
CONSTANTS
  Requests = {r1, r2}
  r1 = r1
  r2 = r2
  Mutating = {r1, r2}
  SecretOnly = {}
  SharedCtx = {r1}
  MaxRetries = 3
  WireOutcomes = {"2xx", "4xx", "429", "5xx", "refused", "reset", "eof", "deadline"}
  TokenErrors = {"authNetwork", "authStatus"}
  Cancellable = FALSE
  ConfigThreshold = 2
  ConfigTimeout = 1
  CountCap = 2
CHECK_DEADLOCK FALSE
INVARIANTS
  PipelineTypeOK
  EffectAtMostOnce
  NoStaleResponse
  GivesUpExhausted
  RetryNeverPanics
PROPERTIES
  ImplementsCall
