SPECIFICATION PipelineSpec
CONSTANTS
  Requests = {r1}
  r1 = r1
  r2 = r2
  Mutating = {r1}
  SecretOnly = {}
  SharedCtx = {}
  MaxRetries = 5
  WireOutcomes = {"5xx"}
  TokenErrors = {}
  Cancellable = FALSE
  ConfigThreshold = 2
  ConfigTimeout = 1
  CountCap = 2
CHECK_DEADLOCK FALSE
INVARIANTS
  RetryNeverPanics
