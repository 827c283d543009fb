SPECIFICATION PipelineSpec
CONSTANTS
  Requests = {r1}
  r1 = r1
  r2 = r2
  Mutating = {r1}
  SecretOnly = {}
  SharedCtx = {}
  MaxRetries = 2
  WireOutcomes = {"5xx"}
  TokenErrors = {}
  Cancellable = FALSE
  ConfigThreshold = 3
  ConfigTimeout = 1
  CountCap = 3
CHECK_DEADLOCK FALSE
INVARIANTS
  OutageOpensBreaker
