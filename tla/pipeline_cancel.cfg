SPECIFICATION FairPipelineSpec
CONSTANTS
  Requests = {r1, r2}
  r1 = r1
  r2 = r2
  Mutating = {r1}
  SecretOnly = {r2}
  SharedCtx = {}
  MaxRetries = 5
  WireOutcomes = {"2xx", "429", "refused"}
  TokenErrors = {}
  Cancellable = TRUE
  ConfigThreshold = 2
  ConfigTimeout = 1
  CountCap = 2
CHECK_DEADLOCK FALSE
INVARIANTS
  OutageOpensBreaker
PROPERTIES
  EveryRequestReturns
