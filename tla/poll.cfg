SPECIFICATION FairPollSpec
CONSTANTS
  Intervals = {0, 2}
  Timeouts = {0, 4}
  AttemptLimits = {0, 2}
  DefaultPollInterval = 1
  DefaultKYCPollInterval = 3
  DefaultPollTimeout = 6
  FetchMax = 2
  LatestStart = 1
\* A poll that has returned takes no further step.
CHECK_DEADLOCK FALSE
INVARIANTS
  PollTypeOK
  FinalIsFinal
  TimeoutMeansUnsettled
  EndsInTime
PROPERTIES
  EveryPollReturns
