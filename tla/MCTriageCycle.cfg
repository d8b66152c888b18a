SPECIFICATION Spec
CONSTANTS
  Run = {r1}
  Siem <- MCSiem
  NoSiem = "none"
  MaxAlerts = 4
  Malformed <- MCMalformed
  Limit = 2
  Lookback = 1
  MaxAttempts = 4
  InitialDelay = 1
  MaxDelay = 3
  Factor = 2
  RetryAfter <- MCRetryAfter
  MaxRuns = 2
  MaxTime = 2
INVARIANTS
  TypeOK
PROPERTIES
  QuietIsExplained
  RunEnds
CHECK_DEADLOCK FALSE
