SPECIFICATION FairSpec
CONSTANTS
  c1 = c1
  Server = {}
  Cli = {c1}
  Worker <- MCWorker
  a1 = a1
  a2 = a2
  a3 = a3
  Alert = {a1, a2, a3}
  Nobody = Nobody
  NoLimit = NoLimit
  Absent = Absent
  ReadFaults = TRUE
  ConfigFaults = TRUE
  DailyCap = 1
  MonthlyCap = NoLimit
  LastDay = 1
  MonthOf <- MCMonthOf
  Chain <- MCChain
  Backends = {"claude-sonnet", "gpt-4o"}
  MaxAttempts = 2
  Concurrency = 2
  Costs = {1}
  MaxCost = 1
  MaxCrashes = 1
  MaxBilled = 0
INVARIANTS
  TypeOK
  WithinConcurrency
PROPERTIES
  EveryAlertAnswered
  BatchCompletes
CHECK_DEADLOCK FALSE
