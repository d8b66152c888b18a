SPECIFICATION Spec
CONSTANTS
  s1 = s1
  Server = {s1}
  Cli = {}
  Worker <- MCWorker
  a1 = a1
  a2 = a2
  a3 = a3
  Alert = {a1, a2, a3}
  Nobody = Nobody
  NoLimit = NoLimit
  Absent = Absent
  ReadFaults = FALSE
  ConfigFaults = FALSE
  DailyCap = 2
  MonthlyCap = 3
  LastDay = 2
  MonthOf <- MCMonthOf
  Chain <- MCChainWithGap
  Backends = {"claude-sonnet"}
  MaxAttempts = 1
  Concurrency = 1
  Costs = {0, 1, 2}
  MaxCost = 2
  MaxCrashes = 1
  MaxBilled = 0
INVARIANT HardLimit
