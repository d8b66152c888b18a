SPECIFICATION Spec
CONSTANTS
  LastTick = 3
  k1 = k1
  Caller = {k1}
  Rpm = 2
  RateWindow = 2
  p1 = p1
  p2 = p2
  Probe = {p1, p2}
  Latency = {1, 3}
  LatencyThreshold = 2
  Percent = 50
  LatencyWindow = 2
  Day = 2
  Accuracy = {0, 50}
  AccuracyThreshold = 70
  Channel = {"slack"}
  Cooldown = 2
  NoCheck = NoCheck
  c1 = c1
  c2 = c2
  Client = {c1, c2}
  i1 = i1
  i2 = i2
  i3 = i3
  i4 = i4
  Row = {i1, i2, i3, i4}
  FirstRows = {i1, i3, i4}
  Feedback <- MCFeedback
  Rule = {"r", "s"}
  Minute = 2
  DayLength = 1
  Schedules <- MCSchedules
  Periods = {2}
  ScheduledPeriod = 2
  AdviceMinimum = 1
  TrendMinimum = 2
  RuleLimit = 1
  Mail = TRUE
  Formats = {"csv", "html"}
  MaxFailedQueries = 1
  MaxDownloads = 1
  MaxChanges = 1
  Nothing = Nothing
  q1 = q1
  q2 = q2
  q3 = q3
  Request = {q1, q2, q3}
  MaxResults = 2
  Traffic <- MCTraffic
  MaxRestarts = 1
SYMMETRY Symmetry
CHECK_DEADLOCK FALSE
INVARIANTS
  TypeOK
  WindowBounded
  TroubleAnnounced
  SectionsAgree
  FiredOncePerMinute
  DueServed
  MailHoldsItsReport
