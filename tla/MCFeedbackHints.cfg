SPECIFICATION Spec
CONSTANTS
  r1 = r1
  r2 = r2
  Row = {r1, r2}
  Feedback <- MCFeedback
  Rule = {1, 2}
  Threshold = 50
  MinSamples = 2
  MaxHints = 1
  Ttl = 2
  Faults = TRUE
  Damage = TRUE
  LastSecond = 2
  MaxCrashes = 1
  MaxFailures = 2
  None = None
SYMMETRY RowSymmetry
INVARIANTS
  TypeOK
  OwnFeedbackSeen
  FreshWithinTtl
  AcceptedSurvives
  TableOrRecovery
