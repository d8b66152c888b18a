SPECIFICATION Spec
CONSTANTS
  Client = {"acme", "globex"}
  Choice <- MCSteps
  Environment = 4
  Probed = 3
  Last = 5
  Declined = "declined"
  Compliance <- MCCompliance
  NoSiem = "none"
  Unanswered = "?"
  Absent = Absent
  Torn = Torn
  MaxSetups = 2
  MaxNotes = 2
INVARIANTS
  TypeOK
  ProgressKept
  ContextOnce
  EndsWhole
CHECK_DEADLOCK FALSE
