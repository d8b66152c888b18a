SPECIFICATION Spec
CONSTANTS
  Config = {"plain", "rich", "bad"}
  Valid = {"plain", "rich"}
  View <- MCView
  Stub = "plain"
  Torn = Torn
  Absent = Absent
  Idle = Idle
  MaxVersions = 2
  LastSecond = 1
  MaxCrashes = 1
INVARIANTS
  TypeOK
  ListedIsSaved
  OneCurrent
PROPERTIES
  SameIdOnlyWhenFull
  NothingOverwrittenUnsaved
