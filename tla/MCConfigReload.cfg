SPECIFICATION Spec
CONSTANTS
  Strict = {"models"}
  ClientFile <- MCClientFile
  Setting = {"m1", "m2"}
  Rules = {"t1"}
  NoRules = "none"
  BuiltIn = "off"
  EnvFlag = {"off"}
  Bad = Bad
  Absent = Absent
  MaxMissed = 1
INVARIANTS
  TypeOK
  StaleIsNoticed
  FlagAnswersAgree
PROPERTY Converges
