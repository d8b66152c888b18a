SPECIFICATION FairSpec
CONSTANTS
  h1 = h1
  Hook = {h1}
  e1 = e1
  e2 = e2
  e3 = e3
  Event = {e1, e2, e3}
  all = all
  some = some
  Settings = {all, some}
  Wants <- MCWants
  Absent = Absent
  Empty = Empty
  Torn = Torn
  MaxFailures = 2
  MaxAttempts = 2
  MaxEdits = 1
  EditEvents = {e1}
  Troubles <- MCTroubles
INVARIANTS
  TypeOK
  Durable
  ActiveForCause
PROPERTIES
  LateDeliveriesKeepSettings
  DeliveriesEnd
