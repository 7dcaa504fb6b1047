SPECIFICATION Spec
CONSTANTS
  App = {a1, a2}
  Imported = {}
  NoAddress = {a2}
  Flusher = {f1, f2}
  MAX_ATTEMPTS = 2
  Limit = 2
  MaxTold = 1
  MaxFaults = 1
  MaxRetries = 1
CHECK_DEADLOCK FALSE
INVARIANTS
  RepeatedByFaultsOnly
  ReminderOnce
PROPERTY
  WorkedOff
