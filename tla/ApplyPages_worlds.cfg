SPECIFICATION Spec
CONSTANTS
  Midnight = 6
  AnySpace = any
  NoLead = none
  Null = null
  File = {f1, f2}
  MaxCount = 2
  Visitor = {v1, v2}
  MAX_CODES_PER_HOUR = 2
  MAX_GUESSES = 1
  MaxCodes = 3
  Worlds <- MCWorlds
SYMMETRY MCSymmetry
CHECK_DEADLOCK FALSE
INVARIANTS
  OffersAreExact
  ProceedsAsQuoted
  RowHasFile
  CodeIsSpent
