\* Two applications and a block: whatever lapses is cleared away in the end.
SPECIFICATION FairSpec
CONSTANTS
  App = {a1, a2}
  Block = {b1}
  c1 = c1
  c2 = c2
  Cell = {c1, c2}
  Ranges <- NestedRanges
  PgHold = 1
  BankHold = 1
  RevisionDays = 0
  MaxTime = 1
  MaxLag = 0
CHECK_DEADLOCK FALSE
PROPERTIES
  LapsedHoldGoes
  OverdueRevisionEnds
