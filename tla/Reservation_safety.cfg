\* Two applications, one schedule block, two cells.
SPECIFICATION Spec
CONSTANTS
  App = {a1, a2}
  Block = {b1}
  c1 = c1
  c2 = c2
  Cell = {c1, c2}
  Ranges <- NestedRanges
  PgHold = 1
  BankHold = 1
  RevisionDays = 1
  MaxTime = 2
  MaxLag = 1
SYMMETRY Symmetry
INVARIANTS
  NoDoubleBooking
  SlotMatchesStatus
  ShownFreeIsBookable
  MoneyBeforeReview
  LapsedStaysLapsed
PROPERTIES
  ExpiryIsDeserved
  ClosureIsDeserved
  FinalIsFinal
  LedgerSpec
