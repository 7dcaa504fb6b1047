SPECIFICATION PolicySpec
CONSTANTS
  Setting <- MCSetting
  Fee = "fee"
  Values <- MCValues
  Default <- MCDefault
  Rule <- MCRule
  FirstFee = 1
  App = {a1}
  Edit = {r1, r2}
  Worker = worker
  Areas <- MCAreas
  Horizon = 3
  MaxEdits <- MCMaxEdits
INVARIANTS
  RulesHoldInOrder
PROPERTIES
  PastStands
  CancelIsSilent
  PaidPriceStands
  PricesFollowFees
CHECK_DEADLOCK FALSE
