\* The night is switched off, its end is moved, the night is switched on.
SPECIFICATION PolicySpec
CONSTANTS
  Setting <- NightSetting
  Fee = "fee"
  Values <- NightValues
  Default <- NightDefault
  Rule <- NightRule
  FirstFee = 2
  App = {}
  Edit = {r1}
  Worker = worker
  Areas <- NightAreas
  Horizon = 1
  MaxEdits <- NightMaxEdits
CHECK_DEADLOCK FALSE
INVARIANTS
  RulesHoldInOrder
