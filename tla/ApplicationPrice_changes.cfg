SPECIFICATION PricingSpec
CONSTANTS
  Hour = 2
  Null = null
  Rule = {"public", "young"}
  DayEnds = {3, 4}
  MaxFees = 3
  MaxEdits = 1
  Discounts <- MCDiscounts
  Fees <- MCFees
  Times <- MCTimes
  FirstFees <- MCFirstFees
  FirstRules <- MCFirstRules
CHECK_DEADLOCK FALSE
INVARIANTS
  PriceStands
