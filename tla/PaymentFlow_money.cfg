\* Callers that race over two orders, and prices that change under one.
SPECIFICATION FairSpec
CONSTANTS
  MaxOrders = 2
  MaxRefunds = 5
  Rates = {50}
  job = job
  web = web
  Caller = {job, web}
  Job = job
  Worlds <- BothWorlds
CHECK_DEADLOCK FALSE
INVARIANTS
  PriceIsPaid
  EndedOwesNothing
  RefundsWithinPayment
PROPERTIES
  AcceptedWithMoney
  PaidIsNoticed
