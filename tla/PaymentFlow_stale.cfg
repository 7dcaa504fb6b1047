\* A second confirmation commits what it read before the refund.
SPECIFICATION Spec
CONSTANTS
  MaxOrders = 1
  MaxRefunds = 5
  Rates = {50}
  job = job
  web = web
  Caller = {job, web}
  Job = job
  Worlds <- Stale
CHECK_DEADLOCK FALSE
PROPERTIES
  AcceptedWithMoney
