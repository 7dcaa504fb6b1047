\* Two refunds, two processes, two administrators, and what may fail.
SPECIFICATION FairSpec
CONSTANTS
  r1 = r1
  r2 = r2
  R = {r1, r2}
  Amount <- Halves
  Paid = 4
  Job = job
  Proc = {job, web}
  Admin = {a1, a2}
  MaxAttempts = 2
  FaultSets = {{}, {"lost_answer"}, {"crash", "async"}}
CHECK_DEADLOCK FALSE
INVARIANTS
  SentOnceIfReliable
  RecordedAsSent
  CancelledIsReturned
PROPERTIES
  SettledStaysSettled
  RequestedEnds
