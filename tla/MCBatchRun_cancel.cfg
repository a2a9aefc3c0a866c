\* One execution of a database batch and one administrator.
CONSTANTS
  e1 = e1
  a1 = a1
  Executor = {e1}
  Admin = {a1}
  JobTypes = {"db"}
  Policies = {"stop"}
  Threshold = 2
  MaxRuns = 1
  MaxNow = 1
  MaxFault = 0
SPECIFICATION FairSpec
PROPERTIES
  CancelledStays
CHECK_DEADLOCK FALSE
