\* The interval execution and two of run_now; nobody cancels or toggles,
\* nothing fails.
CONSTANTS
  e1 = e1
  e2 = e2
  e3 = e3
  Executor = {e1, e2, e3}
  Admin = {}
  JobTypes = {"file"}
  Policies = {"stop"}
  Threshold = 2
  MaxRuns = 2
  MaxNow = 2
  MaxFault = 0
SPECIFICATION Spec
INVARIANTS
  OneRunAtATime
CHECK_DEADLOCK FALSE
