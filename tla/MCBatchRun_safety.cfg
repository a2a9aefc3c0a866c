\* Two executors and one administrator; two failures disable the job.
CONSTANTS
  e1 = e1
  e2 = e2
  a1 = a1
  Executor = {e1, e2}
  Admin = {a1}
  JobTypes = {"file", "db"}
  Policies = {"stop"}
  Threshold = 2
  MaxRuns = 2
  MaxNow = 1
  MaxFault = 1
SPECIFICATION Spec
SYMMETRY Symmetry
CONSTRAINT OneExcuse
INVARIANTS
  TypeOK
  SoleExecutor
  NothingLeftRunning
  ScheduledIffActive
CHECK_DEADLOCK FALSE
