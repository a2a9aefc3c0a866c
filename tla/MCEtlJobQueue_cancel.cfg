\* A job is cancelled between its claim and the start of its load.
CONSTANTS
  j1 = j1
  p1 = p1
  Job = {j1}
  Proc = {p1}
  NoJob = NoJob
  Kinds = {"db"}
  MaxConcurrent = 1
  MaxBatch = 1
  MaxCrash = 0
  MaxFault = 0
SPECIFICATION FairSpec
PROPERTIES
  CancelSticks
CHECK_DEADLOCK FALSE
