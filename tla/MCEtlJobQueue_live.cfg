\* One thread for two jobs, so that one of them waits for the other's end;
\* nothing crashes and no query fails.
CONSTANTS
  j1 = j1
  j2 = j2
  p1 = p1
  Job = {j1, j2}
  Proc = {p1}
  NoJob = NoJob
  Kinds = {"db", "diff", "file"}
  MaxConcurrent = 1
  MaxBatch = 2
  MaxCrash = 0
  MaxFault = 0
SPECIFICATION FairSpec
PROPERTIES
  EnqueuedJobsEnd
CHECK_DEADLOCK FALSE
