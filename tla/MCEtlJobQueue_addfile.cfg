\* The row of a claimed add-file job is deleted before its thread reads it.
CONSTANTS
  j1 = j1
  p1 = p1
  Job = {j1}
  Proc = {p1}
  NoJob = NoJob
  Kinds = {"upsert"}
  MaxConcurrent = 1
  MaxBatch = 1
  MaxCrash = 0
  MaxFault = 0
SPECIFICATION Spec
INVARIANTS
  AddedFileNeverReplaces
CHECK_DEADLOCK FALSE
