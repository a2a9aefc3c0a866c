\* One process, as deployed; the queue and the file threads; a crash or an
\* orderly shutdown and restarts; one failing query.
CONSTANTS
  j1 = j1
  j2 = j2
  p1 = p1
  Job = {j1, j2}
  Proc = {p1}
  NoJob = NoJob
  Kinds = {"upsert", "file"}
  MaxConcurrent = 2
  MaxBatch = 1
  MaxCrash = 1
  MaxFault = 1
SPECIFICATION Spec
SYMMETRY Symmetry
INVARIANTS
  TypeOK
  OneHandler
  PendingUntouched
  WithdrawnNeverRuns
  NoZombie
PROPERTIES
  ExecutedAtMostOnce
CHECK_DEADLOCK FALSE
