\* Three files, two executors, two runs.
CONSTANTS
  f1 = f1
  f2 = f2
  f3 = f3
  k1 = k1
  k2 = k2
  x = x
  y = y
  Executor = {a, b}
  File = {f1, f2, f3}
  Key = {k1, k2}
  Early = {f1, f3}
  Ts <- TwoOfAStamp
  Content = {x, y}
  Holding <- OneRepeats
  KeysIn <- Overlapping
  KindsOf <- AnyKindLater
  NoFile = NoFile
  MaxRuns = 2
  MaxFaults = 1
  MaxActs = 1
SPECIFICATION Spec
SYMMETRY Symmetry
INVARIANTS
  TypeOK
  PassedIsAccounted
  LoadedOnce
  RowsCanBeRolledBack
  HistoryIsTrue
PROPERTIES
  CheckpointAdvances
CHECK_DEADLOCK FALSE
