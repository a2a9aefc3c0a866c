\* Two rows, of which the target refuses one version, two jobs and a batch.
CONSTANTS
  Row = {r1, r2}
  Rejected = {2}
  EtlLoad = {a, b}
  BatchLoad = {c}
  Stamp <- PairStamps
  Sizes = {1, 2}
  Limits = {0, 1}
  SameErrors = 2
  MaxVersion = 3
  MaxStart = 2
  MaxChange = 1
SPECIFICATION Spec
SYMMETRY Symmetry
INVARIANTS
  TypeOK
  LoadedStays
  CheckpointFresh
  TiesReadAgain
  OverlapKeepsRows
PROPERTIES
  FullReplaces
  DiffConverges
CHECK_DEADLOCK FALSE
