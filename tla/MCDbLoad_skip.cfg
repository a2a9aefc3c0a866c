\* Incremental loads that skip refused rows: the second version written is refused.
CONSTANTS
  Row = {r1, r2}
  Rejected = {2}
  EtlLoad = {a}
  BatchLoad = {c}
  Stamp <- PairStamps
  Sizes = {2}
  Limits = {0}
  SameErrors = 2
  MaxVersion = 3
  MaxStart = 2
  MaxChange = 0
SPECIFICATION Spec
INVARIANTS
  SkipCostsOnlyItsRow
CHECK_DEADLOCK FALSE
