SPECIFICATION FairSpec
CONSTANTS
  Bases = {x, y}
  MaxSuffix = 3
  Files = {f1, f2, f3, f4, f5, f6, f7}
  Handlers = {h1, h2}
  None = None
  MaxOps = 3
  MaxFaults = 1
INVARIANTS
  NothingLost
  RowsTellTruth
  RetentionKept
PROPERTY
  TrashEmpties
CHECK_DEADLOCK FALSE
