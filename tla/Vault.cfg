SPECIFICATION Spec
CONSTANTS
  Pages = {p1, p2}
  Vaults = {v1, v2}
  Files = {f1, f2}
  Calls = {c1, c2}
  None = None
  MaxOps = 5
  MaxFaults = 1
INVARIANT IndexNamesBlobs FiledStaysFiled RemovedStaysGone
CHECK_DEADLOCK FALSE
