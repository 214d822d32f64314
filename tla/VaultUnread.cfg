SPECIFICATION Spec
CONSTANTS
  Pages = {p1}
  Vaults = {v1}
  Files = {f1, f2}
  Calls = {c1}
  None = None
  MaxOps = 4
  MaxFaults = 1
INVARIANT UnreadIndexKept
CHECK_DEADLOCK FALSE
