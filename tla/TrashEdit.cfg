SPECIFICATION Spec
CONSTANTS
  Bases = {x, y}
  MaxSuffix = 3
  Files = {f1, f2, f3, f4, f5, f6, f7}
  Handlers = {h1}
  None = None
  MaxOps = 1
  MaxFaults = 0
INVARIANT
  EditKeepsOthers
CHECK_DEADLOCK FALSE
