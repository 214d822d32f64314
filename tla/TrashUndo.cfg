SPECIFICATION Spec
CONSTANTS
  Bases = {x}
  MaxSuffix = 4
  Files = {f1, f2, f3, f4, f5, f6, f7}
  Handlers = {h1}
  None = None
  MaxOps = 4
  MaxFaults = 0
INVARIANT
  UndoActsOnItsFile
CHECK_DEADLOCK FALSE
