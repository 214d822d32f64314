SPECIFICATION FairSpec
CONSTANTS
  MaxJobs = 4
  QueueCap = 1
INVARIANTS
  QueuedIsScheduled
  CanceledSavesNothing
  RowsAreListed
PROPERTIES
  QueueDrains
  KeepsJobLife
CHECK_DEADLOCK FALSE
