SPECIFICATION Spec
CONSTANTS
  MaxJobs = 2
  QueueCap = 1
INVARIANT
  ListShowsQueue
CHECK_DEADLOCK FALSE
