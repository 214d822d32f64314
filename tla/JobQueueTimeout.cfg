SPECIFICATION FairSpec
CONSTANTS
  MaxJobs = 1
  QueueCap = 1
PROPERTY
  TimeoutBoundsJob
CHECK_DEADLOCK FALSE
