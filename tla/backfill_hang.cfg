CONSTANTS
\* No interval and no step: `from_file` alone, with two publications at once.
  Times = {}
  Steps = {}
  Rows <- MCRows
  MaxRows = 5
  Concurrently = {2}
  MaxWorkers = 5
SPECIFICATION FairSpec
PROPERTIES
  InvocationFinishes
CHECK_DEADLOCK FALSE
