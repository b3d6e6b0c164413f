SPECIFICATION GpuSpec
CONSTANTS
  Pids = {p1, p2}
  NumGpus = 1
  MaxRetry = 1
  MaxStarts = 0
INVARIANT AlreadyDeadIsNoError
