CONSTANTS
  MaxRecords = 4
  PipeCap = 2
SPECIFICATION Spec
INVARIANTS
  FailedChunkIsLogged
\* A chunk ends when publish_chunk returns.
CHECK_DEADLOCK FALSE
