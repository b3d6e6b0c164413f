CONSTANTS
  MaxRecords = 4
  PipeCap = 2
  Processes = {p1, p2}
  NumChunks = 2
  MaxRestarts = 1
SPECIFICATION MCSpec
INVARIANTS
  TypeOK
  QuietChunkIsComplete
  NoChildLeft
  InStep
  DoneIsTried
PROPERTIES
  ChunkEnds
  EveryoneEnds
\* A chunk ends when publish_chunk returns.
CHECK_DEADLOCK FALSE
