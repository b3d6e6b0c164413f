CONSTANTS
  Wrapped = {TRUE, FALSE}
  Retries = {0, 1}
  Hints = {0, 6}
  Sizes = {1, 2, 5}
  Invalid = Invalid
  MaxRecords = 3
  Tasks = 2
  MaxRounds = 2
SPECIFICATION FairSpec
INVARIANTS
  TypeOK
  ChunksFit
  ChunksAreMinimal
  DeliveredOncePerTry
  LossIsLogged
PROPERTIES
  OnceEnds
\* The command stops after its last round.
CHECK_DEADLOCK FALSE
