CONSTANTS
  Times <- MCTimes
  Steps <- MCSteps
  Rows <- MCRows
  MaxRows = 5
  Concurrently <- MCConcurrently
  MaxWorkers = 5
SPECIFICATION FairSpec
INVARIANTS
  TypeOK
  EverySecondOnce
  PermitsConserved
  ConcurrencyBounded
PROPERTIES
  KeepsLedger
  EndsUnlessRaised
\* A backfill stops when it has returned.
CHECK_DEADLOCK FALSE
