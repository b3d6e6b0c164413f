CONSTANTS
  Wrapped = {TRUE}
  Retries = {2}
  Hints = {0, 6}
  Sizes = {1, 2, 5}
  Invalid = Invalid
  MaxRecords = 2
  Tasks = 1
  MaxRounds = 1
SPECIFICATION Spec
INVARIANTS
  SinkFailureFails
\* The command stops after its last round.
CHECK_DEADLOCK FALSE
