SPECIFICATION MCSpec
CONSTANTS
  Pids = {p1, p2, p3}
  NumGpus = 2
  MaxRetry = 2
  MaxStarts = 1
  MaxParts = 2
INVARIANTS
  TypeOK
  NoFalseOk
  FaultsAreCritical
  PublishedMatchesExit
  CrashIsNotOk
  OkMeansFree
PROPERTIES
  OverallNeverFalls
  Terminates
