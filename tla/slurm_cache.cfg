CONSTANTS
  Calls = {metrics, logs}
  Gpu = {g1}
  Job = {j1, j2}
  NoJob = NoJob
  CacheDuration = 1
  CallTime = 1
SYMMETRY Symmetry
SPECIFICATION MCSpec
INVARIANTS
  TypeOK
  AttributionIsRecent
  SteadyGpusAreRight
  TornFileExpires
