SPECIFICATION MCSpec
CONSTANTS
  Pipelines = {1, 2}
  CacheDuration <- TwoDurations
  Pods = {1, 2}
  Requests <- TwoRequests
  MaxFetch = 1
  MaxTime = 4
  NumGpus = 2
  Pids = {"p1", "p2"}
  Jobs = {"j1", "j2"}
  NumDevices = 2
  JobIds = {7}
  MaxUtil = 1
  Masks = {1, 2}
  MaxRounds = 2
  Codes = {79, 94}
  Window = 1
  MaxClock = 2
  MaxXids = 2
  MaxCorrected = 1
  NumRecords = 4
  MaxTruncations = 2
  MaxLives = 2
  SacctJobs = {"j1", "j2"}
  LastSecond = 4
  Step = 2
  Slack = 1
  Offsets <- EarlyOrLate
  Delimiters = 3
  MaxPieces = 3
  Unruly = {"j2"}
INVARIANTS
  EveryJobInOneChunk
  EachRecordOnce
  RatesAreOfTheWindow
  SteadyJobsAreRight
  PublishedPeak
PROPERTIES
  AnswerIsRecent
  FetchesAreSpaced
  EveryCallReturns
