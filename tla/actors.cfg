SPECIFICATION MCSpec
CONSTANTS
  s = s
  m = m
  w = w
  r = r
  w1 = w1
  w2 = w2
  Setups = {s}
  Writers = {w}
  Readers = {r}
  Manager = m
  CollectionWindowSize = 2
  MaxCreated = 4
  MaxClock = 1
  Loads <- MCLoads
  LoaderThreads = {0, 1, 2}
  MaxCollection = 18
  MaxDocumentId = 6
  Scanners = {0, 1}
  Schedules <- MCSchedules
  Databases <- MCDatabases
  DocumentCount <- MCDocumentCount
  DocumentLength <- MCDocumentLength
  ArrayLength = 1
  BatchSize = 2
  MaxTime = 2
  MaxCaught = 2
  Callers = {q1, q2, q3}
  Clusters <- MCClusters
  DROPPED_COLLECTION_RETRIES = 1
  MaxAsked = 2
  Workers = {w1, w2}
  Companies <- MCCompanies
  Shards = {"s", "u", "v"}
  Chunks = {"c"}
  MaxIterations = 2
SYMMETRY AlikeCallers
INVARIANTS
  FamiliesTypeOK
  WindowHolds
  LoadedExactly
  CountsTheRunning ScanComplete WholeUnlessCaught
  SuccessCoversCluster RunAwaited
  MetricsAreTrue TransactionsIsolated
CHECK_DEADLOCK FALSE
