SPECIFICATION DatasetSpec
CONSTANTS
  t1 = t1
  t2 = t2
  t3 = t3
  Builders = {t1, t2}
  Clients <- MCClients
  Instances = {0}
  Collections = {1, 2, 3}
  Schemas = {1, 2, 3}
  Uri <- MCUri
  Server <- MCServer
  Vault <- MCVault
  Encrypted <- MCEncrypted
  MaxPoolSize = 2
  MaxCalls = 2
  actorId = 2
  Datasets <- MCDatasets
  MaxDraw = 2
  MaxNumber = 9
  consecutiveRepeatsThreshold = 2
  Templates <- MCTemplates
  MaxDocuments = 3
  GenThreads = {t1, t2, t3}
  Paths = {"f", "g"}
  Lines <- MCLines
  Missing = {"g"}
  MapStrings = {"u", "v"}
  MapCounts <- MCCounts
  Casts <- MCCasts
  Workloads <- MCWorkloads
  Limiters <- MCLimiters
  PhaseNumbers = 4
PROPERTY WaitEnds
CHECK_DEADLOCK FALSE
