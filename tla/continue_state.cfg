SPECIFICATION CrudSpec
CONSTANTS
  Workloads <- StateWorkloads
  MaxVisits = 2
  MaxRetries = 0
  MaxDocs = 3
INVARIANT ContinuesFromPreviousPhase
