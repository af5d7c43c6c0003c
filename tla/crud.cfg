SPECIFICATION CrudSpec
CONSTANTS
  Workloads <- MCWorkloads
  MaxVisits = 3
  MaxRetries = 1
  MaxDocs = 3
INVARIANTS CrudTypeOK ReportedOnce OnlyReachableStates
PROPERTIES WholeTransactions
