SPECIFICATION Spec
CONSTANTS
  c1 = c1
  c2 = c2
  Absent = Absent
  None = None
  Path <- MCPath
  Content <- MCContent
  InitialFiles <- MCInitialFiles
  Requests <- MCRequests
  MaxTransactions = 2
  MaxEdits = 1
  RacyEdits = FALSE
  MaxFaults = 3
  FaultPoints = {"write", "restore", "snapshot", "record", "tamper"}
CHECK_DEADLOCK FALSE
INVARIANTS
  BackupIsOriginal
  WorkInProgress
PROPERTY
  RollbackIsExact
