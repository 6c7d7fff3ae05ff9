SPECIFICATION FairSpec
CONSTANTS
  c1 = c1
  c2 = c2
  Absent = Absent
  None = None
  Path <- MCPath
  Content <- MCContent
  InitialFiles <- MCInitialFiles
  Requests <- MCRequests
  MaxTransactions = 2
  MaxEdits = 1
  RacyEdits = FALSE
  MaxFaults = 2
  FaultPoints = {"write", "record", "tamper"}
CHECK_DEADLOCK FALSE
PROPERTIES
  ImplementsAtomicChange
  EveryCallReturns
