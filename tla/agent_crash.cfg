SPECIFICATION Spec
CONSTANTS
  c1 = c1
  c2 = c2
  test = test
  diff = diff
  Absent = Absent
  None = None
  Path <- TwoFiles
  Content <- MCContent
  InitialFiles <- TwoFilesInitial
  Requests <- TwoFilesRequests
  MaxTransactions = 1
  MaxEdits = 0
  RacyEdits = FALSE
  MaxFaults = 0
  FaultPoints = {}
  Scopes <- MCScopes
  Command <- MCCommand
  ReadCommand <- MCReadCommand
  Proposals <- BothTests
  Approvals <- MCApprovals
  MaxEvidence = 2
CHECK_DEADLOCK FALSE
INVARIANTS
  RecoveryPossible
