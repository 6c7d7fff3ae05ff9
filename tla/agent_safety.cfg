SPECIFICATION Spec
CONSTANTS
  c1 = c1
  c2 = c2
  test = test
  diff = diff
  Absent = Absent
  None = None
  Path <- OneFile
  Content <- MCContent
  InitialFiles <- OneFileInitial
  Requests <- OneFileRequests
  MaxTransactions = 2
  MaxEdits = 1
  RacyEdits = FALSE
  MaxFaults = 1
  FaultPoints = {"write", "restore", "snapshot", "record"}
  Scopes <- MCScopes
  Command <- MCCommand
  ReadCommand <- MCReadCommand
  Proposals <- BothTests
  Approvals <- AllApprovals
  MaxEvidence = 3
CONSTRAINT OneDisturbance
CHECK_DEADLOCK FALSE
INVARIANTS
  TypeOK
  OneUnresolved
  RefusedOnlyUnfiled
  ReviewedBeforeApplied
PROPERTIES
  VerifiedWasTested
  RollbackIsExact
