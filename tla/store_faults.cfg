SPECIFICATION Spec
CONSTANTS
  p1 = p1
  p2 = p2
  fresh = fresh
  plain = plain
  sensitive = sensitive
  old = old
  None = None
  Down = Down
  Lost = Lost
  Proc <- MCProc
  State <- MCState
  OldState <- MCOldState
  FreshState = fresh
  Redact <- MCRedact
  Migrate <- MCMigrate
  MaxEvents = 4
  MaxFaults = 2
  FaultPoints = {"torn", "unended", "sync", "project", "corrupt"}
SYMMETRY MCSymmetry
INVARIANTS
  TypeOK
  ChainIntact
  ProjectionBehindLog
PROPERTIES
  RestartIsAcceptable
  ImplementsDurableState
