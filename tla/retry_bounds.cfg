SPECIFICATION RetrySpec
CONSTANTS
  l1 = l1
  l2 = l2
  x = x
  None = None
  Action = {l1, l2}
  HighRisk = {l2}
  Call <- MCCall
  Scope = {1}
  Atom = {x}
  Artifact <- MCArtifact
  MaxRetries = 1
  KernelRetries = 0
  UseLimit = 1
  MaxCrashes = 1
CHECK_DEADLOCK FALSE
INVARIANTS
  TypeOK
  RetriesBounded
  AttemptsBounded
