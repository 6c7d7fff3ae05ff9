SPECIFICATION Spec
CONSTANTS
  Length = 5
  Mutates = {2, 3, 5}
  Eon = {5}
  Reverts = {3}
  Checkpoint = {1, 4}
  Conditional = {3, 5}
  Human = TRUE
  UseLimit = {1, 2}
  MaxRuns = 3
  MaxEdits = 1
  MaxFaults = 3
  FaultPoints = {"execute", "verify", "record", "compensate", "crash"}
CHECK_DEADLOCK FALSE
INVARIANTS
  TypeOK
  UsesWithinLimit
  InOrder
  FailureIsUndone
PROPERTIES
  UndoneInReverse
