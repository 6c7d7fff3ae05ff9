SPECIFICATION Spec
CONSTANTS
  Length = 3
  Mutates = {2}
  Eon = {}
  Reverts = {}
  Checkpoint = {1}
  Conditional = {3}
  Human = TRUE
  UseLimit = {1}
  MaxRuns = 3
  MaxEdits = 0
  MaxFaults = 1
  FaultPoints = {"verify"}
CHECK_DEADLOCK FALSE
PROPERTIES
  CompletedIsApplied
