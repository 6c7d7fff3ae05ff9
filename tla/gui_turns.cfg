SPECIFICATION FairSpec
CONSTANTS
  None = None
  Turn <- MCTurn
  Operation <- MCOperation
  Limits <- MCLimits
CHECK_DEADLOCK FALSE
INVARIANTS
  ShownIsRecorded
  TurnsDoNotOverlap
  WholeExchanges
PROPERTIES
  EndsAreReached
