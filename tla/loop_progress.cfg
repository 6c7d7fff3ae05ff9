SPECIFICATION FairSpec
CONSTANTS
  e1 = e1
  c1 = c1
  g1 = g1
  g2 = g2
  s1 = s1
  s2 = s2
  Stop = Stop
  None = None
  Evidence <- MCEvidence
  Collision <- MCCollision
  Control <- MCControl
  Step <- MCStep
  MaxControlOnly = 2
  StepBudget = 5
  Window = 4
  MaxPeriod = 2
  MaxCalls = 1
  MaxTurns = 2
  MaxInterrupts = 2
CHECK_DEADLOCK FALSE
INVARIANTS
  TypeOK
  IdleStepsBounded
PROPERTIES
  NoReturn
  TurnEnds
