SPECIFICATION FairSpec
CONSTANTS
  MaxRestarts = 5
  Poll = 1
  Grace = 8
  KillWait = 2
  Stale = 5
  MaxFaults = 2
CHECK_DEADLOCK FALSE
INVARIANTS
  RunsAlone
  RestartsAccounted
  ReportIsTrue
  StopIsPrompt
PROPERTIES
  StopIsObeyed
