SPECIFICATION FairSpec
CONSTANTS
  None = None
  MaxJobs = 2
  MaxStops = 1
  MaxPhases = 2
  MaxEdits = 1
CHECK_DEADLOCK FALSE
CONSTRAINT SourcesGiven
INVARIANTS
  EndsAreTrue
  ViewIsRight
PROPERTIES
  EveryEndIsShown
