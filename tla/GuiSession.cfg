CONSTANTS
  CheckStability = TRUE
  MaxQueue = 2
SPECIFICATION FairSpec
INVARIANTS SingleRun HonestStatus
PROPERTY StopIsNoticed
