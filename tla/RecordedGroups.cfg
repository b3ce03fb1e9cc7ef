CONSTANTS
  Pids <- ThreePids
  Requests <- Hazards
CHECK_DEADLOCK FALSE
SPECIFICATION FairSpec
INVARIANTS
  SeenReuseIsSafe
  StopReportHonest
PROPERTIES
  RequestEnds
