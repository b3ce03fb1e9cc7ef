CONSTANTS
  Account <- Accounts
  Runs <- Starts
CHECK_DEADLOCK FALSE
SPECIFICATION FairSpec
INVARIANTS
  ProgramAsAsked
  PrivilegedDropPermitted
  ErrorNamesStage
  FailedStartLeavesNothing
PROPERTIES
  StartupEnds
