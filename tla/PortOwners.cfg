CONSTANTS
  Requests <- Executions
SPECIFICATION FairSpec
INVARIANTS
  CompleteMeansWhole
  NothingLeftBehind
  BoundsKept
PROPERTIES
  OwnerEndsAll
  CallAnswered
