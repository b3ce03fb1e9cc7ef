CONSTANTS
  L = L
  a = a
  out = out
  Procs <- TwoProcs
  Leader <- L
  Pumps <- OnePump
  Requests <- EveryMode
  MaxChunks = 1
  MaxGrants = 1
SPECIFICATION FairSpec
INVARIANTS
  ConfirmedMeansDead
  NoSurvivorUnsignalled
  UntruncatedMeansComplete
PROPERTIES
  DeadGroupNotSignalled
  ImplementsContract
  PeerLossEndsAll
  AnswersDue
