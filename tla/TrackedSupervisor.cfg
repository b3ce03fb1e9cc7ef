CONSTANTS
  r = r
  a = a
  b = b
  Root = r
  Procs <- ThreeProcs
  Runs <- Busy
  QueueLimit = 1
SPECIFICATION FairSpec
INVARIANTS
  HistoryKept
  
PROPERTIES
  ImplementsContract
  
  ExitReported
