CONSTANTS
  r = r
  a = a
  b = b
  Root = r
  Procs <- ThreeProcs
  Runs <- Duplex
  QueueLimit = 1
SPECIFICATION FairSpec
PROPERTIES
  KillHeardAnswered
