CONSTANTS
  out = out
  err = err
  c1 = c1
  c2 = c2
  Streams <- Pipes
  StreamOrder <- PipeOrder
  Scripts <- TwoStreams
  Callers <- TwoCallers
  Patient <- Unhurried
  MaxCalls = 2
  MaxLine = 1
  MaxPending = 2
  MaxOutput = 4
  FrameMax = 2
SPECIFICATION FairSpec
INVARIANTS
  LinesIntact
  CompleteMeansRead
  SessionConsistent
PROPERTIES
  ImplementsCreditFlow
  NoForeignTimeout
  RecvAnswered
  OverLimitIsKilled
