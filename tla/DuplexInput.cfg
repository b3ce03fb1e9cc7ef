CONSTANTS
  c1 = c1
  c2 = c2
  c3 = c3
  Sends <- ThreeSends
  Kinds <- Mixed
  PatientSends <- Unbounded
  HighWater = 2
SPECIFICATION FairInputSpec
PROPERTIES
  ImplementsOrderedInput
  InputNeverBlocks
