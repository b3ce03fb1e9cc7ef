CONSTANTS
  p = p
  q = q
  h1 = h1
  h2 = h2
  Owners <- TwoOwners
  Handles <- TwoHandles
  Nobody = Nobody
  Foreign = Foreign
  Attempts = 2
  Uses <- OneOrTwo
  Unreliable <- First
SPECIFICATION FairSpec
INVARIANTS
  ReleasedMeansFree
PROPERTIES
  LockFollowsHandle
