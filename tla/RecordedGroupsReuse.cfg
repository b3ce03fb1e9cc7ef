CONSTANTS
  Pids <- ThreePids
  Requests <- Small
CHECK_DEADLOCK FALSE
SPECIFICATION Spec
INVARIANTS
  MismatchNeverSignalled
