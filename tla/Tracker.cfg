CONSTANTS
  root = root
  a = a
  b = b
  Pids <- ThreePids
  Root <- root
  Shim = Shim
  Outside = Outside
  Runs <- Hazards
SYMMETRY Others
SPECIFICATION Spec
INVARIANTS
  InventorySound
  SurvivorSlippedThrough
  NoStrangerSignalled
  KilledUnwarnedUnconfirmed
