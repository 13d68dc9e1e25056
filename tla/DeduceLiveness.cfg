\* One deduction, the sweeps and a restart of the server.
SPECIFICATION Spec
CONSTANTS
  Ded = {d1}
  Ev = {e1}
  None = None
  CoireTtl = 1
  SnapshotTtl = 1
  StoreFails = FALSE
  CoireFails = FALSE
  MaxClock = 4
  MaxBorn = 1
  MaxCrash = 1
PROPERTIES
  DeductionSettles
  OrphansCollected
