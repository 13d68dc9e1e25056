\* The orphan pass against an unexpired snapshot (coire TTL below snapshot TTL).
SPECIFICATION Spec
CONSTANTS
  Ded = {d1}
  Ev = {e1}
  None = None
  CoireTtl = 1
  SnapshotTtl = 3
  StoreFails = FALSE
  CoireFails = FALSE
  MaxClock = 3
  MaxBorn = 0
  MaxCrash = 0
PROPERTIES
  OrphanSweepSparesSnapshots
