\* Start, resume, interrupt, delete and sweeps of two deductions.
SPECIFICATION Spec
CONSTANTS
  Ded = {d1, d2}
  Ev = {e1}
  None = None
  CoireTtl = 1
  SnapshotTtl = 1
  StoreFails = TRUE
  CoireFails = TRUE
  MaxClock = 2
  MaxBorn = 0
  MaxCrash = 0
SYMMETRY Symmetry
INVARIANTS
  TypeOK
  SnapshotsAreIdle
  FinalStatusIsVerdict
  LeakAccounted
  LineageKept
