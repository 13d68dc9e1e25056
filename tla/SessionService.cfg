\* Two workers, two sessions in all and one per user: creations race, and every request races a termination.
SPECIFICATION Spec
CONSTANTS
  Worker = {w1, w2}
  Sid = {s1, s2, s3}
  User = {u1, u2}
  None = None
  MaxConcurrent = 2
  MaxPerUser = 1
SYMMETRY Symmetry
INVARIANTS
  TypeOK
  QuotaOvershoot
  ClipsEngineFreed
PROPERTIES
  IdentityStable
