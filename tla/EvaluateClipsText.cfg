SPECIFICATION Spec
CONSTANTS
  Thread = {t1}
  Worker = {}
  Deduction = {d1, d2}
  Request = {q, bad}
  Malformed = {bad}
  Engine = {"clips"}
  EnvironmentText = {bad}
  None = None
  CacheTtl = 1
  MaxTime = 2
  MaxCalls = 2
INVARIANT
  RequestsReachToolbox
CHECK_DEADLOCK FALSE
