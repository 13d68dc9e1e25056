SPECIFICATION FairSpec
CONSTANTS
  Thread = {t1}
  Worker = {w1, w2}
  Deduction = {d1, d2}
  Request = {q, bad}
  Malformed = {bad}
  Engine = {"prolog", "clips"}
  EnvironmentText = {bad}
  None = None
  CacheTtl = 1
  MaxTime = 2
  MaxCalls = 2
INVARIANTS
  TypeOK
  RunAnswersOwn
  OncePerDeduction
  SweptFreed
PROPERTY
  EvaluateReturns
CHECK_DEADLOCK FALSE
