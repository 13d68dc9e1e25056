\* A store that never fails: one Ritual, created and terminated at once.
SPECIFICATION Spec
CONSTANTS
  Ritual = {r1}
  Key = {k1}
  Performance = {p1}
  Deduction = {d1}
  None = None
  Durable = TRUE
  StoreFails = FALSE
  BrokerFails = FALSE
  MaxLog = 1
  MaxRestarts = 1
INVARIANTS
  TerminationSurvives
