\* Kafka, two peers and one deduction, with failures and two restarts.
SPECIFICATION Spec
CONSTANTS
  Ritual = {r1}
  Key = {k1, k2}
  Performance = {p1, p2, p3}
  Deduction = {d1}
  None = None
  Durable = TRUE
  StoreFails = TRUE
  BrokerFails = TRUE
  MaxLog = 3
  MaxRestarts = 2
SYMMETRY Symmetry
CHECK_DEADLOCK FALSE
INVARIANTS
  TypeOK
  KeyedIdentity
  Delivery
PROPERTIES
  TerminatedClosed
