\* A start with a goal: replies on time, late and twice, patience of two cycles.
SPECIFICATION Spec
CONSTANTS
  CorrCid = {c1}
  LegacyCid = {l1}
  NoCid = NoCid
  MaxCycles = 3
  Patience = 2
  HasGoal = TRUE
  HasRitual = TRUE
  Resumed = FALSE
  HasStore = TRUE
  HasNodeId = TRUE
  CoireFails = FALSE
  Kinds = {"offering", "legacy"}
  Wire <- Traffic
  MaxTephra = 2
  MaxPush = 0
PROPERTIES
  ImplementsConsult
INVARIANTS
  OneOutcome
  PatienceExact
  ConvergedQuiescent
CHECK_DEADLOCK FALSE
