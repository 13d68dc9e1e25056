\* A resume: restored events, no Ritual, pushes by API clients.
SPECIFICATION Spec
CONSTANTS
  CorrCid = {c1}
  LegacyCid = {l1}
  NoCid = NoCid
  MaxCycles = 2
  Patience = 1
  HasGoal = FALSE
  HasRitual = FALSE
  Resumed = TRUE
  HasStore = TRUE
  HasNodeId = TRUE
  CoireFails = TRUE
  Kinds = {"offering", "legacy", "squawk"}
  Wire <- Replies
  MaxTephra = 0
  MaxPush = 1
INVARIANTS
  TypeOK
  SavedSurvivesEvict
  ConvergedQuiescent
PROPERTIES
  RunReturns
CHECK_DEADLOCK FALSE
