\* A rule that halts, or fails, leaves activations on the agenda.
SPECIFICATION Spec
CONSTANTS
  CorrCid = {c1}
  LegacyCid = {l1}
  NoCid = NoCid
  MaxCycles = 3
  Patience = 2
  HasGoal = TRUE
  HasRitual = TRUE
  Resumed = FALSE
  HasStore = TRUE
  HasNodeId = TRUE
  CoireFails = FALSE
  Kinds = {"offering", "legacy"}
  Wire <- Replies
  MaxTephra = 0
  MaxPush = 0
INVARIANTS
  ConvergedAgendaEmpty
CHECK_DEADLOCK FALSE
