\* Every recipe of four rollouts, fresh or resumed, with windows of one or two.
CONSTANTS
  NumRollouts = 4
  Residents <- AnyPolicy
  Intervals = {1, 2, 3}
  Windows = {1, 2}
  Starts = {0, 2}
  Cadences = {0, 2}
  MaxChunks = 2
SPECIFICATION Spec
INVARIANTS
  PhaseFindsItsWeights
  SlabNotShared
  ServesRecentWeights
  TrainerReturnsOnce
CHECK_DEADLOCK FALSE
