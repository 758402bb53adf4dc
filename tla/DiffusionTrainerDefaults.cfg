\* The default policy, weights sent every other rollout.
CONSTANTS
  NumRollouts = 4
  Residents <- Defaults
  Intervals = {2}
  Windows = {1}
  Starts = {0}
  Cadences = {0}
  MaxChunks = 1
SPECIFICATION Spec
INVARIANT AdapterPushedBeforeGenerate
CHECK_DEADLOCK FALSE
