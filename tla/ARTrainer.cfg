\* Four rollouts, fresh or resumed, whose sync and evaluation intervals need not
\* divide each other; one interruption or failure anywhere.
CONSTANTS
  NumRollouts = 4
  Intervals = {1, 2, 3}
  Cadences = {0, 2, 3}
  Starts = {0, 2}
SPECIFICATION Spec
INVARIANTS
  WorkFindsItsState
  RecordTrue
PROPERTY ApartOnTheGpu
CHECK_DEADLOCK FALSE
