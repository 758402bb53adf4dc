\* Four batches of each trainer, with checkpoints; one crash, then a resumed
\* run, under fairness.
CONSTANTS
  BatchSize = 2
  NumRollouts = 4
  Slots = 2
  Recipes <- Checkpointed
  MaxCrashes = 1
SPECIFICATION FairSpec
PROPERTIES
  ImplementsTrainingRun
  RunEnds
CHECK_DEADLOCK FALSE
