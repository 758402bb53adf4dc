\* Five batches of each trainer, without a crash.
CONSTANTS
  BatchSize = 2
  NumRollouts = 5
  Slots = 3
  Recipes <- Undisturbed
  MaxCrashes = 0
SPECIFICATION Spec
INVARIANTS
  ChecksHold
  PromptsAccounted
  OneVersionPerBatch
  InflightBounded
  StalenessBudgeted
CHECK_DEADLOCK FALSE
