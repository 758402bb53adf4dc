\* An engine of two GPUs beside one of one GPU; three tensors, of which two fit
\* into a bucket.
CONSTANTS
  Ranks = {1, 2, 3}
  Leader <- LeaderOf
  NumTensors = 3
  PerBucket = 2
SPECIFICATION FairSpec
INVARIANTS
  AllOrNothing
  NoWorkerWedged
  AgreementsMeet
PROPERTY SyncEnds
CHECK_DEADLOCK FALSE
