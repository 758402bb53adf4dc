\* Calls of two chunks of two attempts each, so that an attempt given up is served
\* during the next chunk or the next call; a cache smaller than a chunk and one that
\* holds a call.
CONSTANTS
  CallRows = 3
  ChunkRows = 2
  CacheSizes = {1, 3}
  MaxRetries = 2
  MaxCalls = 2
  MaxFailures = 2
SPECIFICATION Spec
INVARIANTS
  OffTheGpu
  RetryNotRescored
CHECK_DEADLOCK FALSE
