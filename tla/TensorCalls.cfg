\* Two devices of two slots; a call that makes tensors, and one or two that use
\* them on the other slot or the other device; one copy, one failing rank.
CONSTANTS
  Devices = {0, 1}
  MaxCalls = 2
  MaxCopies = 1
  MaxFailures = 1
SPECIFICATION FairSpec
INVARIANTS
  TensorsThere
  CountsExact
  EndsMeet
PROPERTY LaunchesEnd
CHECK_DEADLOCK FALSE
