\* One root of two siblings, under fairness.
CONSTANTS
  GroupSize = 2
  MaxLag = 0
  Slots = 2
  MaxRoots = 1
  MaxVersion = 1
SPECIFICATION FairSpec
PROPERTY CallsReturn
CHECK_DEADLOCK FALSE
