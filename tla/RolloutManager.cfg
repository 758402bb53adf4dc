\* Two roots of two siblings, two engine slots, and no lag allowed, so
\* that roots carried over a publication are kept or dropped.
CONSTANTS
  GroupSize = 2
  MaxLag = 0
  Slots = 2
  MaxRoots = 2
  MaxVersion = 1
SPECIFICATION Spec
INVARIANTS
  SiblingsAccounted
  RootsWhole
  ChecksHold
PROPERTY ImplementsRootStore
CHECK_DEADLOCK FALSE
