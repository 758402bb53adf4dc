\* Both trainers; a first and a second signal at any point.  A process that has
\* ended stays so.
SPECIFICATION FairSpec
INVARIANTS
  ReleasedExactlyOnce
  ExitTold
PROPERTY ProcessEnds
CHECK_DEADLOCK FALSE
