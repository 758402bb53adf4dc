\* Two launchers (capacities 1 and 2), so three calls may be out at once; four
\* tasks, so a plan can leave a task queued.  Under fairness.
CONSTANTS
  NumLaunchers = 2
  Capacity <- TwoLaunchers
  MaxTasks = 4
  MaxAdd = 3
SPECIFICATION FairSpec
INVARIANTS
  TypeOK
  CapacityRespected
  EachTaskInOnePlace
  LaunchedInOrder
  NoWakeUpLost
PROPERTIES
  ImplementsTaskPool
  BlockedCallsReturn
  QueuedTasksComplete
CHECK_DEADLOCK FALSE
