SPECIFICATION PoolFairSpec
CONSTANTS
  PoolThreads = 3
  Tasks = {1, 2, 3, 4}
INVARIANTS
  TaskHeldOnce
  DrainedWhenGone
PROPERTIES
  FuturesSettle
  PoolJoins
CHECK_DEADLOCK FALSE
