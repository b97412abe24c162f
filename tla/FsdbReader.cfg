SPECIFICATION FairSpec
CONSTANTS
  PoolThreads = 3
  Tasks <- MCTasks
  NVars = 5
  Named <- MCNamed
  Workloads <- MCWorkloads
  RawMax = 7
  Period = 2
  MaxEvents = 3
INVARIANTS
  TypeOK
  MadeBeforeRead
  CountsComplete
  IntervalsTile
PROPERTIES
  ReadReturns
CHECK_DEADLOCK FALSE
