SPECIFICATION FairSpec
CONSTANTS
  MaxThreads = 3
  MaxTasks = 3
  MaxResizes = 1
INVARIANTS
  TypeOK
  CountExact
  EachOnce
PROPERTIES
  FinishIsBarrier
  FinishReturns
  ThreadsJoin
CHECK_DEADLOCK FALSE
