SPECIFICATION FairSpec
CONSTANTS
  Vertices <- MCVertices
  Edges <- MCEdges
  Level0 <- MCLevel0
  Null = Null
  MaxLevel = 2
  Modes <- MCModes
  MaxThreads = 2
  MaxCalls = 3
  MaxEdits = 1
INVARIANTS
  TypeOK
  FlagMatchesQueue
  NoVisitLost
PROPERTIES
  DrainedOnReturn
  LevelOrder
  VisitReturns
