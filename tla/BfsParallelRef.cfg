SPECIFICATION FairSpec
CONSTANTS
  Vertices <- MCVertices
  Edges <- MCEdges
  Level0 <- MCLevel0
  Null = Null
  MaxLevel = 2
  Modes <- ParallelRefModes
  MaxThreads = 2
  MaxCalls = 3
  MaxEdits = 0
INVARIANTS
  NoVisitLost
