SPECIFICATION Spec
CONSTANTS
  Vertices = {1, 2, 3, 4, 5, 6, 7, 8}
  None = None
  GateEdges <- mcGateEdges
  Ports = {1}
  OutPorts = {7}
  LevelSpace = 10
  Period = 2
  Checked = {5, 8}
  AsyncChecked = {8}
  InitialConn <- mcConn
  Moves <- mcMoves
  Arcs <- mcArcs
  HeldConn <- mcHeldConn
  HeldCase <- mcHeldCase
  Cases <- mcCases
  Resized = {4}
  Asked = {4}
  AskedSlack = {2}
  MaxCalls = 4
INVARIANTS
  TypeOK
  ConstantsCurrent
  LevelsOrdered
  OnlyLoopsCut
  DelaysCurrent
  ArrivalsCurrent
  RequiredsCurrent
  TnsCurrent
CHECK_DEADLOCK FALSE
