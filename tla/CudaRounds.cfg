SPECIFICATION FairSpec
CONSTANTS
  Pins = {"a", "b"}
  Inputs <- MCInputs
  Period = 2
  MaxCuts = 3
  MaxEventNum = 7
  PerThread = {1, 3}
  EventsPerThread = 2
INVARIANTS TypeOK KernelReadsItsRound TogglesOnce LeakageCovered OverlapOnlyAfterCut
PROPERTIES RoundsEnd
CHECK_DEADLOCK FALSE
