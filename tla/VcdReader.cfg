SPECIFICATION Spec
CONSTANTS
  Scalars = {"a"}
  Buses = {"b"}
  Values = {"0", "X"}
  BusValues = {0, 2}
  Widths = {1, 2}
  MaxEventNum = 2
  MaxTime = 3
  MaxChanges = 4
INVARIANTS WaveformKept CutsTile
CHECK_DEADLOCK FALSE
