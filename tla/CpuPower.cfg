SPECIFICATION Spec
CONSTANTS
  TimeMax = 6
  SumSlew = 4
  NPins = 2
  NInputs = 1
  PoolThreads = 2
  Tasks = {1, 2}
  NGates = 3
  Periods = {6, 3}
  Netlists <- MCNetlists
INVARIANTS
  JobsWithinFrame
  PowerExact
  GlitchesCancel
