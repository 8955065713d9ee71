SPECIFICATION FairSpec
CONSTANTS
  r1 = r1
  r2 = r2
  r3 = r3
  c1 = c1
  c2 = c2
  NoRun = NoRun
  Runs <- ThreeRuns
  Children <- TwoChildren
  MaxCalls = 1
  MaxSlow = 1
  MaxExits = 1
  Detached = FALSE
INVARIANTS IsolatedRuns SlotsAccounted
PROPERTY EveryRunEnds
CHECK_DEADLOCK FALSE
