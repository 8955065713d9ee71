SPECIFICATION FairSpec
CONSTANTS
  t1 = t1
  t2 = t2
  t3 = t3
  None = None
  Tasks <- TwoTasks
  MaxWrites = 2
  MaxFaults = 2
INVARIANTS TypeOK CurrentUnlessRaced OneRevalidation
PROPERTY Converges
CHECK_DEADLOCK FALSE
