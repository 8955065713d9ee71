SPECIFICATION FairPropagation
CONSTANTS
  a1 = a1
  a2 = a2
  b1 = b1
  nA = nA
  nB = nB
  Nobody = Nobody
  Instances <- Three
  Nodes <- TwoNodes
  NodeOf <- TwoOnA
  Changes <- Clusters
  MaxCalls = 6
  MaxGiveUps = 1
INVARIANTS PropagationTypeOK LastCallLeavesNewest
PROPERTY EveryRowReached
CHECK_DEADLOCK FALSE
