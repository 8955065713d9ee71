SPECIFICATION Spec
CONSTANTS
  r1 = r1
  r2 = r2
  r3 = r3
  Seed = Seed
  None = None
  Requests <- ThreeRequests
  MaxFaults = 2
SYMMETRY Interchangeable
INVARIANTS RowHasFile Consistent NoLitter StreamIsWhole
CHECK_DEADLOCK FALSE
