SPECIFICATION Spec
CONSTANTS
  r1 = r1
  r2 = r2
  menu = menu
  x = x
  y = y
  menuId = menuId
  label = label
  xId = xId
  c = c
  yId = yId
  toX = toX
  toY = toY
  None = None
  Requests <- TwoRequests
  Tables <- AllTables
  SystemTables <- SystemOnes
  Columns <- AllColumns
  Relations <- AllRelations
  Primary <- Ids
  Target <- PointsTo
  SystemParts <- SystemOf
  Bodies <- Sent
  Installed <- Installations
  MaxRequests = 2
  MaxFaults = 2
SYMMETRY Symmetry
INVARIANTS TypeOK SystemStays SettledAgrees
PROPERTY DroppedOnlyWhenAsked
CHECK_DEADLOCK FALSE
