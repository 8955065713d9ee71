SPECIFICATION FairSpec
CONSTANTS
  r1 = r1
  c1 = c1
  c2 = c2
  ann = ann
  editor = editor
  reader = reader
  s1 = s1
  None = None
  Requests <- OneRequest
  Calls <- TwoCalls
  Users <- OneUser
  Root = {}
  Roles <- TwoRoles
  Sessions <- OneSession
  Owner <- OwnerOf
  Remembered <- OneSession
  Routes <- Definitions
PROPERTIES ServedWasPermitted LogoutEnds
