SPECIFICATION ConnectionSpec
CONSTANTS
  Creations = {c1, c2}
  Nodes = {n1, n2}
  Workflows = {{n1}, {n1, n2}}
  Indices = {0, 1, 2, 3, 4}
  Listed = {0}
  Unlisted = {2}
  Nobody = Nobody
  Earlier = Earlier
  MaxEdits = 1
INVARIANTS
  ConnectionTypeOK
  ReferencesFit
  ConnectionsStay
  FailedIsRemoved
PROPERTIES
  ReferencesKeepTheirMeaning
  CreationsEnd
CHECK_DEADLOCK FALSE
