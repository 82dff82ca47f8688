SPECIFICATION DetailsSpec

CONSTANTS
  Absent = Absent
  Succeeded = Succeeded
  Custom = Custom
  Undefined = Undefined
  Root = Root
  Placeholder = Placeholder
  NoNode = NoNode
  t = t
  a = a
  b = b
  c = c
  d = d
  e = e
  s = s
  f = f
  u = u
  Triggers = {t}
  Actions = {a, b}
  Scopes = {}
  Untils = {}
  Definitions <- One
  Edits = {"add", "parallel", "delete", "trigger", "move"}
  Kinds = {plain, connected}
  NeedConnection = {connected}
  OpenedKind = plain
  Unreachable = {a}
  Loads = {l1, l2}
  NoKind = NoKind
  Connection = Connection
  NoConnection = NoConnection

SYMMETRY AnyLoad

INVARIANTS
  DetailsTypeOK
  UpstreamSettles
  DetailsAreOfOperation
  DeletedIsForgotten
  PanelSettles

CHECK_DEADLOCK FALSE
