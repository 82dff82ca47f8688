SPECIFICATION Spec

CONSTANTS
  Absent = Absent
  Succeeded = Succeeded
  Custom = Custom
  Undefined = Undefined
  Root = Root
  Placeholder = Placeholder
  NoNode = NoNode
  t = t
  a = a
  b = b
  c = c
  d = d
  e = e
  s = s
  f = f
  u = u
  Triggers = {t}
  Actions = {a, b}
  Scopes = {s, f}
  Untils = {}
  Definitions <- TriggerOnly
  Edits = {"add", "parallel", "delete", "move"}

SYMMETRY AnyOperation

INVARIANTS
  GraphsAgreeWithMetadata
  NothingLeftBehind
  RootsHangFromHeading

PROPERTIES
  MoveLeavesOldParents
