SPECIFICATION Spec

CONSTANTS
  Absent = Absent
  Succeeded = Succeeded
  Custom = Custom
  Undefined = Undefined
  Root = Root
  Placeholder = Placeholder
  NoNode = NoNode
  t = t
  a = a
  b = b
  c = c
  d = d
  e = e
  s = s
  f = f
  u = u
  Triggers = {t}
  Actions = {a, b, c}
  Scopes = {u}
  Untils = {u}
  Definitions <- Until
  Edits = {"add", "parallel", "delete", "move", "joins"}

PROPERTIES
  ScopesAreDeleted
