SPECIFICATION Spec

CONSTANTS
  Absent = Absent
  Succeeded = Succeeded
  Custom = Custom
  Undefined = Undefined
  Root = Root
  Placeholder = Placeholder
  NoNode = NoNode
  t = t
  a = a
  b = b
  c = c
  d = d
  e = e
  s = s
  f = f
  u = u
  Triggers = {t}
  Actions = {a, b, c}
  Scopes = {s}
  Untils = {}
  Definitions <- BlankOrJoin
  Edits = {"add", "parallel", "delete", "trigger", "move", "foreach"}

SYMMETRY AnyAction

INVARIANTS
  TypeOK
  OneTriggerOrPlaceholder
  EdgesJoinCards
  EveryCardIsReached
  SavedRunAfterIsDrawn

PROPERTIES
  OthersKeepTheirOrder
