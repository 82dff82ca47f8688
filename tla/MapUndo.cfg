SPECIFICATION MapSpec
CONSTANTS
  x = x
  y = y
  z = z
  l = l
  u = u
  q = q
  f = f
  g = g
  h = h
  NoNode = NoNode
  Custom = Custom
  Empty = Empty
  SourceNodes = {x}
  TargetNodes = {l, u}
  FunctionNodes = {f, h}
  ParentOf <- FlatSchemas
  Repeating = {}
  Arity <- TwoThenNone
  UndoDepth = 2
  Maps <- WiredMap
  MapEdits = {"level", "function", "inline", "pane", "undo", "save"}
  MaxFields = 2
INVARIANTS
  HistoryIsBounded
PROPERTIES
  UndoRestoresCards
