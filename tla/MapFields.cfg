SPECIFICATION MapSpec
CONSTANTS
  x = x
  y = y
  z = z
  l = l
  u = u
  q = q
  f = f
  g = g
  h = h
  NoNode = NoNode
  Custom = Custom
  Empty = Empty
  SourceNodes = {x}
  TargetNodes = {l, u}
  FunctionNodes = {g, h}
  ParentOf <- FlatSchemas
  Repeating = {}
  Arity <- ManyThenOne
  UndoDepth = 2
  Maps <- WiredMap
  MapEdits = {"level", "function", "handle", "field", "input", "deleteEdge"}
  MaxFields = 2
INVARIANTS
  MapTypeOK
  InputsHaveEntries
  OneValuePerField
  CardsHaveEntries
