SPECIFICATION MapSpec
CONSTANTS
  x = x
  y = y
  z = z
  l = l
  u = u
  q = q
  f = f
  g = g
  h = h
  NoNode = NoNode
  Custom = Custom
  Empty = Empty
  SourceNodes = {x, z, y}
  TargetNodes = {l, q, u}
  FunctionNodes = {g}
  ParentOf <- ArraySchemas
  Repeating = {z, q}
  Arity <- OneOpen
  UndoDepth = 2
  Maps <- BlankMap
  MapEdits = {"level", "source", "drag", "removeSource"}
  MaxFields = 2
INVARIANTS
  ArraysFollow
