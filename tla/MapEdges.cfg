SPECIFICATION MapSpec
CONSTANTS
  x = x
  y = y
  z = z
  l = l
  u = u
  q = q
  f = f
  g = g
  h = h
  NoNode = NoNode
  Custom = Custom
  Empty = Empty
  SourceNodes = {x}
  TargetNodes = {l, u}
  FunctionNodes = {f, h}
  ParentOf <- FlatSchemas
  Repeating = {}
  Arity <- OneEach
  UndoDepth = 2
  Maps <- BlankMap
  MapEdits = {"level", "source", "removeSource", "function", "drag", "input", "deleteEdge", "deleteFunction"}
  MaxFields = 2
INVARIANTS
  InputsAreListed
  MapIsAcyclic
  DrawnEdgesHaveCards
