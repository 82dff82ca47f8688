------------------------------ MODULE DataMap ------------------------------
(***************************************************************************)
(* The data map slice (data-mapper: core/state/DataMapSlice.ts) under the  *)
(* edits of the canvas, the properties pane and the function list, with    *)
(* its undo and redo stacks.                                               *)
(*                                                                         *)
(* Reducers write to drafts.  A reducer that spreads the current map into  *)
(* a new one shares with it every object the spread did not copy, so what  *)
(* it writes into those is also written into the map it pushes on the undo *)
(* stack: hence Commit takes both the new map and what became of the old.  *)
(***************************************************************************)
EXTENDS MapConnections

CONSTANTS
  UndoDepth,   \* how many maps the undo stack holds
  Maps,        \* the connections a loaded map may have
  MapEdits,    \* bound: the kinds of edit the user makes
  MaxFields    \* bound: the fields of an unbounded function or an array

MapEditKinds ==
  {"level", "source", "function", "drag", "handle", "input", "field", "deleteEdge",
   "deleteFunction", "removeSource", "inline", "pane", "undo", "save"}

ASSUME MapEditsAreKnown ==
  MapEdits \subseteq MapEditKinds /\ UndoDepth \in Nat \ {0, 1} /\ MaxFields \in Nat

VARIABLES
  cur,        \* curDataMapOperation, see MapTypeOK
  pristine,   \* pristineDataMap
  isDirty,
  undoStack, redoStack,
  inserting   \* what onFunctionItemClick has still to dispatch, or Idle

mapVars == <<cur, pristine, isDirty, undoStack, redoStack, inserting>>

Idle == [step |-> 0]

-----------------------------------------------------------------------------
(* doDataMapOperation                                                      *)

(* Faulty: keeps one too many. *)
KeepOneMore(seq, n) == IF Len(seq) <= n THEN seq ELSE SubSeq(seq, Len(seq) - n, Len(seq))

KeepLast(seq, n) == IF Len(seq) <= n THEN seq ELSE SubSeq(seq, Len(seq) - n + 1, Len(seq))

(* Bound: without undo among the edits nobody looks at the stacks. *)
Commit(new, old) ==
  /\ cur' = new
  /\ isDirty' = TRUE
  /\ IF "undo" \in MapEdits
     THEN undoStack' = Append(KeepLast(undoStack, UndoDepth - 1), old) /\ redoStack' = <<>>
     ELSE UNCHANGED <<undoStack, redoStack>>
  /\ UNCHANGED pristine

(* The old map when the new dictionary has the entries of the old one... *)
SharingEntries(C) ==
  [cur EXCEPT !.conns = [n \in DOMAIN @ |-> IF n \in DOMAIN C THEN C[n] ELSE @[n]]]

(* ...and when it is the old one. *)
SharingAll(C) == [cur EXCEPT !.conns = C]

-----------------------------------------------------------------------------
(* What the canvas shows.                                                  *)

OnLevel == Children(cur.level) \cup ({cur.level} \ {NoNode})
OnCanvas == cur.canvas \cup cur.functions \cup OnLevel

(* The overview is shown instead until a level is chosen. *)
CanvasIsShown == cur.level # NoNode /\ inserting = Idle

(* An edge of the canvas; its port is the field of a function it goes to.  *)
Edges ==
  {[from |-> e[1], to |-> e[2], port |-> e[3]] :
     e \in {x \in Nodes \X (OnCanvas \cap DOMAIN cur.conns) \X (0..MaxFields) :
              /\ x[1] \in Named(cur.conns, x[2])
              /\ IF x[2] \in FunctionNodes THEN x[3] > 0 /\ Held(cur.conns, x[2], x[3]) = x[1]
                 ELSE x[3] = 0}}

(* Keys are made from a guid: never one that anything still names. *)
Mentioned(m) ==
  m.functions \cup DOMAIN m.conns \cup {m.inline[i] : i \in DOMAIN m.inline}
    \cup UNION {Named(m.conns, n) \cup m.conns[n].outputs : n \in DOMAIN m.conns}
FreshFunctions ==
  FunctionNodes \ UNION {Mentioned(m) : m \in {cur, pristine}
    \cup {undoStack[i] : i \in DOMAIN undoStack} \cup {redoStack[i] : i \in DOMAIN redoStack}}

-----------------------------------------------------------------------------
(* Source nodes and target levels.                                         *)

(* addNodeToCanvasIfDoesNotExist, addAncestorNodesToCanvas *)
WithAncestors(canvas, x) ==
  LET grandparents == canvas \cap (Ancestors(x) \ {ParentOf[x]})
      highest == CHOOSE g \in grandparents : grandparents \subseteq {g} \cup {n \in SourceNodes : g \in Ancestors(n)}
      outer == ArrayOf(ParentOf[x])
  IN  canvas \cup {x} \cup
      IF grandparents # {} THEN {n \in Ancestors(x) : highest \in Ancestors(n)}
      ELSE {outer} \ {NoNode}

AddSource(x) ==
  /\ x \in SourceNodes \ cur.canvas
  /\ Commit([cur EXCEPT !.canvas = WithAncestors(@, x)], cur)

(* Faulty: looks at the target schema only. *)
RemoveUsedSource(x) ==
  /\ x \in cur.canvas
  /\ OutputsOf(cur.conns, x) \cap OnLevel = {}
  /\ Commit([cur EXCEPT !.canvas = @ \ {x}], cur)

(* deleteNodeWithKey refuses when an output is on the current level. *)
RemoveSource(x) ==
  /\ x \in cur.canvas
  /\ OutputsOf(cur.conns, x) \cap (cur.functions \cup OnLevel) = {}
  /\ Commit([cur EXCEPT !.canvas = @ \ {x}], cur)

(* Faulty: takes all that is connected for functions. *)
SetMixedLevel(l) ==
  LET shown == Upstream(cur.conns, LevelRoots(cur.conns, l))
  IN  /\ l \in TargetNodes \cup {NoNode}
      /\ l # NoNode => Children(l) # {}
      /\ UpstreamEnds(cur.conns, LevelRoots(cur.conns, l))
      /\ Commit([cur EXCEPT !.level = l, !.canvas = shown \cap SourceNodes, !.functions = shown], cur)

(* setCurrentTargetSchemaNode: functions that reach no target are dropped. *)
SetLevel(l) ==
  LET drawn == Upstream(cur.conns, LevelRoots(cur.conns, cur.level))
      clean == [n \in DOMAIN cur.conns \ (cur.functions \ drawn) |-> cur.conns[n]]
      shown == Upstream(clean, LevelRoots(clean, l))
  IN  /\ l \in TargetNodes \cup {NoNode}
      /\ l # NoNode => Children(l) # {}
      /\ UpstreamEnds(cur.conns, LevelRoots(cur.conns, cur.level))
      /\ UpstreamEnds(clean, LevelRoots(clean, l))
      /\ Commit([cur EXCEPT !.level = l, !.conns = clean, !.canvas = shown \cap SourceNodes,
                            !.functions = shown \cap FunctionNodes],
                cur)

-----------------------------------------------------------------------------
(* Functions and connections.                                              *)

(* Faulty: the card has no entry until it is connected. *)
AddBareFunction(f) == Commit([cur EXCEPT !.functions = @ \cup {f}], cur)

(* Faulty: writes to the cards of the old map as well. *)
AddFunctionInPlace(f) ==
  LET new == [cur EXCEPT !.functions = @ \cup {f}, !.conns = WithEntry(@, f)] IN Commit(new, new)

AddFunction(f) ==
  LET conns == WithEntry(cur.conns, f)
  IN  Commit([cur EXCEPT !.functions = @ \cup {f}, !.conns = conns], SharingAll(conns))

DeleteFunction(f) ==
  LET conns == Without(cur.conns, f)
  IN  /\ f \in cur.functions
      /\ f \in DOMAIN cur.conns => Named(cur.conns, f) \cup cur.conns[f].outputs \subseteq DOMAIN cur.conns
      /\ Commit([cur EXCEPT !.functions = @ \ {f}, !.conns = conns], SharingAll(conns))

(* makeConnection, to field i of t or, if i is 0, to the field it finds.   *)
Made(s, t, i) == IF i = 0 THEN Connect(cur.conns, s, t) ELSE SetValue(cur.conns, t, i, s)

(* It throws when it follows a function's connections in vain. *)
MakeThrows(s, t, i) ==
  \/ t \in FunctionNodes /\ i = 0 /\ Arity[t] = 0
  \/ s \in FunctionNodes /\ ~UpstreamEnds(Made(s, t, i), {s})
  \/ t \in FunctionNodes /\ ~DownstreamEnds(Made(s, t, i), {t})

(* The arrays to connect are those around the first target found below t.  *)
MakeConnection(s, t, i) ==
  LET conns == Made(s, t, i)
      sources == IF s \in FunctionNodes THEN Upstream(conns, {s}) \cap SourceNodes ELSE {s}
      targets == IF t \in FunctionNodes THEN Downstream(conns, {t}) \cap TargetNodes ELSE {t}
      Keep(C, canvas) == Commit([cur EXCEPT !.conns = C, !.canvas = canvas],
                                [SharingEntries(C) EXCEPT !.canvas = canvas])
  IN  /\ ~MakeThrows(s, t, i)
      /\ IF sources = {} \/ targets = {} THEN Keep(conns, cur.canvas)
         ELSE \E u \in targets :
                LET C == WithAllArrays(conns, sources, u)
                IN  Keep(C, cur.canvas \cup (Named(C, cur.level) \cap SourceNodes))

(* A drag between two cards; small function cards have one handle for all  *)
(* fields and check for cycles, expanded ones have one per field.          *)
Drag(s, t, i) ==
  /\ s \in cur.canvas \cup cur.functions
  /\ t \in cur.functions \cup OnLevel
  /\ t \in OnLevel => i = 0
  /\ i # 0 => t \in DOMAIN cur.conns /\ i \in Fields(cur.conns, t)
  /\ t \in FunctionNodes =>
       IF s \in SourceNodes THEN SlotAvailable(cur.conns, t)
       ELSE i = 0 => ~Circular(cur.conns, t, s) /\ SlotAvailable(cur.conns, t)
  /\ MakeConnection(s, t, i)

(* The dropdowns of the properties pane, for a card on the canvas.         *)
SetConnectionInput(t, i, v) ==
  LET conns == SetValue(cur.conns, t, i, v)
  IN  /\ t \in cur.functions \cup OnLevel
      /\ IF t \in cur.functions THEN t \in DOMAIN cur.conns /\ i \in Fields(cur.conns, t) ELSE i = 1
      /\ v \in ((cur.canvas \cup cur.functions) \ {t}) \cup {Custom, Empty}
      /\ v # Held(cur.conns, t, i)
      /\ v \in Nodes /\ t \in FunctionNodes => ~Circular(cur.conns, t, v)
      /\ Held(cur.conns, t, i) \in Nodes => Held(cur.conns, t, i) \in DOMAIN cur.conns
      /\ Commit([cur EXCEPT !.conns = conns], SharingEntries(conns))

(* addUnboundedInput, removeUnboundedInput *)
ChangeFields(f) ==
  /\ f \in cur.functions \cap DOMAIN cur.conns /\ Manifold(f)
  /\ \E conns \in {SetValue(cur.conns, f, Cardinality(Fields(cur.conns, f)) + 1, Empty)}
                   \cup {RemoveField(cur.conns, f, i) : i \in Fields(cur.conns, f)} :
       Commit([cur EXCEPT !.conns = conns], SharingEntries(conns))

(* deleteNodeWithKey for an edge: arrays that serve nothing go with it.    *)
DeleteEdge(e) ==
  LET cut == Disconnect(cur.conns, e.from, e.to, e.port)
      sources == IF e.from \in SourceNodes THEN {e.from} ELSE Upstream(cut, {e.from}) \cap SourceNodes
  IN  /\ e \in Edges /\ e.from \in DOMAIN cur.conns
      /\ UpstreamEnds(cut, {e.from})
      /\ \E conns \in IF sources = {} THEN {cut} ELSE UNION {DeletedArrays(cut, s) : s \in sources} :
           Commit([cur EXCEPT !.conns = conns], SharingEntries(conns))

-----------------------------------------------------------------------------
(* A function put on an edge: onFunctionItemClick dispatches five times.   *)

SetInline(keys) == Commit([cur EXCEPT !.inline = keys], cur)

PickInline(f) ==
  /\ cur.inline # <<>>
  /\ cur.inline[3] = 0 => Arity[f] # 0
  /\ inserting' = [step |-> 1, fn |-> f, from |-> cur.inline[1], to |-> cur.inline[2], port |-> cur.inline[3]]
  /\ AddFunction(f)

InlineStep(n) ==
  inserting # Idle /\ inserting.step = n /\ inserting' = [inserting EXCEPT !.step = n + 1]

InlineEdgeIsKnown == {inserting.from, inserting.to} \subseteq DOMAIN cur.conns

InlineDisconnect ==
  LET conns == Disconnect(cur.conns, inserting.from, inserting.to, inserting.port)
  IN  /\ InlineStep(1) /\ InlineEdgeIsKnown
      /\ Commit([cur EXCEPT !.conns = conns], SharingAll(conns))

InlineInput == InlineStep(2) /\ MakeConnection(inserting.from, inserting.fn, 0)

InlineOutput == InlineStep(3) /\ MakeConnection(inserting.fn, inserting.to, inserting.port)

InlineEnds ==
  /\ inserting # Idle /\ inserting.step = 4
  /\ inserting' = Idle
  /\ SetInline(<<>>)

(* A dispatch that throws ends the handler where it is. *)
InlineThrows ==
  /\ inserting # Idle
  /\ \/ inserting.step = 1 /\ ~InlineEdgeIsKnown
     \/ inserting.step = 2 /\ MakeThrows(inserting.from, inserting.fn, 0)
     \/ inserting.step = 3 /\ MakeThrows(inserting.fn, inserting.to, inserting.port)
  /\ inserting' = Idle
  /\ UNCHANGED <<cur, pristine, isDirty, undoStack, redoStack>>

-----------------------------------------------------------------------------
(* Undo, redo, save, discard.                                              *)

Undo ==
  LET top == Len(undoStack) IN
  /\ undoStack # <<>>
  /\ redoStack' = Append(redoStack, cur)
  /\ cur' = undoStack[top]
  /\ undoStack' = SubSeq(undoStack, 1, top - 1)
  /\ isDirty' = TRUE
  /\ UNCHANGED pristine

Redo ==
  LET top == Len(redoStack) IN
  /\ redoStack # <<>>
  /\ undoStack' = Append(undoStack, cur)
  /\ cur' = redoStack[top]
  /\ redoStack' = SubSeq(redoStack, 1, top - 1)
  /\ isDirty' = TRUE
  /\ UNCHANGED pristine

SaveDataMap == pristine' = cur /\ isDirty' = FALSE /\ UNCHANGED <<cur, undoStack, redoStack>>

DiscardDataMap ==
  /\ cur' = pristine
  /\ undoStack' = <<>> /\ redoStack' = <<>>
  /\ isDirty' = FALSE
  /\ UNCHANGED pristine

-----------------------------------------------------------------------------
LoadedMap(conns) == [conns |-> conns, canvas |-> {}, functions |-> {}, level |-> NoNode, inline |-> <<>>]

MapInit ==
  /\ \E conns \in Maps : cur = LoadedMap(conns)
  /\ pristine = cur
  /\ isDirty = FALSE
  /\ undoStack = <<>> /\ redoStack = <<>>
  /\ inserting = Idle

(* One edit of the canvas, other than a function put on an edge. *)
CanvasEdit ==
  \/ "source" \in MapEdits /\ \E x \in SourceNodes : AddSource(x)
  \/ "removeSource" \in MapEdits /\ \E x \in SourceNodes : RemoveSource(x)
  \/ "function" \in MapEdits /\ \E f \in FreshFunctions : AddFunction(f)
  \/ "drag" \in MapEdits /\ \E s, t \in Nodes : Drag(s, t, 0)
  \/ "handle" \in MapEdits /\ \E s \in Nodes, t \in FunctionNodes, i \in 1..MaxFields : Drag(s, t, i)
  \/ "input" \in MapEdits /\ \E t \in Nodes, i \in 1..MaxFields, v \in Nodes \cup {Custom, Empty} : SetConnectionInput(t, i, v)
  \/ "field" \in MapEdits /\ \E f \in FunctionNodes : ChangeFields(f)
  \/ "deleteEdge" \in MapEdits /\ \E e \in Edges : DeleteEdge(e)
  \/ "deleteFunction" \in MapEdits /\ \E f \in FunctionNodes : DeleteFunction(f)
  \/ "inline" \in MapEdits /\ \E e \in Edges : SetInline(<<e.from, e.to, e.port>>)
  \/ "pane" \in MapEdits /\ SetInline(<<>>)

(* Bound: no node takes more than MaxFields values. *)
FieldsAreFew ==
  \A n \in DOMAIN cur'.conns : \A i \in DOMAIN cur'.conns[n].inputs : Len(cur'.conns[n].inputs[i]) <= MaxFields

MapNext ==
  \/ CanvasIsShown /\ CanvasEdit /\ FieldsAreFew /\ UNCHANGED inserting
  \/ CanvasIsShown /\ "inline" \in MapEdits /\ \E f \in FreshFunctions : PickInline(f)
  \/ InlineDisconnect
  \/ InlineInput
  \/ InlineOutput
  \/ InlineEnds
  \/ InlineThrows
  \/ /\ inserting = Idle /\ UNCHANGED inserting
     /\ \/ "level" \in MapEdits /\ \E l \in TargetNodes \cup {NoNode} : SetLevel(l)
        \/ "undo" \in MapEdits /\ (Undo \/ Redo)
        \/ "save" \in MapEdits /\ (SaveDataMap \/ DiscardDataMap)

MapSpec == MapInit /\ [][MapNext]_mapVars

-----------------------------------------------------------------------------
(* Properties.                                                             *)

IsEntry(n, e) ==
  /\ e.outputs \subseteq Nodes
  /\ DOMAIN e.inputs = DOMAIN NewInputs(n)
  /\ \A i \in DOMAIN e.inputs : e.inputs[i] \in Seq(Nodes \cup {Custom, Empty})

IsMap(m) ==
  /\ DOMAIN m.conns \subseteq Nodes
  /\ \A n \in DOMAIN m.conns : IsEntry(n, m.conns[n])
  /\ m.canvas \subseteq SourceNodes /\ m.functions \subseteq FunctionNodes
  /\ m.level \in TargetNodes \cup {NoNode}
  /\ m.inline = <<>> \/ m.inline \in Nodes \X Nodes \X Nat

(* Type correctness of the slice: the current map, the saved one and those *)
(* on both stacks are maps.                                                *)
MapTypeOK ==
  /\ IsMap(cur) /\ IsMap(pristine) /\ isDirty \in BOOLEAN
  /\ \A i \in DOMAIN undoStack : IsMap(undoStack[i])
  /\ \A i \in DOMAIN redoStack : IsMap(redoStack[i])

(* Every input names an entry: whatever walks up a chain of connections,   *)
(* as converting the map does, throws where one is gone.                   *)
InputsHaveEntries == \A n \in DOMAIN cur.conns : Named(cur.conns, n) \subseteq DOMAIN cur.conns

(* What the inputs of t name lists t among its outputs: the cycle check,   *)
(* the deletion of a function and the guard of removeSourceSchemaNodes see *)
(* outputs only, the canvas and the saved definition inputs only.          *)
InputsAreListed ==
  inserting = Idle => \A t \in Nodes : \A s \in Named(cur.conns, t) : t \in OutputsOf(cur.conns, s)

(* No function is computed from itself. *)
MapIsAcyclic == \A n \in Nodes : n \notin Upstream(cur.conns, Named(cur.conns, n))

(* Where a value inside a source array reaches a target inside a target    *)
(* array, the target array takes the source array too: without that the    *)
(* map definition has no loop to put the value in.                         *)
ArraysFollow ==
  inserting = Idle =>
    \A t \in TargetNodes : \A s \in Upstream(cur.conns, Named(cur.conns, t)) \cap SourceNodes :
      LET pairs == ArrayPairs[<<s, t>>]
      IN  \A i \in DOMAIN pairs : pairs[i][1] \in Upstream(cur.conns, Named(cur.conns, pairs[i][2]))

(* Each edge handed to the layout joins two cards of the canvas: layouting *)
(* fails on an edge from a card that is not there.                         *)
DrawnEdgesHaveCards ==
  inserting = Idle /\ cur.level # NoNode => \A n \in OnCanvas : Named(cur.conns, n) \subseteq OnCanvas

(* Every function card has an entry: the dropdowns read it without asking. *)
CardsHaveEntries == inserting = Idle => cur.functions \subseteq DOMAIN cur.conns

(* A field of a function with several holds at most one value, and so does *)
(* a target that is no array.                                              *)
OneValuePerField ==
  \A n \in DOMAIN cur.conns : ~Manifold(n) => \A i \in DOMAIN cur.conns[n].inputs : Len(cur.conns[n].inputs[i]) <= 1

(* The part of a map that no reducer shares with the map before.           *)
Shown(m) == [functions |-> m.functions, level |-> m.level, inline |-> m.inline]

(* Undo and redo: the function cards, the level and the edge a function is *)
(* being put on are what MapHistory promises.                              *)
History == INSTANCE MapHistory WITH
  Depth <- UndoDepth,
  past <- [i \in DOMAIN undoStack |-> Shown(undoStack[i])],
  present <- Shown(cur),
  future <- [i \in DOMAIN redoStack |-> Shown(redoStack[i])]

UndoRestoresCards == History!Spec

(* The two stacks together never hold more maps than the undo stack may:   *)
(* redo pushes without looking at the limit.                               *)
HistoryIsBounded == Len(undoStack) + Len(redoStack) <= UndoDepth
=============================================================================
