----------------------------- MODULE GraphEdits -----------------------------
(***************************************************************************)
(* Rewriting the workflow state: how a definition is opened                *)
(* (core/parsers/BJSWorkflow/BJSDeserializer.ts) and how a node is added,  *)
(* deleted and moved (core/parsers, and the reducers of                    *)
(* core/state/workflow/workflowSlice.ts that call it).                     *)
(*                                                                         *)
(* A workflow state w is a record of what the slice keeps:                 *)
(*   w.children   graph id -> the operations drawn in that graph           *)
(*   w.edges      graph id -> its edges, pairs <<source, target>>          *)
(*   w.runAfter   id -> runAfter property, for the ids of state.operations *)
(*   w.graphOf    id -> graphId, for the ids of state.nodesMetadata        *)
(*   w.isRoot     the ids whose metadata has isRoot                        *)
(*                                                                         *)
(* A scope is an operation and a graph at once, under one id.  Its graph   *)
(* starts at a heading card; an until loop also ends at a footer.  The     *)
(* order of a graph's children and edges is abstracted: where the code     *)
(* takes the first edge that matches, the model takes any.                 *)
(***************************************************************************)
EXTENDS RunAfter, Naturals, FiniteSets

CONSTANTS
  Triggers,     \* ids a trigger can have
  Actions,      \* ids a plain action can have
  Scopes,       \* ids a scope, foreach or until can have
  Untils,       \* the scopes that are until loops
  Root,         \* the id of the root graph, 'root'
  Placeholder,  \* 'builtin:newWorkflowTrigger'
  NoNode        \* no parent or no child: undefined, or the id ''

ASSUME IdsAreDistinct ==
  /\ Untils \subseteq Scopes
  /\ Triggers \cap (Actions \cup Scopes) = {}
  /\ Actions \cap Scopes = {}
  /\ {Root, Placeholder, NoNode} \cap (Triggers \cup Actions \cup Scopes) = {}
  /\ Root # Placeholder /\ Root # NoNode /\ Placeholder # NoNode

Operations == Triggers \cup Actions \cup Scopes
Graphs     == {Root} \cup Scopes
Heading(g) == <<"-#", g>>
Footer(g)  == <<"-#footer", g>>
Headings   == {Heading(g) : g \in Scopes}
Footers    == {Footer(g) : g \in Scopes}

(* What an edge or a run-after key can name. *)
Ends == Operations \cup {Placeholder, NoNode} \cup Headings \cup Footers

(* The card of a heading or a footer is not one of an operation, only      *)
(* finitely many ids are ever used, and an absent runAfter is no object.   *)
ASSUME CardsAreNoOperations ==
  (Headings \cup Footers \cup {Heading(Root)}) \cap
    (Operations \cup {Root, Placeholder, NoNode}) = {}
ASSUME OperationsAreFinite == IsFiniteSet(Operations)
ASSUME AbsentIsNoObject == \A S \in SUBSET Ends : Absent \notin [S -> Status]

(* The part of the state the helpers of RunAfter rewrite, for graph g. *)
Links(w, g) == [edges |-> w.edges[g], runAfter |-> w.runAfter]

(* The state w with the links of graph g rewritten to l. *)
WithLinks(w, g, l) ==
  [children |-> w.children,
   edges    |-> [w.edges EXCEPT ![g] = l.edges],
   runAfter |-> l.runAfter,
   graphOf  |-> w.graphOf,
   isRoot   |-> w.isRoot]

(* Object.keys(state.operations) and Object.keys(state.nodesMetadata) *)
Defined(w) == DOMAIN w.runAfter
HasMetadata(w) == DOMAIN w.graphOf

IsRootNodeInGraph(w, n, g) ==
  n \in HasMetadata(w) /\ w.graphOf[n] = g /\ n \in w.isRoot

-----------------------------------------------------------------------------
(* Opening a definition: BJSDeserializer.                                  *)

Deserialize(d) ==
  LET actions   == DOMAIN d.graphOf
      trigger   == {d.trigger} \ {NoNode}
      In(g)     == {a \in actions : d.graphOf[a] = g}
      Roots(g)  == {a \in In(g) : Keys(d.runAfter[a]) = {}}
      After(g)  == UNION {{<<p, a>> : p \in Keys(d.runAfter[a])} : a \in In(g)}
      Heads(g)  == {IF g = Root THEN d.trigger ELSE Heading(g)}
      Flow(g)   == (Heads(g) \X Roots(g)) \cup After(g)
      Leaves(g) == {n \in In(g) \cup Heads(g) : \A e \in Flow(g) : e[1] # n}
      Tail(g)   == IF g \in Untils \cap actions THEN Leaves(g) \X {Footer(g)} ELSE {}
      present   == {Root} \cup (Scopes \cap actions)
  IN  [children |-> [g \in Graphs |->
                       In(g) \cup (IF g = Root THEN trigger ELSE {})],
       edges    |-> [g \in Graphs |-> IF g \in present THEN Flow(g) \cup Tail(g) ELSE {}],
       runAfter |-> [n \in actions \cup trigger |->
                       IF n \in trigger THEN Absent ELSE d.runAfter[n]],
       graphOf  |-> [n \in actions \cup trigger |->
                       IF n \in trigger THEN Root ELSE d.graphOf[n]],
       isRoot   |-> trigger \cup UNION {Roots(g) : g \in Scopes}]

-----------------------------------------------------------------------------
(* core/parsers: rewriting the state.                                      *)

(* Faulty: the old first nodes are still roots. *)
ApplyIsRootNodeKeepingRoots(w, n, g) == w

(* applyIsRootNode: the targets of the new first node are no longer roots. *)
ApplyIsRootNode(w, n, g) ==
  LET demoted == Targets(Links(w, g), n) \cap HasMetadata(w)
  IN  [children |-> w.children,
       edges    |-> w.edges,
       runAfter |-> [x \in Defined(w) |-> IF x \in demoted THEN NoKeys ELSE w.runAfter[x]],
       graphOf  |-> w.graphOf,
       isRoot   |-> w.isRoot \ demoted]

(* The branches addNodeToWorkflow and moveNodeInWorkflow share. *)
InsertNode(l, n, parent, child, addRunAfters, isOldSourceTrigger) ==
  LET between ==
        RemoveEdge(AddNewEdge(AddNewEdge(l, parent, n, addRunAfters),
                              n, child, TRUE), parent, child)
      before == RunAfterOf(l.runAfter, child)
  IN  CASE parent # NoNode /\ child # NoNode ->
             IF before # Absent /\ addRunAfters
             THEN [between EXCEPT !.runAfter[n] =
                     WithKey(@, parent, StatusOf(before, parent))]
             ELSE between
        [] parent = NoNode /\ child # NoNode ->
             AddNewEdge(ReassignEdgeTargets(l, child, n), n, child, TRUE)
        [] parent # NoNode /\ child = NoNode ->
             AddNewEdge(ReassignEdgeSources(l, parent, n, isOldSourceTrigger, FALSE),
                        parent, n, addRunAfters)
        [] OTHER -> l

AddNodeToWorkflow(w, n, g, parent, child, isParallel, isTrigger) ==
  LET isRoot == isTrigger \/ parent = Heading(g)
      isAfterTrigger == parent \in w.isRoot /\ g = Root
      addRunAfters == ~isRoot /\ ~isAfterTrigger
      links == [edges |-> w.edges[g],
                runAfter |-> [x \in Defined(w) \cup {n} |->
                                IF x = n THEN Absent ELSE w.runAfter[x]]]
      placed == IF isParallel /\ parent # NoNode
                THEN AddNewEdge(links, parent, n, addRunAfters)
                ELSE InsertNode(links, n, parent, child, addRunAfters, ~addRunAfters)
      ownEdges == IF n \in Untils THEN {<<Heading(n), Footer(n)>>} ELSE {}
      added == [children |-> [w.children EXCEPT ![g] = @ \cup {n}],
                edges    |-> [x \in Graphs |-> IF x = g THEN placed.edges
                                               ELSE IF x = n THEN ownEdges
                                               ELSE w.edges[x]],
                runAfter |-> placed.runAfter,
                graphOf  |-> [x \in HasMetadata(w) \cup {n} |->
                                IF x = n THEN g ELSE w.graphOf[x]],
                isRoot   |-> IF isRoot THEN w.isRoot \cup {n} ELSE w.isRoot]
  IN  IF isRoot THEN ApplyIsRootNode(added, n, g) ELSE added

HasMultipleParents(w, n) == Cardinality(Keys(RunAfterOf(w.runAfter, n))) > 1
HasMultipleChildren(w, n, g) == Cardinality(Targets(Links(w, g), n)) > 1

(* The result of a find: one of the nodes found, or none. *)
OrNoNode(found) == IF found = {} THEN {NoNode} ELSE found

(* The nodes the edge adjustment of a delete or a move may pick: the first *)
(* child of a node with several parents, the first parent of another.      *)
Neighbours(w, n, g) ==
  OrNoNode(IF HasMultipleParents(w, n) THEN Targets(Links(w, g), n)
                                       ELSE Sources(Links(w, g), n))

(* Faulty: the edge from the parent found stays. *)
DetachNodeFromChildren(l, w, n, x) ==
  IF HasMultipleParents(w, n) /\ x # NoNode THEN ReassignEdgeTargets(l, n, x)
  ELSE ReassignEdgeSources(l, n, x, FALSE, IsRootNodeInGraph(w, x, Root))

(* Faulty: the children are not given to the parent found. *)
DetachNodeFromParent(l, w, n, x) == RemoveEdge(l, x, n)

(* The edge adjustment itself, for the neighbour x that was picked.        *)
DetachNode(l, w, n, x) ==
  IF ~HasMultipleParents(w, n)
  THEN RemoveEdge(ReassignEdgeSources(l, n, x, FALSE, IsRootNodeInGraph(w, x, Root)),
                  x, n)
  ELSE IF x # NoNode
  THEN RemoveEdge(ReassignEdgeTargets(l, n, x), n, x)
  ELSE [edges    |-> {e \in l.edges : ~(e[2] = n /\ e[1] \in Keys(w.runAfter[n]))},
        runAfter |-> [l.runAfter EXCEPT ![n] = NoKeys]]

DetachThrows(w, n, x) ==
  /\ HasMultipleParents(w, n)
  /\ x # NoNode
  /\ MoveRunAfterTargetThrows(w.runAfter, n, x)

(* deleteNodeFromWorkflow for a node of graph g that is not the trigger.   *)
DeleteNodeFromWorkflow(w, n, g, x) ==
  LET l == DetachNode(Links(w, g), w, n, x)
      heirs == IF n \in w.isRoot THEN Targets(Links(w, g), n) \cap HasMetadata(w) ELSE {}
  IN  [children |-> [c \in Graphs |-> IF c = n THEN {}
                                      ELSE IF c = g THEN w.children[g] \ {n}
                                      ELSE w.children[c]],
       edges    |-> [c \in Graphs |-> IF c = n THEN {}
                                      ELSE IF c = g THEN l.edges
                                      ELSE w.edges[c]],
       runAfter |-> [m \in Defined(w) \ {n} |-> l.runAfter[m]],
       graphOf  |-> [m \in HasMetadata(w) \ {n} |-> w.graphOf[m]],
       isRoot   |-> (w.isRoot \cup heirs) \ {n}]

(* Faulty: the placeholder is entered among the operations. *)
DeleteTriggerFromWorkflowWithOperation(w, t) ==
  LET heirs == Targets(Links(w, Root), t)
  IN  [children |-> [w.children EXCEPT ![Root] = (@ \ {t}) \cup {Placeholder}],
       edges    |-> [w.edges EXCEPT ![Root] =
                       {e \in @ : e[1] # t} \cup ({Placeholder} \X heirs)],
       runAfter |-> [m \in (Defined(w) \ {t}) \cup {Placeholder} |->
                       IF m \in Defined(w) THEN w.runAfter[m] ELSE Absent],
       graphOf  |-> [m \in (HasMetadata(w) \ {t}) \cup {Placeholder} |->
                       IF m = Placeholder THEN Root ELSE w.graphOf[m]],
       isRoot   |-> (w.isRoot \ {t}) \cup {Placeholder}]

(* The trigger leaves: a placeholder takes its place and its children.     *)
DeleteTriggerFromWorkflow(w, t) ==
  LET heirs == Targets(Links(w, Root), t)
  IN  [children |-> [w.children EXCEPT ![Root] = (@ \ {t}) \cup {Placeholder}],
       edges    |-> [w.edges EXCEPT ![Root] =
                       {e \in @ : e[1] # t} \cup ({Placeholder} \X heirs)],
       runAfter |-> [m \in Defined(w) \ {t} |->
                       IF m \in heirs THEN WithKey(w.runAfter[m], Placeholder, Succeeded)
                                      ELSE w.runAfter[m]],
       graphOf  |-> [m \in (HasMetadata(w) \ {t}) \cup {Placeholder} |->
                       IF m = Placeholder THEN Root ELSE w.graphOf[m]],
       isRoot   |-> (w.isRoot \ {t}) \cup {Placeholder}]

(* Faulty: only the edges are given to the trigger. *)
WithoutPlaceholderEdges(w, t) ==
  [w EXCEPT !.edges[Root] = {IF e[1] = Placeholder THEN <<t, e[2]>> ELSE e : e \in @}]

(* A trigger arrives: the placeholder leaves, and t takes over its edges.  *)
WithoutPlaceholder(w, t) ==
  [children |-> [w.children EXCEPT ![Root] = @ \ {Placeholder}],
   edges    |-> [w.edges EXCEPT ![Root] =
                   {IF e[1] = Placeholder THEN <<t, e[2]>> ELSE e : e \in @}],
   runAfter |-> w.runAfter,
   graphOf  |-> [m \in HasMetadata(w) \ {Placeholder} |-> w.graphOf[m]],
   isRoot   |-> w.isRoot \ {Placeholder}]

(* Faulty: the metadata of a moved node is left alone. *)
WithGraphIdForgotten(w, n, g) == w.graphOf

(* The metadata of a moved node names its new graph. *)
WithGraphId(w, n, g) == [w.graphOf EXCEPT ![n] = g]

(* moveNodeInWorkflow, from graph old to graph new.  A node with several   *)
(* parents and several children is not moved; when the edge adjustment     *)
(* throws nothing is.                                                      *)
MoveNodeInWorkflow(w, n, old, new, parent, child, x) ==
  LET heirs == IF n \in w.isRoot THEN Targets(Links(w, old), n) ELSE {}
      freed == [edges    |-> w.edges[old],
                runAfter |-> [m \in Defined(w) |-> IF m \in heirs THEN Absent
                                                   ELSE w.runAfter[m]]]
      detached == DetachNode(freed, w, n, x)
      left == [w.edges EXCEPT ![old] = detached.edges]
      isNewRoot == parent \in Headings
      roots == ((w.isRoot \cup (heirs \cap HasMetadata(w))) \ {n})
               \cup (IF isNewRoot THEN {n} ELSE {})
      isAfterTrigger == parent \in roots /\ new = Root
      inserted == InsertNode([edges |-> left[new], runAfter |-> detached.runAfter],
                             n, parent, child, ~isNewRoot /\ ~isAfterTrigger, isAfterTrigger)
      placed == [children |-> [[w.children EXCEPT ![old] = @ \ {n}] EXCEPT ![new] = @ \cup {n}],
                 edges    |-> [left EXCEPT ![new] = inserted.edges],
                 runAfter |-> inserted.runAfter,
                 graphOf  |-> WithGraphId(w, n, new),
                 isRoot   |-> roots]
  IN  IF \/ HasMultipleParents(w, n) /\ HasMultipleChildren(w, n, old)
         \/ DetachThrows(w, n, x)
      THEN w
      ELSE IF isNewRoot
      THEN [ApplyIsRootNode(placed, n, new) EXCEPT !.runAfter[n] = Absent]
      ELSE placed
=============================================================================
