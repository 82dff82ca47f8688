--------------------------- MODULE WorkflowGraph ---------------------------
(***************************************************************************)
(* The workflow slice of the designer under every edit a user can make:    *)
(* the places where the canvas and the settings panel offer an edit        *)
(* (ui/connections, ui/CustomNodes, ui/settings), the reducers of          *)
(* core/state/workflow/workflowSlice.ts they dispatch to, and the thunks   *)
(* of core/actions/bjsworkflow/{delete,move}.ts and core/utils/loops.ts.   *)
(* The rewriting itself is in GraphEdits.                                  *)
(***************************************************************************)
EXTENDS GraphEdits

CONSTANTS
  Definitions,  \* the workflow definitions the designer may open
  Edits         \* bound: the kinds of edit the user makes

EditKinds ==
  {"add", "parallel", "delete", "trigger", "move", "foreach", "runAfter", "status",
   "joins", "nest", "early"}

ASSUME EditsAreKnown == Edits \subseteq EditKinds

(* A definition: at most one trigger, and a tree of actions and scopes.    *)
ASSUME DefinitionsAreSound ==
  \A d \in Definitions :
    /\ d.trigger \in Triggers \cup {NoNode}
    /\ DOMAIN d.graphOf \subseteq Actions \cup Scopes
    /\ DOMAIN d.runAfter = DOMAIN d.graphOf
    /\ \A a \in DOMAIN d.graphOf :
         /\ d.graphOf[a] \in {Root} \cup (Scopes \cap DOMAIN d.graphOf)
         /\ Keys(d.runAfter[a]) \subseteq {b \in DOMAIN d.graphOf : d.graphOf[b] = d.graphOf[a]}
         /\ d.runAfter[a] = Absent \/ d.runAfter[a] \in [Keys(d.runAfter[a]) -> Status]

VARIABLES
  wf,      \* the workflow state, see TypeOK
  doomed,  \* what a running deleteGraphNode has still to delete
  zones    \* drop zone on the canvas -> the scopes it believes it is inside of

vars == <<wf, doomed, zones>>

-----------------------------------------------------------------------------
(* What the canvas and the settings panel offer.                           *)

(* The drawn edges of graph g: hidden edges, those to a footer, are not.   *)
DrawnEdges(w, g) == {e \in w.edges[g] : e[2] \notin Footers}

(* edgeIdsBySource, rebuilt from all graphs after every change *)
EdgeTargets(w, n) == UNION {{e[2] : e \in {x \in DrawnEdges(w, g) : x[1] = n}} : g \in Graphs}

IsLeafNode(w, n) == EdgeTargets(w, n) = {}

(* What can be reached from S in as many steps as there are operations.    *)
Closure(Step(_), S) ==
  LET reach[i \in 0..Cardinality(Operations)] ==
        IF i = 0 THEN S
        ELSE LET before == reach[i - 1]
             IN  before \cup UNION {Step(n) : n \in before}
  IN  reach[Cardinality(Operations)]

(* Faulty: the recursion into inner graphs is missing. *)
ContentsOutermost(w, n) == {n}

(* The operations among n and everything drawn inside it. *)
Contents(w, n) ==
  LET Inside(m) == IF m \in Graphs THEN w.children[m] ELSE {}
  IN  Operations \cap Closure(Inside, {n})

(* The graphs on the canvas: those that hang from the root.                *)
OnCanvas(w, g) == g = Root \/ g \in Contents(w, Root)

(* getWorkflowGraphPath, less the root: the scopes that hold graph g.      *)
GraphPath(w, g) == {h \in Scopes : g \in Contents(w, h)}

(* The cards of graph g one can attach a node to. *)
Cards(w, g) == w.children[g] \cup (IF g = Root THEN {} ELSE {Heading(g)})

Site(g, parent, child) == [graph |-> g, parent |-> parent, child |-> child]

(* The buttons on an edge (ui/connections/edge.tsx) and below a leaf.      *)
EdgeSites(w, g) ==
  UNION { LET source == e[1]
              target == e[2]
              multipleTargets == Cardinality(EdgeTargets(w, source)) > 1
              multipleSources == HasMultipleParents(w, target)
          IN  {Site(g, source, target)}
              \cup (IF multipleTargets THEN {Site(g, source, NoNode)} ELSE {})
              \cup (IF multipleSources THEN {Site(g, NoNode, target)} ELSE {})
        : e \in {x \in DrawnEdges(w, g) : {x[1], x[2]} \subseteq Cards(w, g)} }

LeafSites(w, g) ==
  {Site(g, n, NoNode) : n \in {m \in Cards(w, g) \ {Placeholder} : IsLeafNode(w, m)}}

Sites(w) == UNION {EdgeSites(w, g) \cup LeafSites(w, g) : g \in {h \in Graphs : OnCanvas(w, h)}}

(* useNodeGraphId: the graph a node's metadata names, undefined without.   *)
NodeGraphId(w, n) == IF n \in HasMetadata(w) THEN w.graphOf[n] ELSE NoNode

(* canDrop of dropzone.tsx.  A scope card carries no graph id, which only  *)
(* equals that of a missing parent, a missing child or a heading.  The     *)
(* scopes around the zone are those zones remembers.                       *)
CanDrop(w, n, site) ==
  LET itemGraph == IF n \in Scopes THEN NoNode ELSE NodeGraphId(w, n)
  IN  /\ itemGraph \in {NodeGraphId(w, site.parent), NodeGraphId(w, site.child)}
      /\ n \notin zones[site]
      /\ n # site.child
      /\ n # site.parent

(* getSuccessorNodes: what already runs after n, directly or not. *)
RunsAfter(w, n) == {m \in Defined(w) : StatusOf(w.runAfter[m], n) # Undefined}
Successors(w, n) ==
  LET Later(m) == RunsAfter(w, m)
  IN  Closure(Later, RunsAfter(w, n))

(* The run-after section is shown for an operation that has run-after keys *)
(* and offers the operations of its graph that do not run after it.        *)
HasRunAfterSection(w, n) == n \in Defined(w) /\ Keys(w.runAfter[n]) # {}

(* Faulty: every operation of the graph is offered. *)
RunAfterCandidatesAll(w, n, g) == {m \in Defined(w) \ {n} : w.graphOf[m] = g}

RunAfterCandidates(w, n, g) ==
  {m \in Defined(w) \ (Successors(w, n) \cup {n}) : w.graphOf[m] = g}

-----------------------------------------------------------------------------
(* The edits.                                                              *)

Idle == doomed = {}

(* A drop zone computes canDrop when it appears and keeps it for as long   *)
(* as its ids stay the same (the dependencies of useDrop).                 *)
Render ==
  zones' = [site \in Sites(wf') |-> IF site \in DOMAIN zones THEN zones[site]
                                    ELSE GraphPath(wf', site.graph)]

(* Whether operations several edges enter are deleted, moved and wrapped.  *)
MayDetach(n, g) ==
  "joins" \in Edits \/ Cardinality(Sources(Links(wf, g), n)) < 2

(* Whether the user also moves scope cards from graph g into other scopes. *)
MayNest(n, g, h) == n \in Scopes => "nest" \in Edits \/ h \in {Root, g}

(* n has a card in graph g. *)
HasCardIn(n, g) == OnCanvas(wf, g) /\ n \in wf.children[g]

AddOperation(n, site) ==
  /\ Idle /\ "add" \in Edits
  /\ n \notin Defined(wf)
  /\ wf' = AddNodeToWorkflow(wf, n, site.graph, site.parent, site.child, FALSE, FALSE)
  /\ Render /\ UNCHANGED doomed

AddParallelBranch(n, site) ==
  /\ Idle /\ "parallel" \in Edits
  /\ n \notin Defined(wf)
  /\ site.parent # NoNode /\ ~IsLeafNode(wf, site.parent)
  /\ wf' = AddNodeToWorkflow(wf, n, site.graph, site.parent, NoNode, TRUE, FALSE)
  /\ Render /\ UNCHANGED doomed

(* A trigger is added where the placeholder, or nothing at all, is drawn:  *)
(* addNode first takes the placeholder and gives its edges to the trigger. *)
AddTrigger(t) ==
  /\ Idle /\ "trigger" \in Edits
  /\ t \notin Defined(wf)
  /\ Placeholder \in wf.children[Root] \/ wf.children[Root] = {}
  /\ wf' = AddNodeToWorkflow(WithoutPlaceholder(wf, t), t, Root, NoNode, NoNode, FALSE, TRUE)
  /\ Render /\ UNCHANGED doomed

DeleteTrigger(t) ==
  /\ Idle /\ "trigger" \in Edits
  /\ t \in wf.children[Root] /\ IsRootNodeInGraph(wf, t, Root)
  /\ wf' = DeleteTriggerFromWorkflow(wf, t)
  /\ Render /\ UNCHANGED doomed

(* deleteOperation for a node whose metadata names graph g, x being the    *)
(* neighbour found.  When the graph is not found, or the edge adjustment   *)
(* throws, the thunk is rejected and the state stays as it was.            *)
DeleteOperation(n, g, x) ==
  wf' = IF OnCanvas(wf, g) /\ ~DetachThrows(wf, n, x)
        THEN DeleteNodeFromWorkflow(wf, n, g, x)
        ELSE wf

DeleteAction(n) ==
  /\ Idle /\ "delete" \in Edits
  /\ ~IsRootNodeInGraph(wf, n, Root)
  /\ \E g \in Graphs :
       /\ HasCardIn(n, g) /\ MayDetach(n, g)
       /\ \E x \in Neighbours(wf, n, g) : DeleteOperation(n, g, x)
  /\ Render /\ UNCHANGED doomed

(* deleteGraphNode: everything inside the scope, innermost first, then the *)
(* scope itself, one deleteOperation each.                                 *)
DeleteGraphNode(s) ==
  /\ Idle /\ "delete" \in Edits
  /\ \E g \in Graphs : HasCardIn(s, g) /\ MayDetach(s, g)
  /\ doomed' = Contents(wf, s)
  /\ UNCHANGED <<wf, zones>>

(* Faulty: the scope goes before what it holds. *)
DeleteNextOfGraphOutermost(n) ==
  /\ n \in doomed
  /\ \A m \in doomed \ {n} : n \notin Contents(wf, m)
  /\ \E x \in Neighbours(wf, n, NodeGraphId(wf, n)) :
       DeleteOperation(n, NodeGraphId(wf, n), x)
  /\ Render /\ doomed' = doomed \ {n}

DeleteNextOfGraph(n) ==
  /\ n \in doomed
  /\ (Contents(wf, n) \cap doomed) \subseteq {n}
  /\ \E x \in Neighbours(wf, n, NodeGraphId(wf, n)) :
       DeleteOperation(n, NodeGraphId(wf, n), x)
  /\ Render /\ doomed' = doomed \ {n}

MoveOperation(n, site) ==
  /\ Idle /\ "move" \in Edits
  /\ ~IsRootNodeInGraph(wf, n, Root)
  /\ CanDrop(wf, n, site)
  /\ \E g \in Graphs :
       /\ HasCardIn(n, g) /\ MayDetach(n, g) /\ MayNest(n, g, site.graph)
       /\ \E x \in Neighbours(wf, n, g) :
            wf' = MoveNodeInWorkflow(wf, n, g, site.graph, site.parent, site.child, x)
  /\ Render /\ UNCHANGED doomed

(* addForeachToNode: a foreach s is put in n's place and n moved into it.  *)
(* getImmediateSourceNodeIds does not count a heading as a parent.         *)
AddImplicitForeach(n, s) ==
  /\ Idle /\ "foreach" \in Edits
  /\ s \notin Defined(wf)
  /\ \E g \in Graphs :
       /\ HasCardIn(n, g) /\ MayDetach(n, g)
       /\ \E p \in OrNoNode(Sources(Links(wf, g), n) \ Headings) :
            LET w == AddNodeToWorkflow(wf, s, g, p, n, FALSE, FALSE)
            IN  \E x \in Neighbours(w, n, g) :
                  wf' = IF DetachThrows(w, n, x) THEN wf
                        ELSE MoveNodeInWorkflow(w, n, g, s, Heading(s), NoNode, x)
  /\ Render /\ UNCHANGED doomed

(* Faulty: the edge is drawn, but the operation is not told.               *)
AddEdgeFromRunAfterDrawnOnly(n, p) ==
  /\ Idle /\ "runAfter" \in Edits
  /\ \E g \in Graphs :
       /\ HasCardIn(n, g) /\ HasRunAfterSection(wf, n)
       /\ p \in RunAfterCandidates(wf, n, g) \ Keys(wf.runAfter[n])
       /\ wf' = [wf EXCEPT !.edges[g] = @ \cup {<<p, n>>}]
  /\ Render /\ UNCHANGED doomed

(* A parent is ticked in the run-after menu: addEdgeFromRunAfter.          *)
AddEdgeFromRunAfter(n, p) ==
  /\ Idle /\ "runAfter" \in Edits
  /\ \E g \in Graphs :
       /\ HasCardIn(n, g) /\ HasRunAfterSection(wf, n)
       /\ p \in RunAfterCandidates(wf, n, g) \ Keys(wf.runAfter[n])
       /\ wf' = WithLinks(wf, g, AddNewEdge(Links(wf, g), p, n, TRUE))
  /\ Render /\ UNCHANGED doomed

(* A parent is unticked, or its entry deleted: removeEdgeFromRunAfter.  The *)
(* last key cannot be removed, and nothing happens for an id that is not   *)
(* an operation.                                                           *)
RemoveEdgeFromRunAfter(n, p) ==
  /\ Idle /\ "runAfter" \in Edits
  /\ \E g \in Graphs :
       /\ HasCardIn(n, g) /\ HasRunAfterSection(wf, n)
       /\ p \in Keys(wf.runAfter[n]) \cap Defined(wf)
       /\ Cardinality(Keys(wf.runAfter[n])) > 1
       /\ wf' = WithLinks(wf, g, RemoveEdge(Links(wf, g), p, n))
  /\ Render /\ UNCHANGED doomed

(* Other statuses are ticked for a parent: updateRunAfter.                 *)
UpdateRunAfter(n, p, status) ==
  /\ Idle /\ "status" \in Edits
  /\ \E g \in Graphs : HasCardIn(n, g)
  /\ HasRunAfterSection(wf, n) /\ StatusOf(wf.runAfter[n], p) # Undefined
  /\ wf' = [wf EXCEPT !.runAfter[n] = WithKey(@, p, status)]
  /\ Render /\ UNCHANGED doomed

-----------------------------------------------------------------------------
Init ==
  /\ wf \in {Deserialize(d) : d \in Definitions}
  /\ doomed = {}
  /\ zones = [site \in Sites(wf) |-> GraphPath(wf, site.graph)]

DeleteNext == \E n \in Operations : DeleteNextOfGraph(n)

Next ==
  \/ \E n \in Actions \cup Scopes, site \in DOMAIN zones : AddOperation(n, site)
  \/ \E n \in Actions \cup Scopes, site \in DOMAIN zones : AddParallelBranch(n, site)
  \/ \E t \in Triggers : AddTrigger(t)
  \/ \E t \in Triggers : DeleteTrigger(t)
  \/ \E n \in Actions : DeleteAction(n)
  \/ \E s \in Scopes : DeleteGraphNode(s)
  \/ DeleteNext
  \/ \E n \in Actions \cup Scopes, site \in DOMAIN zones : MoveOperation(n, site)
  \/ \E n \in Actions, s \in Scopes \ Untils : AddImplicitForeach(n, s)
  \/ \E n, p \in Operations : AddEdgeFromRunAfter(n, p)
  \/ \E n, p \in Operations : RemoveEdgeFromRunAfter(n, p)
  \/ \E n \in Operations, p \in Ends, status \in {Succeeded, Custom} :
       UpdateRunAfter(n, p, status)

(* The loop of deleteGraphNode runs to its end without yielding.           *)
Spec == Init /\ [][Next]_vars /\ WF_vars(DeleteNext)

-----------------------------------------------------------------------------
(* The state.                                                              *)

IsRunAfter(r) ==
  r = Absent \/ (Keys(r) \subseteq Ends /\ r \in [Keys(r) -> Status])

IsState(w) ==
  /\ w = [children |-> w.children, edges |-> w.edges, runAfter |-> w.runAfter,
          graphOf |-> w.graphOf, isRoot |-> w.isRoot]
  /\ w.children \in [Graphs -> SUBSET (Operations \cup {Placeholder})]
  /\ w.edges \in [Graphs -> SUBSET (Ends \X Ends)]
  /\ w.runAfter = [n \in Defined(w) |-> w.runAfter[n]]
  /\ Defined(w) \subseteq Operations
  /\ \A n \in Defined(w) : IsRunAfter(w.runAfter[n])
  /\ w.graphOf \in [HasMetadata(w) -> Graphs]
  /\ w.isRoot \subseteq Operations \cup {Placeholder}

(* The shape of the state; state.operations and state.nodesMetadata only   *)
(* ever hold the ids of operations, run-after values are statuses, and the *)
(* zones that remember anything are those the canvas offers.               *)
TypeOK ==
  /\ IsState(wf)
  /\ doomed \subseteq Operations
  /\ zones \in [Sites(wf) -> SUBSET Scopes]

-----------------------------------------------------------------------------
(* Safety.                                                                 *)

(* The graphs drawn, less those a running deleteGraphNode is taking apart. *)
CanvasGraphs == {g \in Graphs \ doomed : OnCanvas(wf, g)}

(* The slice keeps the tree twice, as children of graph nodes and as the   *)
(* graphId of nodesMetadata, and every reducer looks a node's graph up by  *)
(* the second to change the first.  A card drawn in a graph has metadata   *)
(* that names this graph (so no node is ever drawn in two graphs), and     *)
(* state.operations has exactly the nodes nodesMetadata has, placeholder   *)
(* aside, which is only ever a node of the root graph.                     *)
GraphsAgreeWithMetadata ==
  /\ \A g \in Graphs : \A n \in wf.children[g] : NodeGraphId(wf, n) = g
  /\ Defined(wf) = HasMetadata(wf) \ {Placeholder}
  /\ Placeholder \in HasMetadata(wf) => wf.graphOf[Placeholder] = Root

(* Deleting, in however many thunks, leaves nothing behind: between two    *)
(* edits every operation the slice knows is drawn inside the root graph.   *)
NothingLeftBehind ==
  Idle => Defined(wf) \subseteq Contents(wf, Root)

(* getTriggerNode takes the first child of the root graph whose metadata   *)
(* has isRoot, whatever it is: there is one at most, the trigger or the    *)
(* placeholder, and one as soon as anything is drawn.                      *)
OneTriggerOrPlaceholder ==
  \/ wf.children[Root] = {}
  \/ \E t \in Triggers \cup {Placeholder} : wf.children[Root] \cap wf.isRoot = {t}

(* An edge joins two cards of its own graph (or ends at the footer of its  *)
(* until loop): no edge is left dangling by a delete or a move, which      *)
(* would make the layout and the serializer look up nodes that are gone.   *)
EdgesJoinCards ==
  \A g \in CanvasGraphs : \A e \in wf.edges[g] :
    /\ e[1] \in Cards(wf, g)
    /\ e[2] \in wf.children[g] \cup {Footer(g)}

Below(w, g, n) ==
  LET Step(m) == Targets(Links(w, g), m) IN Closure(Step, Step(n))

(* No operation comes after itself on the canvas.  Nor may it run after    *)
(* itself: getSuccessorNodes walks runAfter with no record of where it has *)
(* been and would never end.                                               *)
Acyclic ==
  /\ \A g \in CanvasGraphs : \A n \in wf.children[g] : n \notin Below(wf, g, n)
  /\ \A n \in Defined(wf) : n \notin Successors(wf, n)

(* Every card hangs, directly or not, from the trigger (or its             *)
(* placeholder) or from the heading of its scope: no edit leaves an        *)
(* operation on the canvas that nothing leads to.                          *)
EveryCardIsReached ==
  \A g \in CanvasGraphs :
    LET start == IF g = Root THEN wf.children[Root] \cap wf.isRoot ELSE {Heading(g)}
    IN  wf.children[g] \subseteq start \cup UNION {Below(wf, g, n) : n \in start}

(* What the serializer saves as the runAfter of n (serializeManifestBased- *)
(* Operation): nothing for a root.                                         *)
SavedRunAfter(n) == IF n \in wf.isRoot THEN NoKeys ELSE RunAfterOf(wf.runAfter, n)

(* What is saved is what is drawn: with the trigger in place, every        *)
(* operation a saved runAfter names is an operation of the same graph, and *)
(* the edge between the two is drawn.                                      *)
SavedRunAfterIsDrawn ==
  Placeholder \notin wf.children[Root] =>
    \A g \in CanvasGraphs : \A n \in wf.children[g] : \A p \in Keys(SavedRunAfter(n)) :
      p \in wf.children[g] /\ <<p, n>> \in wf.edges[g]

(* What is drawn is what is saved: an edge from an operation that is       *)
(* neither a trigger nor the placeholder is a run-after configuration of   *)
(* its target.                                                             *)
DrawnEdgesAreSaved ==
  \A g \in CanvasGraphs : \A e \in wf.edges[g] :
    {e[1], e[2]} \subseteq Actions \cup Scopes => e[1] \in Keys(SavedRunAfter(e[2]))

(* Each run-after configuration that would be saved has a status.          *)
SavedStatusesAreChecked ==
  \A n \in Defined(wf) : \A p \in Keys(SavedRunAfter(n)) :
    SavedRunAfter(n)[p] # Undefined

(* isRoot, which decides whether an operation is saved without a runAfter, *)
(* marks exactly the operations of a scope that hang from its heading.     *)
RootsHangFromHeading ==
  \A s \in CanvasGraphs \ {Root} : \A n \in wf.children[s] :
    n \in wf.isRoot <=> <<Heading(s), n>> \in wf.edges[s]

-----------------------------------------------------------------------------
(* Action properties.                                                      *)

(* The order the edges put the nodes of S in. *)
Order(w, g, S) == UNION {{n} \X (S \cap Below(w, g, n)) : n \in S}

(* An edit of the canvas concerns one operation: whichever it adds,        *)
(* deletes or moves, any two others of a graph come after one another, or  *)
(* do not, as they did before.                                             *)
OthersKeepTheirOrder ==
  [][\E n \in Operations : \A g \in Graphs :
       LET others == (wf.children[g] \cap wf'.children[g]) \ {n}
       IN  Order(wf, g, others) = Order(wf', g, others)]_vars

(* A move takes an operation out of its place: dropped below a parent, it  *)
(* is left with no other one.                                              *)
MoveLeavesOldParents ==
  [][wf' # wf /\ Defined(wf') = Defined(wf) =>
       \A n \in Actions \cup Scopes, site \in DOMAIN zones :
         site.parent # NoNode /\ MoveOperation(n, site)
           => \A g \in Graphs : Sources(Links(wf', g), n) \subseteq {site.parent}]_vars

-----------------------------------------------------------------------------
(* Liveness.                                                               *)

(* A scope being deleted goes, and everything in it with it.               *)
ScopesAreDeleted ==
  \A n \in Operations : (n \in doomed) ~> (n \notin Defined(wf))
=============================================================================
