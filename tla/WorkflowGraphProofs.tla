------------------------ MODULE WorkflowGraphProofs ------------------------
(***************************************************************************)
(* Proofs about WorkflowGraph, for every set of ids, every definition and  *)
(* every kind of edit: the state always has its type, and the two copies   *)
(* of the graph tree always agree.                                         *)
(***************************************************************************)
EXTENDS WorkflowGraph, TLAPS

-----------------------------------------------------------------------------
(* The helpers of RunAfter keep links well formed and define no operation. *)

IsRunAfterMap(ra) ==
  /\ ra = [n \in DOMAIN ra |-> ra[n]]
  /\ DOMAIN ra \subseteq Operations
  /\ \A n \in DOMAIN ra : IsRunAfter(ra[n])

IsLinks(l) ==
  /\ l.edges \subseteq Ends \X Ends
  /\ IsRunAfterMap(l.runAfter)

(* NoKeys is a run-after value. *)
LEMMA NoKeysIsRunAfter == IsRunAfter(NoKeys)
BY DEF IsRunAfter, NoKeys, Keys, Status

(* Setting a key to a status gives a run-after value. *)
LEMMA WithKeyIsRunAfter ==
  ASSUME NEW r, IsRunAfter(r), NEW p \in Ends, NEW status \in Status
  PROVE  IsRunAfter(WithKey(r, p, status))
<1> DEFINE f == WithKey(r, p, status)
<1>1. Keys(r) \subseteq Ends
  BY DEF IsRunAfter, Keys
<1>2. \A k \in Keys(r) : r[k] \in Status
  BY DEF IsRunAfter, Keys
<1>3. DOMAIN f = Keys(r) \cup {p}
  BY DEF WithKey
<1>4. f \in [Keys(r) \cup {p} -> Status]
  BY <1>2 DEF WithKey
<1>5. CASE f = Absent
  BY <1>5 DEF IsRunAfter
<1>6. CASE f # Absent
  <2>1. Keys(f) = Keys(r) \cup {p}
    BY <1>3, <1>6 DEF Keys
  <2> QED BY <2>1, <1>1, <1>4 DEF IsRunAfter
<1> QED BY <1>5, <1>6

(* Deleting a key gives a run-after value. *)
LEMMA WithoutKeyIsRunAfter ==
  ASSUME NEW r, IsRunAfter(r), NEW p
  PROVE  IsRunAfter(WithoutKey(r, p))
<1>1. CASE r = Absent
  BY <1>1 DEF IsRunAfter, WithoutKey
<1>2. CASE r # Absent
  <2> DEFINE f == [k \in DOMAIN r \ {p} |-> r[k]]
  <2>1. WithoutKey(r, p) = f
    BY <1>2 DEF WithoutKey
  <2>2. Keys(r) = DOMAIN r /\ DOMAIN r \subseteq Ends /\ \A k \in DOMAIN r : r[k] \in Status
    BY <1>2 DEF IsRunAfter, Keys
  <2>3. CASE f = Absent
    BY <2>1, <2>3 DEF IsRunAfter
  <2>4. CASE f # Absent
    <3>1. Keys(f) = DOMAIN r \ {p}
      BY <2>4 DEF Keys
    <3>2. f \in [DOMAIN r \ {p} -> Status]
      BY <2>2
    <3> QED BY <2>1, <2>2, <3>1, <3>2 DEF IsRunAfter
  <2> QED BY <2>3, <2>4
<1> QED BY <1>1, <1>2

(* Looking a status up gives a status. *)
LEMMA StatusOfIsStatus ==
  ASSUME NEW r, IsRunAfter(r), NEW p
  PROVE  StatusOf(r, p) \in Status
BY DEF IsRunAfter, StatusOf, Keys, Status

-----------------------------------------------------------------------------
(* Adding an edge. *)
LEMMA AddNewEdgeIsLinks ==
  ASSUME NEW l, IsLinks(l), NEW p \in Ends, NEW c \in Ends, NEW addRunAfter \in BOOLEAN
  PROVE  /\ IsLinks(AddNewEdge(l, p, c, addRunAfter))
         /\ DOMAIN AddNewEdge(l, p, c, addRunAfter).runAfter = DOMAIN l.runAfter
<1> DEFINE ra == l.runAfter
           new == AddNewEdge(l, p, c, addRunAfter)
<1>1. new.edges \subseteq Ends \X Ends
  BY DEF AddNewEdge, IsLinks
<1>2. CASE addRunAfter /\ c \in DOMAIN ra
  <2>1. new.runAfter = [ra EXCEPT ![c] = WithKey(@, p, Succeeded)]
    BY <1>2 DEF AddNewEdge
  <2>2. IsRunAfter(WithKey(ra[c], p, Succeeded))
    BY <1>2, WithKeyIsRunAfter DEF IsLinks, IsRunAfterMap, Status
  <2> QED BY <1>1, <1>2, <2>1, <2>2 DEF IsLinks, IsRunAfterMap
<1>3. CASE ~(addRunAfter /\ c \in DOMAIN ra)
  <2>1. new.runAfter = ra
    BY <1>3 DEF AddNewEdge
  <2> QED BY <1>1, <2>1 DEF IsLinks
<1> QED BY <1>2, <1>3

(* Removing an edge. *)
LEMMA RemoveEdgeIsLinks ==
  ASSUME NEW l, IsLinks(l), NEW p, NEW c
  PROVE  /\ IsLinks(RemoveEdge(l, p, c))
         /\ DOMAIN RemoveEdge(l, p, c).runAfter = DOMAIN l.runAfter
<1> DEFINE ra == l.runAfter
           new == RemoveEdge(l, p, c)
<1>1. new.edges \subseteq Ends \X Ends
  BY DEF RemoveEdge, IsLinks
<1>2. CASE c \in DOMAIN ra
  <2>1. new.runAfter = [ra EXCEPT ![c] = WithoutKey(@, p)]
    BY <1>2 DEF RemoveEdge
  <2>2. IsRunAfter(WithoutKey(ra[c], p))
    BY <1>2, WithoutKeyIsRunAfter DEF IsLinks, IsRunAfterMap
  <2> QED BY <1>1, <1>2, <2>1, <2>2 DEF IsLinks, IsRunAfterMap
<1>3. CASE c \notin DOMAIN ra
  <2>1. new.runAfter = ra
    BY <1>3 DEF RemoveEdge
  <2> QED BY <1>1, <2>1 DEF IsLinks
<1> QED BY <1>2, <1>3

(* Moving one run-after value to another source. *)
LEMMA MoveRunAfterSourceIsRunAfter ==
  ASSUME NEW r, IsRunAfter(r), NEW old, NEW new \in Ends,
         NEW isOld \in BOOLEAN, NEW isNew \in BOOLEAN
  PROVE  IsRunAfter(MoveRunAfterSource(r, old, new, isOld, isNew))
<1> DEFINE moved == IF isOld THEN Succeeded ELSE StatusOf(r, old)
           keep  == isNew \/ StatusOf(r, new) # Undefined
           kept  == IF keep THEN r ELSE WithKey(r, new, moved)
<1>1. moved \in Status
  BY StatusOfIsStatus DEF Status
<1>2. IsRunAfter(kept)
  <2> HIDE DEF moved, keep
  <2> QED BY <1>1, WithKeyIsRunAfter
<1>3. IsRunAfter(WithoutKey(kept, old))
  <2> HIDE DEF kept
  <2> QED BY <1>2, WithoutKeyIsRunAfter
<1>4. MoveRunAfterSource(r, old, new, isOld, isNew)
        = IF r = Absent THEN Absent ELSE WithoutKey(kept, old)
  BY DEF MoveRunAfterSource
<1> HIDE DEF kept
<1> QED BY <1>3, <1>4 DEF IsRunAfter

(* Giving a node's children to another node. *)
LEMMA ReassignEdgeSourcesIsLinks ==
  ASSUME NEW l, IsLinks(l), NEW old, NEW new \in Ends,
         NEW isOld \in BOOLEAN, NEW isNew \in BOOLEAN
  PROVE  /\ IsLinks(ReassignEdgeSources(l, old, new, isOld, isNew))
         /\ DOMAIN ReassignEdgeSources(l, old, new, isOld, isNew).runAfter = DOMAIN l.runAfter
<1> DEFINE ra == l.runAfter
           children == Targets(l, old)
           doubled == {c \in children : <<new, c>> \in l.edges}
           Before(c) == IF c \in doubled THEN WithoutKey(ra[c], old) ELSE ra[c]
           After(c) == IF c \in children
                       THEN MoveRunAfterSource(Before(c), old, new, isOld, isNew)
                       ELSE ra[c]
           res == ReassignEdgeSources(l, old, new, isOld, isNew)
<1>1. res.edges \subseteq Ends \X Ends
  <2>1. res.edges = {IF e[1] = old THEN <<new, e[2]>> ELSE e : e \in l.edges}
    BY DEF ReassignEdgeSources
  <2>2. \A e \in l.edges : e \in Ends \X Ends
    BY DEF IsLinks
  <2> QED BY <2>1, <2>2
<1>2. res.runAfter = [n \in DOMAIN ra |-> After(n)]
  BY DEF ReassignEdgeSources
<1>3. \A n \in DOMAIN ra : IsRunAfter(After(n))
  <2> TAKE n \in DOMAIN ra
  <2>1. IsRunAfter(ra[n])
    BY DEF IsLinks, IsRunAfterMap
  <2>2. IsRunAfter(Before(n))
    <3> HIDE DEF doubled
    <3> QED BY <2>1, WithoutKeyIsRunAfter
  <2>3. IsRunAfter(MoveRunAfterSource(Before(n), old, new, isOld, isNew))
    <3> HIDE DEF Before
    <3> QED BY <2>2, MoveRunAfterSourceIsRunAfter
  <2> HIDE DEF Before, children
  <2> QED BY <2>1, <2>3
<1> HIDE DEF After
<1> QED BY <1>1, <1>2, <1>3 DEF IsLinks, IsRunAfterMap

(* Giving a node's parents to another node. *)
LEMMA ReassignEdgeTargetsIsLinks ==
  ASSUME NEW l, IsLinks(l), NEW old, NEW new \in Ends
  PROVE  /\ IsLinks(ReassignEdgeTargets(l, old, new))
         /\ DOMAIN ReassignEdgeTargets(l, old, new).runAfter = DOMAIN l.runAfter
<1> DEFINE ra == l.runAfter
           res == ReassignEdgeTargets(l, old, new)
<1>1. res.edges \subseteq Ends \X Ends
  <2>1. res.edges = {IF e[2] = old THEN <<e[1], new>> ELSE e : e \in l.edges}
    BY DEF ReassignEdgeTargets
  <2>2. \A e \in l.edges : e \in Ends \X Ends
    BY DEF IsLinks
  <2> QED BY <2>1, <2>2
<1>2. res.runAfter = MoveRunAfterTarget(ra, old, new)
  BY DEF ReassignEdgeTargets
<1>3. IsRunAfterMap(MoveRunAfterTarget(ra, old, new))
      /\ DOMAIN MoveRunAfterTarget(ra, old, new) = DOMAIN ra
  <2>1. CASE RunAfterOf(ra, old) # Absent
    <3>1. old \in DOMAIN ra /\ IsRunAfter(ra[old])
      BY <2>1 DEF RunAfterOf, IsLinks, IsRunAfterMap
    <3>2. MoveRunAfterTarget(ra, old, new) = [ra EXCEPT ![new] = ra[old], ![old] = NoKeys]
      BY <2>1 DEF MoveRunAfterTarget
    <3> QED BY <3>1, <3>2, NoKeysIsRunAfter DEF IsLinks, IsRunAfterMap
  <2>2. CASE RunAfterOf(ra, old) = Absent
    BY <2>2 DEF MoveRunAfterTarget, IsLinks
  <2> QED BY <2>1, <2>2
<1> QED BY <1>1, <1>2, <1>3 DEF IsLinks

(* The runAfter property of any id. *)
LEMMA RunAfterOfIsRunAfter ==
  ASSUME NEW l, IsLinks(l), NEW n
  PROVE  IsRunAfter(RunAfterOf(l.runAfter, n))
BY DEF IsLinks, IsRunAfterMap, RunAfterOf, IsRunAfter

(* Putting a node where it was dropped. *)
LEMMA InsertNodeIsLinks ==
  ASSUME NEW l, IsLinks(l), NEW n \in DOMAIN l.runAfter,
         NEW parent \in Ends, NEW child \in Ends,
         NEW addRunAfters \in BOOLEAN, NEW isOld \in BOOLEAN
  PROVE  /\ IsLinks(InsertNode(l, n, parent, child, addRunAfters, isOld))
         /\ DOMAIN InsertNode(l, n, parent, child, addRunAfters, isOld).runAfter = DOMAIN l.runAfter
<1> DEFINE ra == l.runAfter
           first == AddNewEdge(l, parent, n, addRunAfters)
           second == AddNewEdge(first, n, child, TRUE)
           between == RemoveEdge(second, parent, child)
           before == RunAfterOf(ra, child)
           carried == [between EXCEPT !.runAfter[n] = WithKey(@, parent, StatusOf(before, parent))]
           res == InsertNode(l, n, parent, child, addRunAfters, isOld)
<1>1. n \in Ends
  BY DEF IsLinks, IsRunAfterMap, Ends
<1>2. IsLinks(first) /\ DOMAIN first.runAfter = DOMAIN ra
  BY <1>1, AddNewEdgeIsLinks
<1>3. IsLinks(second) /\ DOMAIN second.runAfter = DOMAIN ra
  <2> HIDE DEF first
  <2> QED BY <1>1, <1>2, AddNewEdgeIsLinks
<1>4. IsLinks(between) /\ DOMAIN between.runAfter = DOMAIN ra
  <2> HIDE DEF second
  <2> QED BY <1>3, RemoveEdgeIsLinks
<1>5. between = [edges |-> between.edges, runAfter |-> between.runAfter]
  BY DEF RemoveEdge
<1>6. IsLinks(carried) /\ DOMAIN carried.runAfter = DOMAIN ra
  <2>1. StatusOf(before, parent) \in Status
    BY RunAfterOfIsRunAfter, StatusOfIsStatus
  <2> HIDE DEF between, before
  <2>2. IsRunAfter(between.runAfter[n])
    BY <1>4 DEF IsLinks, IsRunAfterMap
  <2>3. IsRunAfter(WithKey(between.runAfter[n], parent, StatusOf(before, parent)))
    BY <2>1, <2>2, WithKeyIsRunAfter
  <2>4. carried.edges = between.edges
    BY <1>5
  <2>5. carried.runAfter = [between.runAfter EXCEPT ![n] = WithKey(@, parent, StatusOf(before, parent))]
    BY <1>5
  <2> HIDE DEF carried
  <2> QED BY <1>4, <2>3, <2>4, <2>5 DEF IsLinks, IsRunAfterMap
<1>7. CASE parent # NoNode /\ child # NoNode
  <2>1. res = IF before # Absent /\ addRunAfters THEN carried ELSE between
    BY <1>7 DEF InsertNode
  <2> HIDE DEF carried, between
  <2> QED BY <2>1, <1>4, <1>6
<1>8. CASE parent = NoNode /\ child # NoNode
  <2> DEFINE taken == ReassignEdgeTargets(l, child, n)
  <2>1. res = AddNewEdge(taken, n, child, TRUE)
    BY <1>8 DEF InsertNode
  <2>2. IsLinks(taken) /\ DOMAIN taken.runAfter = DOMAIN ra
    BY <1>1, ReassignEdgeTargetsIsLinks
  <2> HIDE DEF taken
  <2>3. /\ IsLinks(AddNewEdge(taken, n, child, TRUE))
        /\ DOMAIN AddNewEdge(taken, n, child, TRUE).runAfter = DOMAIN taken.runAfter
    BY <1>1, <2>2, AddNewEdgeIsLinks
  <2> QED BY <2>1, <2>2, <2>3
<1>9. CASE parent # NoNode /\ child = NoNode
  <2> DEFINE given == ReassignEdgeSources(l, parent, n, isOld, FALSE)
  <2>1. res = AddNewEdge(given, parent, n, addRunAfters)
    BY <1>9 DEF InsertNode
  <2>2. IsLinks(given) /\ DOMAIN given.runAfter = DOMAIN ra
    <3>1. ASSUME NEW isNew \in BOOLEAN
          PROVE  /\ IsLinks(ReassignEdgeSources(l, parent, n, isOld, isNew))
                 /\ DOMAIN ReassignEdgeSources(l, parent, n, isOld, isNew).runAfter = DOMAIN ra
      BY <1>1, ReassignEdgeSourcesIsLinks
    <3> QED BY <3>1, Zenon
  <2> HIDE DEF given
  <2> QED BY <1>1, <2>1, <2>2, AddNewEdgeIsLinks
<1>10. CASE parent = NoNode /\ child = NoNode
  BY <1>10 DEF InsertNode
<1> QED BY <1>7, <1>8, <1>9, <1>10

(* Taking a node out of its place. *)
LEMMA DetachNodeIsLinks ==
  ASSUME NEW l, IsLinks(l), NEW w, NEW n, NEW x \in Ends
  PROVE  /\ IsLinks(DetachNode(l, w, n, x))
         /\ DOMAIN DetachNode(l, w, n, x).runAfter = DOMAIN l.runAfter
<1> DEFINE ra == l.runAfter
           res == DetachNode(l, w, n, x)
<1>1. CASE ~HasMultipleParents(w, n)
  <2> DEFINE isNew == IsRootNodeInGraph(w, x, Root)
             given == ReassignEdgeSources(l, n, x, FALSE, isNew)
  <2>1. res = RemoveEdge(given, x, n)
    BY <1>1 DEF DetachNode
  <2>2. isNew \in BOOLEAN
    BY DEF IsRootNodeInGraph
  <2>3. IsLinks(given) /\ DOMAIN given.runAfter = DOMAIN ra
    <3>1. ASSUME NEW isOld \in BOOLEAN, NEW isRoot \in BOOLEAN
          PROVE  /\ IsLinks(ReassignEdgeSources(l, n, x, isOld, isRoot))
                 /\ DOMAIN ReassignEdgeSources(l, n, x, isOld, isRoot).runAfter = DOMAIN ra
      BY ReassignEdgeSourcesIsLinks
    <3> HIDE DEF isNew
    <3> QED BY <2>2, <3>1, Zenon
  <2> HIDE DEF given
  <2> QED BY <2>1, <2>3, RemoveEdgeIsLinks
<1>2. CASE HasMultipleParents(w, n) /\ x # NoNode
  <2> DEFINE taken == ReassignEdgeTargets(l, n, x)
  <2>1. res = RemoveEdge(taken, n, x)
    BY <1>2 DEF DetachNode
  <2>2. IsLinks(taken) /\ DOMAIN taken.runAfter = DOMAIN ra
    BY ReassignEdgeTargetsIsLinks
  <2> HIDE DEF taken
  <2> QED BY <2>1, <2>2, RemoveEdgeIsLinks
<1>3. CASE HasMultipleParents(w, n) /\ x = NoNode
  <2>1. res = [edges    |-> {e \in l.edges : ~(e[2] = n /\ e[1] \in Keys(w.runAfter[n]))},
               runAfter |-> [ra EXCEPT ![n] = NoKeys]]
    BY <1>3 DEF DetachNode
  <2>2. res.edges \subseteq l.edges
    BY <2>1
  <2>3. res.runAfter = [ra EXCEPT ![n] = NoKeys]
    BY <2>1
  <2> QED BY <2>2, <2>3, NoKeysIsRunAfter DEF IsLinks, IsRunAfterMap
<1> QED BY <1>1, <1>2, <1>3

-----------------------------------------------------------------------------
(* Every rewriting of the state keeps it well formed.                      *)

(* GraphsAgreeWithMetadata, of any state w. *)
Agrees(w) ==
  /\ \A g \in Graphs : \A n \in w.children[g] : NodeGraphId(w, n) = g
  /\ Defined(w) = HasMetadata(w) \ {Placeholder}
  /\ Placeholder \in HasMetadata(w) => w.graphOf[Placeholder] = Root

IsWellFormed(w) == IsState(w) /\ Agrees(w)

(* What the assumption on ids comes to. *)
LEMMA Ids ==
  /\ Root \in Graphs /\ NoNode \notin Graphs /\ Placeholder \notin Graphs
  /\ Graphs \ {Root} \subseteq Operations
  /\ Placeholder \notin Operations /\ NoNode \notin Operations /\ Root \notin Operations
  /\ Placeholder # NoNode
  /\ Operations \subseteq Ends /\ Placeholder \in Ends /\ NoNode \in Ends
  /\ Triggers \subseteq Operations /\ Actions \subseteq Operations /\ Scopes \subseteq Operations
BY IdsAreDistinct DEF Graphs, Operations, Ends

(* The links of a graph are well formed in a well-formed state. *)
LEMMA StateHasLinks ==
  ASSUME NEW w, IsState(w), NEW g \in Graphs
  PROVE  IsLinks(Links(w, g)) /\ DOMAIN Links(w, g).runAfter = Defined(w)
<1>1. w.edges[g] \subseteq Ends \X Ends
  BY DEF IsState
<1>2. Links(w, g).edges = w.edges[g] /\ Links(w, g).runAfter = w.runAfter
  BY DEF Links
<1> QED BY <1>1, <1>2 DEF IsState, IsLinks, IsRunAfterMap, Defined

(* A state put together from well-formed parts is well formed. *)
LEMMA StateFromParts ==
  ASSUME NEW children \in [Graphs -> SUBSET (Operations \cup {Placeholder})],
         NEW edges \in [Graphs -> SUBSET (Ends \X Ends)],
         NEW runAfter, IsRunAfterMap(runAfter),
         NEW graphOf, graphOf \in [DOMAIN graphOf -> Graphs],
         NEW isRoot \in SUBSET (Operations \cup {Placeholder})
  PROVE  IsState([children |-> children, edges |-> edges, runAfter |-> runAfter,
                  graphOf |-> graphOf, isRoot |-> isRoot])
BY DEF IsState, IsRunAfterMap, Defined, HasMetadata

(* The members of a well-formed state. *)
LEMMA StateHasParts ==
  ASSUME NEW w, IsWellFormed(w)
  PROVE  /\ w = [children |-> w.children, edges |-> w.edges, runAfter |-> w.runAfter,
                 graphOf |-> w.graphOf, isRoot |-> w.isRoot]
         /\ w.children \in [Graphs -> SUBSET (Operations \cup {Placeholder})]
         /\ w.edges \in [Graphs -> SUBSET (Ends \X Ends)]
         /\ IsRunAfterMap(w.runAfter)
         /\ w.graphOf \in [DOMAIN w.graphOf -> Graphs]
         /\ w.isRoot \subseteq Operations \cup {Placeholder}
         /\ HasMetadata(w) = DOMAIN w.graphOf
         /\ Defined(w) = DOMAIN w.runAfter
         /\ HasMetadata(w) \subseteq Operations \cup {Placeholder}
BY DEF IsWellFormed, IsState, Agrees, IsRunAfterMap, Defined, HasMetadata

(* A node drawn in a graph has metadata naming that graph. *)
LEMMA DrawnHasMetadata ==
  ASSUME NEW w, IsWellFormed(w), NEW g \in Graphs, NEW n \in w.children[g]
  PROVE  n \in HasMetadata(w) /\ w.graphOf[n] = g
BY Ids DEF IsWellFormed, Agrees, NodeGraphId

(* applyIsRootNode. *)
LEMMA ApplyIsRootNodeWellFormed ==
  ASSUME NEW w, IsWellFormed(w), NEW n, NEW g
  PROVE  /\ IsWellFormed(ApplyIsRootNode(w, n, g))
         /\ Defined(ApplyIsRootNode(w, n, g)) = Defined(w)
<1> DEFINE demoted == Targets(Links(w, g), n) \cap HasMetadata(w)
           ra == [x \in Defined(w) |-> IF x \in demoted THEN NoKeys ELSE w.runAfter[x]]
           r == [children |-> w.children, edges |-> w.edges, runAfter |-> ra,
                 graphOf |-> w.graphOf, isRoot |-> w.isRoot \ demoted]
<1>1. ApplyIsRootNode(w, n, g) = r
  BY DEF ApplyIsRootNode
<1>2. IsRunAfterMap(ra)
  <2> HIDE DEF demoted
  <2> QED BY StateHasParts, NoKeysIsRunAfter DEF IsRunAfterMap
<1>3. IsState(r)
  <2> HIDE DEF ra, demoted
  <2>1. w.isRoot \ demoted \in SUBSET (Operations \cup {Placeholder})
    BY StateHasParts
  <2> QED BY <1>2, <2>1, StateHasParts, StateFromParts
<1>4. Agrees(r)
  <2> HIDE DEF demoted
  <2> QED BY DEF IsWellFormed, Agrees, NodeGraphId, HasMetadata, Defined
<1>5. Defined(r) = Defined(w)
  BY DEF Defined
<1> HIDE DEF r
<1> QED BY <1>1, <1>3, <1>4, <1>5 DEF IsWellFormed

(* Rewriting the links of a graph. *)
LEMMA WithLinksWellFormed ==
  ASSUME NEW w, IsWellFormed(w), NEW g \in Graphs,
         NEW l, IsLinks(l), DOMAIN l.runAfter = Defined(w)
  PROVE  IsWellFormed(WithLinks(w, g, l)) /\ Defined(WithLinks(w, g, l)) = Defined(w)
<1> DEFINE new == [children |-> w.children, edges |-> [w.edges EXCEPT ![g] = l.edges],
                   runAfter |-> l.runAfter, graphOf |-> w.graphOf, isRoot |-> w.isRoot]
<1>1. WithLinks(w, g, l) = new
  BY DEF WithLinks
<1>2. IsState(new)
  <2>1. [w.edges EXCEPT ![g] = l.edges] \in [Graphs -> SUBSET (Ends \X Ends)]
    BY StateHasParts DEF IsLinks
  <2>2. IsRunAfterMap(l.runAfter)
    BY DEF IsLinks
  <2> QED BY <2>1, <2>2, StateHasParts, StateFromParts
<1>3. Defined(new) = Defined(w)
  BY DEF Defined
<1>4. Agrees(new)
  BY <1>3 DEF IsWellFormed, Agrees, NodeGraphId, HasMetadata
<1> HIDE DEF new
<1> QED BY <1>1, <1>2, <1>3, <1>4 DEF IsWellFormed

(* Giving one operation another runAfter. *)
LEMMA SetRunAfterWellFormed ==
  ASSUME NEW w, IsWellFormed(w), NEW n \in Defined(w), NEW r, IsRunAfter(r)
  PROVE  /\ IsWellFormed([w EXCEPT !.runAfter[n] = r])
         /\ Defined([w EXCEPT !.runAfter[n] = r]) = Defined(w)
<1> DEFINE ra == [w.runAfter EXCEPT ![n] = r]
           new == [children |-> w.children, edges |-> w.edges, runAfter |-> ra,
                   graphOf |-> w.graphOf, isRoot |-> w.isRoot]
<1>1. [w EXCEPT !.runAfter[n] = r] = new
  BY StateHasParts
<1>2. IsRunAfterMap(ra)
  BY StateHasParts DEF IsRunAfterMap
<1>3. IsState(new)
  <2> HIDE DEF ra
  <2> QED BY <1>2, StateHasParts, StateFromParts
<1>4. DOMAIN ra = Defined(w)
  BY StateHasParts DEF IsRunAfterMap
<1>5. Agrees(new)
  <2> HIDE DEF ra
  <2> QED BY <1>4 DEF IsWellFormed, Agrees, NodeGraphId, HasMetadata, Defined
<1>6. Defined(new) = Defined(w)
  <2> HIDE DEF ra
  <2> QED BY <1>4 DEF Defined
<1> HIDE DEF new
<1> QED BY <1>1, <1>3, <1>5, <1>6 DEF IsWellFormed

(* Adding an operation the state does not have yet. *)
LEMMA AddNodeWellFormed ==
  ASSUME NEW w, IsWellFormed(w), NEW n \in Operations, n \notin Defined(w),
         NEW g \in Graphs, NEW parent \in Ends, NEW child \in Ends,
         NEW isParallel \in BOOLEAN, NEW isTrigger \in BOOLEAN
  PROVE  /\ IsWellFormed(AddNodeToWorkflow(w, n, g, parent, child, isParallel, isTrigger))
         /\ n \in AddNodeToWorkflow(w, n, g, parent, child, isParallel, isTrigger).children[g]
         /\ w.children[g] \subseteq
              AddNodeToWorkflow(w, n, g, parent, child, isParallel, isTrigger).children[g]
         /\ Defined(AddNodeToWorkflow(w, n, g, parent, child, isParallel, isTrigger))
              = Defined(w) \cup {n}
<1> DEFINE isRoot == isTrigger \/ parent = Heading(g)
           isAfterTrigger == parent \in w.isRoot /\ g = Root
           addRunAfters == ~isRoot /\ ~isAfterTrigger
           links == [edges |-> w.edges[g],
                     runAfter |-> [x \in Defined(w) \cup {n} |->
                                     IF x = n THEN Absent ELSE w.runAfter[x]]]
           placed == IF isParallel /\ parent # NoNode
                     THEN AddNewEdge(links, parent, n, addRunAfters)
                     ELSE InsertNode(links, n, parent, child, addRunAfters, ~addRunAfters)
           ownEdges == IF n \in Untils THEN {<<Heading(n), Footer(n)>>} ELSE {}
           children == [w.children EXCEPT ![g] = @ \cup {n}]
           edges == [x \in Graphs |-> IF x = g THEN placed.edges
                                      ELSE IF x = n THEN ownEdges
                                      ELSE w.edges[x]]
           graphOf == [x \in HasMetadata(w) \cup {n} |-> IF x = n THEN g ELSE w.graphOf[x]]
           roots == IF isRoot THEN w.isRoot \cup {n} ELSE w.isRoot
           added == [children |-> children, edges |-> edges, runAfter |-> placed.runAfter,
                     graphOf |-> graphOf, isRoot |-> roots]
           res == AddNodeToWorkflow(w, n, g, parent, child, isParallel, isTrigger)
<1>1. res = IF isRoot THEN ApplyIsRootNode(added, n, g) ELSE added
  BY DEF AddNodeToWorkflow
<1>2. IsLinks(links) /\ DOMAIN links.runAfter = Defined(w) \cup {n}
  <2>1. w.edges[g] \subseteq Ends \X Ends
    BY StateHasParts
  <2>2. IsRunAfterMap(links.runAfter)
    <3>1. IsRunAfter(Absent)
      BY DEF IsRunAfter
    <3>2. \A x \in Defined(w) : x \in Operations /\ IsRunAfter(w.runAfter[x])
      BY StateHasParts DEF IsRunAfterMap
    <3> QED BY <3>1, <3>2 DEF IsRunAfterMap
  <2> QED BY <2>1, <2>2 DEF IsLinks
<1>3. IsLinks(placed) /\ DOMAIN placed.runAfter = Defined(w) \cup {n}
  <2>1. ASSUME NEW flag \in BOOLEAN, NEW isOld \in BOOLEAN
        PROVE  /\ IsLinks(AddNewEdge(links, parent, n, flag))
               /\ DOMAIN AddNewEdge(links, parent, n, flag).runAfter = Defined(w) \cup {n}
               /\ IsLinks(InsertNode(links, n, parent, child, flag, isOld))
               /\ DOMAIN InsertNode(links, n, parent, child, flag, isOld).runAfter
                    = Defined(w) \cup {n}
    <3>1. n \in DOMAIN links.runAfter /\ n \in Ends
      BY <1>2, Ids
    <3> HIDE DEF links
    <3>2. /\ IsLinks(AddNewEdge(links, parent, n, flag))
          /\ DOMAIN AddNewEdge(links, parent, n, flag).runAfter = DOMAIN links.runAfter
      BY <1>2, <3>1, AddNewEdgeIsLinks
    <3>3. /\ IsLinks(InsertNode(links, n, parent, child, flag, isOld))
          /\ DOMAIN InsertNode(links, n, parent, child, flag, isOld).runAfter
               = DOMAIN links.runAfter
      <4>1. \A m \in DOMAIN links.runAfter, p, c \in Ends, f, o \in BOOLEAN :
              /\ IsLinks(InsertNode(links, m, p, c, f, o))
              /\ DOMAIN InsertNode(links, m, p, c, f, o).runAfter = DOMAIN links.runAfter
        BY <1>2, InsertNodeIsLinks
      <4> QED BY <3>1, <4>1
    <3> QED BY <1>2, <3>2, <3>3
  <2>2. addRunAfters \in BOOLEAN /\ (~addRunAfters) \in BOOLEAN
    OBVIOUS
  <2> HIDE DEF addRunAfters, links
  <2> QED BY <2>1, <2>2, Zenon
<1>4. IsState(added)
  <2>1. children \in [Graphs -> SUBSET (Operations \cup {Placeholder})]
    BY StateHasParts
  <2>2. edges \in [Graphs -> SUBSET (Ends \X Ends)]
    <3>1. placed.edges \subseteq Ends \X Ends
      BY <1>3 DEF IsLinks
    <3>2. ownEdges \subseteq Ends \X Ends
      BY IdsAreDistinct DEF Ends, Headings, Footers
    <3> HIDE DEF placed, ownEdges
    <3> QED BY <3>1, <3>2, StateHasParts
  <2>3. IsRunAfterMap(placed.runAfter)
    BY <1>3 DEF IsLinks
  <2>4. graphOf \in [DOMAIN graphOf -> Graphs]
    BY StateHasParts
  <2>5. roots \in SUBSET (Operations \cup {Placeholder})
    BY StateHasParts
  <2> HIDE DEF children, edges, placed, graphOf, roots
  <2> QED BY <2>1, <2>2, <2>3, <2>4, <2>5, StateFromParts
<1>5. Agrees(added)
  <2>1. n \notin HasMetadata(w)
    BY Ids DEF IsWellFormed, Agrees
  <2>2. Defined(added) = Defined(w) \cup {n}
    <3> HIDE DEF placed
    <3> QED BY <1>3 DEF Defined
  <2>3. HasMetadata(added) = HasMetadata(w) \cup {n}
    BY DEF HasMetadata
  <2>4. \A h \in Graphs : \A m \in children[h] : NodeGraphId(added, m) = h
    <3> TAKE h \in Graphs
    <3> TAKE m \in children[h]
    <3>1. added.graphOf = graphOf
      OBVIOUS
    <3> HIDE DEF added
    <3>2. CASE m = n
      <4>1. h = g
        BY <2>1, <3>2, DrawnHasMetadata, StateHasParts
      <4> QED BY <2>3, <3>1, <3>2, <4>1 DEF NodeGraphId
    <3>3. CASE m # n
      <4>1. m \in w.children[h]
        BY <3>3, StateHasParts
      <4> QED BY <2>3, <3>1, <3>3, <4>1, DrawnHasMetadata DEF NodeGraphId
    <3> QED BY <3>2, <3>3
  <2>5. n # Placeholder
    BY Ids
  <2>6. Placeholder \in HasMetadata(w) => graphOf[Placeholder] = Root
    BY <2>5 DEF IsWellFormed, Agrees
  <2>7. added.children = children /\ added.graphOf = graphOf
    OBVIOUS
  <2> HIDE DEF added, graphOf, children
  <2> QED BY <2>2, <2>3, <2>4, <2>5, <2>6, <2>7 DEF IsWellFormed, Agrees
<1>6. n \in added.children[g] /\ w.children[g] \subseteq added.children[g]
  BY StateHasParts
<1>7. ApplyIsRootNode(added, n, g).children = added.children
  <2> HIDE DEF children, edges, placed, graphOf, roots
  <2> QED BY DEF ApplyIsRootNode
<1>8. /\ IsWellFormed(added) /\ IsWellFormed(ApplyIsRootNode(added, n, g))
      /\ Defined(added) = Defined(w) \cup {n}
      /\ Defined(ApplyIsRootNode(added, n, g)) = Defined(w) \cup {n}
  <2>1. Defined(added) = Defined(w) \cup {n}
    <3> HIDE DEF placed
    <3> QED BY <1>3 DEF Defined
  <2> HIDE DEF added
  <2> QED BY <1>4, <1>5, <2>1, ApplyIsRootNodeWellFormed DEF IsWellFormed
<1> HIDE DEF added, isRoot
<1> QED BY <1>1, <1>6, <1>7, <1>8

(* Deleting an action or a scope. *)
LEMMA DeleteNodeWellFormed ==
  ASSUME NEW w, IsWellFormed(w), NEW n \in Operations, NEW g \in Graphs, NEW x \in Ends,
         n \in HasMetadata(w) => w.graphOf[n] = g
  PROVE  /\ IsWellFormed(DeleteNodeFromWorkflow(w, n, g, x))
         /\ Defined(DeleteNodeFromWorkflow(w, n, g, x)) = Defined(w) \ {n}
<1> DEFINE l == DetachNode(Links(w, g), w, n, x)
           heirs == IF n \in w.isRoot THEN Targets(Links(w, g), n) \cap HasMetadata(w) ELSE {}
           children == [c \in Graphs |-> IF c = n THEN {}
                                         ELSE IF c = g THEN w.children[g] \ {n}
                                         ELSE w.children[c]]
           edges == [c \in Graphs |-> IF c = n THEN {}
                                      ELSE IF c = g THEN l.edges
                                      ELSE w.edges[c]]
           runAfter == [m \in Defined(w) \ {n} |-> l.runAfter[m]]
           graphOf == [m \in HasMetadata(w) \ {n} |-> w.graphOf[m]]
           isRoot == (w.isRoot \cup heirs) \ {n}
           new == [children |-> children, edges |-> edges, runAfter |-> runAfter,
                   graphOf |-> graphOf, isRoot |-> isRoot]
<1>1. DeleteNodeFromWorkflow(w, n, g, x) = new
  BY DEF DeleteNodeFromWorkflow
<1>2. IsLinks(l) /\ DOMAIN l.runAfter = Defined(w)
  <2>1. IsLinks(Links(w, g)) /\ DOMAIN Links(w, g).runAfter = Defined(w)
    BY StateHasLinks DEF IsWellFormed
  <2> QED BY <2>1, DetachNodeIsLinks
<1>3. IsState(new)
  <2> HIDE DEF l, heirs
  <2>1. children \in [Graphs -> SUBSET (Operations \cup {Placeholder})]
    BY StateHasParts
  <2>2. edges \in [Graphs -> SUBSET (Ends \X Ends)]
    BY <1>2, StateHasParts DEF IsLinks
  <2>3. IsRunAfterMap(runAfter)
    BY <1>2, StateHasParts DEF IsLinks, IsRunAfterMap
  <2>4. graphOf \in [DOMAIN graphOf -> Graphs]
    BY StateHasParts
  <2>5. isRoot \in SUBSET (Operations \cup {Placeholder})
    BY StateHasParts DEF heirs
  <2> HIDE DEF children, edges, runAfter, graphOf, isRoot
  <2> QED BY <2>1, <2>2, <2>3, <2>4, <2>5, StateFromParts
<1>4. Agrees(new)
  <2>1. Defined(new) = Defined(w) \ {n} /\ HasMetadata(new) = HasMetadata(w) \ {n}
    BY DEF Defined, HasMetadata
  <2>2. ASSUME NEW h \in Graphs, NEW m \in children[h]
        PROVE  NodeGraphId(new, m) = h
    <3>1. m \in w.children[h]
      OBVIOUS
    <3>2. m \in HasMetadata(w) /\ w.graphOf[m] = h
      BY <3>1, DrawnHasMetadata
    <3>3. m # n
      BY <3>2
    <3>4. new.graphOf[m] = w.graphOf[m]
      BY <3>2, <3>3
    <3> HIDE DEF new, children
    <3> QED BY <2>1, <3>2, <3>3, <3>4 DEF NodeGraphId
  <2>3. new.children = children /\ new.graphOf = graphOf
    OBVIOUS
  <2>4. Placeholder \in HasMetadata(w) \ {n} => graphOf[Placeholder] = Root
    BY DEF IsWellFormed, Agrees
  <2> HIDE DEF new, children, graphOf
  <2> QED BY <2>1, <2>2, <2>3, <2>4 DEF IsWellFormed, Agrees
<1>5. Defined(new) = Defined(w) \ {n}
  BY DEF Defined
<1> HIDE DEF new
<1> QED BY <1>1, <1>3, <1>4, <1>5 DEF IsWellFormed

(* Deleting the trigger. *)
LEMMA DeleteTriggerWellFormed ==
  ASSUME NEW w, IsWellFormed(w), NEW t \in Operations, t \in w.children[Root]
  PROVE  /\ IsWellFormed(DeleteTriggerFromWorkflow(w, t))
         /\ Defined(DeleteTriggerFromWorkflow(w, t)) = Defined(w) \ {t}
<1> DEFINE heirs == Targets(Links(w, Root), t)
           children == [w.children EXCEPT ![Root] = (@ \ {t}) \cup {Placeholder}]
           edges == [w.edges EXCEPT ![Root] =
                       {e \in @ : e[1] # t} \cup ({Placeholder} \X heirs)]
           runAfter == [m \in Defined(w) \ {t} |->
                          IF m \in heirs THEN WithKey(w.runAfter[m], Placeholder, Succeeded)
                                         ELSE w.runAfter[m]]
           graphOf == [m \in (HasMetadata(w) \ {t}) \cup {Placeholder} |->
                         IF m = Placeholder THEN Root ELSE w.graphOf[m]]
           isRoot == (w.isRoot \ {t}) \cup {Placeholder}
           new == [children |-> children, edges |-> edges, runAfter |-> runAfter,
                   graphOf |-> graphOf, isRoot |-> isRoot]
<1>1. DeleteTriggerFromWorkflow(w, t) = new
  BY DEF DeleteTriggerFromWorkflow
<1>2. IsState(new)
  <2>1. children \in [Graphs -> SUBSET (Operations \cup {Placeholder})]
    BY StateHasParts, Ids
  <2>2. edges \in [Graphs -> SUBSET (Ends \X Ends)]
    <3>1. w.edges[Root] \subseteq Ends \X Ends
      BY StateHasParts, Ids
    <3>2. heirs \subseteq Ends
      BY <3>1 DEF Targets, Links
    <3> HIDE DEF heirs
    <3> QED BY <3>1, <3>2, StateHasParts, Ids
  <2>3. IsRunAfterMap(runAfter)
    <3>1. \A m \in Defined(w) :
            /\ IsRunAfter(w.runAfter[m])
            /\ IsRunAfter(WithKey(w.runAfter[m], Placeholder, Succeeded))
      BY StateHasParts, WithKeyIsRunAfter, Ids DEF IsRunAfterMap, Status
    <3> HIDE DEF heirs
    <3> QED BY <3>1, StateHasParts DEF IsRunAfterMap
  <2>4. graphOf \in [DOMAIN graphOf -> Graphs]
    BY StateHasParts, Ids
  <2>5. isRoot \in SUBSET (Operations \cup {Placeholder})
    BY StateHasParts
  <2> HIDE DEF children, edges, runAfter, graphOf, isRoot
  <2> QED BY <2>1, <2>2, <2>3, <2>4, <2>5, StateFromParts
<1>3. Agrees(new)
  <2>1. Defined(new) = Defined(w) \ {t}
    BY DEF Defined
  <2>2. HasMetadata(new) = (HasMetadata(w) \ {t}) \cup {Placeholder}
    BY DEF HasMetadata
  <2>3. t # Placeholder
    BY Ids
  <2>4. ASSUME NEW h \in Graphs, NEW m \in children[h]
        PROVE  m \in HasMetadata(new) /\ graphOf[m] = h
    <3>1. CASE m = Placeholder
      <4>1. h = Root
        BY <3>1, DrawnHasMetadata, StateHasParts DEF IsWellFormed, Agrees
      <4> QED BY <2>2, <3>1, <4>1
    <3>2. CASE m # Placeholder
      <4>1. m \in w.children[h]
        BY <3>2, StateHasParts
      <4>2. m \in HasMetadata(w) /\ w.graphOf[m] = h
        BY <4>1, DrawnHasMetadata
      <4>3. m # t
        <5>1. CASE h = Root
          BY <3>2, <5>1, StateHasParts
        <5>2. CASE h # Root
          <6>1. w.graphOf[t] = Root
            BY Ids, DrawnHasMetadata
          <6> QED BY <4>2, <5>2, <6>1
        <5> QED BY <5>1, <5>2
      <4> QED BY <2>2, <3>2, <4>2, <4>3
    <3> QED BY <3>1, <3>2
  <2>5. new.children = children /\ new.graphOf = graphOf
    OBVIOUS
  <2>6. graphOf[Placeholder] = Root
    OBVIOUS
  <2> HIDE DEF new, children, graphOf
  <2> QED BY <2>1, <2>2, <2>3, <2>4, <2>5, <2>6 DEF IsWellFormed, Agrees, NodeGraphId
<1>4. Defined(new) = Defined(w) \ {t}
  BY DEF Defined
<1> HIDE DEF new
<1> QED BY <1>1, <1>2, <1>3, <1>4 DEF IsWellFormed

(* Taking the placeholder away. *)
LEMMA WithoutPlaceholderWellFormed ==
  ASSUME NEW w, IsWellFormed(w), NEW t \in Operations
  PROVE  /\ IsWellFormed(WithoutPlaceholder(w, t))
         /\ Defined(WithoutPlaceholder(w, t)) = Defined(w)
<1> DEFINE children == [w.children EXCEPT ![Root] = @ \ {Placeholder}]
           edges == [w.edges EXCEPT ![Root] =
                       {IF e[1] = Placeholder THEN <<t, e[2]>> ELSE e : e \in @}]
           graphOf == [m \in HasMetadata(w) \ {Placeholder} |-> w.graphOf[m]]
           isRoot == w.isRoot \ {Placeholder}
           new == [children |-> children, edges |-> edges, runAfter |-> w.runAfter,
                   graphOf |-> graphOf, isRoot |-> isRoot]
<1>1. WithoutPlaceholder(w, t) = new
  BY DEF WithoutPlaceholder
<1>2. IsState(new)
  <2>1. children \in [Graphs -> SUBSET (Operations \cup {Placeholder})]
    BY StateHasParts, Ids
  <2>2. edges \in [Graphs -> SUBSET (Ends \X Ends)]
    <3> DEFINE moved == {IF e[1] = Placeholder THEN <<t, e[2]>> ELSE e : e \in w.edges[Root]}
    <3>1. \A e \in w.edges[Root] : e \in Ends \X Ends
      BY StateHasParts, Ids
    <3>2. moved \subseteq Ends \X Ends
      BY <3>1, Ids
    <3>3. edges = [w.edges EXCEPT ![Root] = moved]
      OBVIOUS
    <3> HIDE DEF edges, moved
    <3> QED BY <3>2, <3>3, StateHasParts
  <2>3. graphOf \in [DOMAIN graphOf -> Graphs]
    BY StateHasParts
  <2>4. isRoot \in SUBSET (Operations \cup {Placeholder})
    BY StateHasParts
  <2> HIDE DEF children, edges, graphOf, isRoot
  <2> QED BY <2>1, <2>2, <2>3, <2>4, StateHasParts, StateFromParts
<1>3. Defined(new) = Defined(w) /\ HasMetadata(new) = HasMetadata(w) \ {Placeholder}
  BY DEF Defined, HasMetadata
<1>4. Agrees(new)
  <2>1. ASSUME NEW h \in Graphs, NEW m \in children[h]
        PROVE  m \in HasMetadata(new) /\ graphOf[m] = h
    <3>1. m \in w.children[h] /\ (h = Root => m # Placeholder)
      BY StateHasParts
    <3>2. m \in HasMetadata(w) /\ w.graphOf[m] = h
      BY <3>1, DrawnHasMetadata
    <3>3. m # Placeholder
      BY <3>1, <3>2 DEF IsWellFormed, Agrees
    <3> QED BY <1>3, <3>2, <3>3
  <2>2. new.children = children /\ new.graphOf = graphOf
    OBVIOUS
  <2> HIDE DEF new, children, graphOf
  <2> QED BY <1>3, <2>1, <2>2 DEF IsWellFormed, Agrees, NodeGraphId
<1> HIDE DEF new
<1> QED BY <1>1, <1>2, <1>3, <1>4 DEF IsWellFormed

(* Moving a node that is drawn in graph old to graph new. *)
LEMMA MoveNodeWellFormed ==
  ASSUME NEW w, IsWellFormed(w), NEW n \in Operations,
         NEW old \in Graphs, NEW new \in Graphs, n \in w.children[old],
         NEW parent \in Ends, NEW child \in Ends, NEW x \in Ends
  PROVE  /\ IsWellFormed(MoveNodeInWorkflow(w, n, old, new, parent, child, x))
         /\ Defined(MoveNodeInWorkflow(w, n, old, new, parent, child, x)) = Defined(w)
<1> DEFINE heirs == IF n \in w.isRoot THEN Targets(Links(w, old), n) ELSE {}
           freed == [edges    |-> w.edges[old],
                     runAfter |-> [m \in Defined(w) |-> IF m \in heirs THEN Absent
                                                        ELSE w.runAfter[m]]]
           detached == DetachNode(freed, w, n, x)
           left == [w.edges EXCEPT ![old] = detached.edges]
           isNewRoot == parent \in Headings
           roots == ((w.isRoot \cup (heirs \cap HasMetadata(w))) \ {n})
                    \cup (IF isNewRoot THEN {n} ELSE {})
           isAfterTrigger == parent \in roots /\ new = Root
           addRunAfters == ~isNewRoot /\ ~isAfterTrigger
           target == [edges |-> left[new], runAfter |-> detached.runAfter]
           inserted == InsertNode(target, n, parent, child, addRunAfters, isAfterTrigger)
           children == [[w.children EXCEPT ![old] = @ \ {n}] EXCEPT ![new] = @ \cup {n}]
           edges == [left EXCEPT ![new] = inserted.edges]
           graphOf == [w.graphOf EXCEPT ![n] = new]
           placed == [children |-> children, edges |-> edges,
                      runAfter |-> inserted.runAfter, graphOf |-> graphOf, isRoot |-> roots]
           rooted == [ApplyIsRootNode(placed, n, new) EXCEPT !.runAfter[n] = Absent]
           res == MoveNodeInWorkflow(w, n, old, new, parent, child, x)
<1>1. res = w \/ res = placed \/ res = rooted
  BY DEF MoveNodeInWorkflow, WithGraphId
<1>2. n \in HasMetadata(w) /\ w.graphOf[n] = old /\ n \in Defined(w)
  BY DrawnHasMetadata, Ids DEF IsWellFormed, Agrees
<1>3. IsLinks(freed) /\ DOMAIN freed.runAfter = Defined(w)
  <2>1. w.edges[old] \subseteq Ends \X Ends
    BY StateHasParts
  <2>2. IsRunAfter(Absent)
    BY DEF IsRunAfter
  <2>3. IsRunAfterMap(freed.runAfter)
    <3> HIDE DEF heirs
    <3> QED BY <2>2, StateHasParts DEF IsRunAfterMap
  <2> QED BY <2>1, <2>3 DEF IsLinks
<1>4. IsLinks(detached) /\ DOMAIN detached.runAfter = Defined(w)
  <2> HIDE DEF freed
  <2> QED BY <1>3, DetachNodeIsLinks
<1>5. left \in [Graphs -> SUBSET (Ends \X Ends)]
  <2>1. detached.edges \in SUBSET (Ends \X Ends)
    BY <1>4 DEF IsLinks
  <2> HIDE DEF detached
  <2> QED BY <2>1, StateHasParts
<1>6. IsLinks(target) /\ DOMAIN target.runAfter = Defined(w)
  <2> HIDE DEF detached, left
  <2>1. left[new] \subseteq Ends \X Ends
    BY <1>5
  <2> QED BY <1>4, <2>1 DEF IsLinks
<1>7. IsLinks(inserted) /\ DOMAIN inserted.runAfter = Defined(w)
  <2> HIDE DEF target
  <2>1. \A m \in DOMAIN target.runAfter, p, c \in Ends, flag, isOld \in BOOLEAN :
          /\ IsLinks(InsertNode(target, m, p, c, flag, isOld))
          /\ DOMAIN InsertNode(target, m, p, c, flag, isOld).runAfter = DOMAIN target.runAfter
    BY <1>6, InsertNodeIsLinks
  <2>2. addRunAfters \in BOOLEAN /\ isAfterTrigger \in BOOLEAN
    OBVIOUS
  <2> HIDE DEF addRunAfters, isAfterTrigger
  <2> QED BY <1>2, <1>6, <2>1, <2>2
<1>8. IsState(placed)
  <2>1. children \in [Graphs -> SUBSET (Operations \cup {Placeholder})]
    BY StateHasParts
  <2>2. edges \in [Graphs -> SUBSET (Ends \X Ends)]
    <3> HIDE DEF left, inserted
    <3> QED BY <1>5, <1>7 DEF IsLinks
  <2>3. IsRunAfterMap(inserted.runAfter)
    BY <1>7 DEF IsLinks
  <2>4. graphOf \in [DOMAIN graphOf -> Graphs]
    BY StateHasParts
  <2>5. roots \in SUBSET (Operations \cup {Placeholder})
    <3> HIDE DEF heirs, isNewRoot
    <3> QED BY StateHasParts
  <2> HIDE DEF children, edges, inserted, graphOf, roots
  <2> QED BY <2>1, <2>2, <2>3, <2>4, <2>5, StateFromParts
<1>9. Agrees(placed)
  <2>1. Defined(placed) = Defined(w)
    <3> HIDE DEF inserted
    <3> QED BY <1>7 DEF Defined
  <2>2. HasMetadata(placed) = HasMetadata(w)
    BY StateHasParts DEF HasMetadata
  <2>3. ASSUME NEW h \in Graphs, NEW m \in children[h]
        PROVE  m \in HasMetadata(w) /\ graphOf[m] = h
    <3>1. CASE m = n
      <4>1. n \in w.children[h] => h = old
        BY <1>2, DrawnHasMetadata
      <4>2. h = new
        BY <3>1, <4>1, StateHasParts
      <4> QED BY <1>2, <3>1, <4>2, StateHasParts
    <3>2. CASE m # n
      <4>1. m \in w.children[h]
        BY <3>2, StateHasParts
      <4> QED BY <3>2, <4>1, DrawnHasMetadata, StateHasParts
    <3> QED BY <3>1, <3>2
  <2>4. placed.children = children /\ placed.graphOf = graphOf
    OBVIOUS
  <2>5. Placeholder \in HasMetadata(w) => graphOf[Placeholder] = Root
    BY Ids, StateHasParts DEF IsWellFormed, Agrees
  <2> HIDE DEF placed, children, graphOf
  <2> QED BY <2>1, <2>2, <2>3, <2>4, <2>5 DEF IsWellFormed, Agrees, NodeGraphId
<1>10. IsWellFormed(placed) /\ Defined(placed) = Defined(w)
  <2>1. Defined(placed) = Defined(w)
    <3> HIDE DEF inserted
    <3> QED BY <1>7 DEF Defined
  <2> HIDE DEF placed
  <2> QED BY <1>8, <1>9, <2>1 DEF IsWellFormed
<1>11. IsWellFormed(rooted) /\ Defined(rooted) = Defined(w)
  <2> HIDE DEF placed
  <2>1. /\ IsWellFormed(ApplyIsRootNode(placed, n, new))
        /\ n \in Defined(ApplyIsRootNode(placed, n, new))
        /\ Defined(ApplyIsRootNode(placed, n, new)) = Defined(w)
    BY <1>2, <1>10, ApplyIsRootNodeWellFormed
  <2>2. IsRunAfter(Absent)
    BY DEF IsRunAfter
  <2> QED BY <2>1, <2>2, SetRunAfterWellFormed
<1> HIDE DEF placed, rooted, res
<1>12. IsWellFormed(res) /\ Defined(res) = Defined(w)
  BY <1>1, <1>10, <1>11
<1> QED BY <1>12 DEF res

(* The neighbours a delete or a move looks up are ends of edges. *)
LEMMA NeighboursAreEnds ==
  ASSUME NEW w, IsWellFormed(w), NEW g \in Graphs, NEW n
  PROVE  /\ Neighbours(w, n, g) \subseteq Ends
         /\ OrNoNode(Sources(Links(w, g), n) \ Headings) \subseteq Ends
<1>1. w.edges[g] \subseteq Ends \X Ends
  BY StateHasParts
<1>2. Targets(Links(w, g), n) \subseteq Ends /\ Sources(Links(w, g), n) \subseteq Ends
  BY <1>1 DEF Targets, Sources, Links
<1> QED BY <1>2, Ids DEF Neighbours, OrNoNode

(* What the canvas offers to attach a node to. *)
LEMMA SitesAreSites ==
  ASSUME NEW w, IsWellFormed(w), NEW site \in Sites(w)
  PROVE  site.graph \in Graphs /\ site.parent \in Ends /\ site.child \in Ends
<1>1. PICK g \in Graphs : site \in EdgeSites(w, g) \cup LeafSites(w, g)
  BY DEF Sites
<1>2. w.edges[g] \subseteq Ends \X Ends /\ w.children[g] \subseteq Operations \cup {Placeholder}
  BY StateHasParts
<1>3. CASE site \in EdgeSites(w, g)
  <2>1. PICK e \in w.edges[g] :
          site \in {Site(g, e[1], e[2]), Site(g, e[1], NoNode), Site(g, NoNode, e[2])}
    BY <1>3 DEF EdgeSites, DrawnEdges
  <2>2. e[1] \in Ends /\ e[2] \in Ends
    BY <1>2
  <2> QED BY <2>1, <2>2, Ids DEF Site
<1>4. CASE site \in LeafSites(w, g)
  <2>1. PICK n \in Cards(w, g) : site = Site(g, n, NoNode)
    BY <1>4 DEF LeafSites
  <2>2. n \in Ends
    BY <1>2, Ids DEF Cards, Headings, Graphs, Ends
  <2> QED BY <2>1, <2>2, Ids DEF Site
<1> QED BY <1>1, <1>3, <1>4

(* A graph on the canvas is a graph. *)
LEMMA MetadataGraphOnCanvas ==
  ASSUME NEW w, IsWellFormed(w), NEW n, OnCanvas(w, NodeGraphId(w, n))
  PROVE  NodeGraphId(w, n) \in Graphs /\ n \in HasMetadata(w) /\ w.graphOf[n] = NodeGraphId(w, n)
<1>1. NodeGraphId(w, n) # NoNode
  BY Ids, StateHasParts DEF OnCanvas, Contents
<1> QED BY <1>1, StateHasParts DEF NodeGraphId

(* The state a definition is opened in. *)
LEMMA DeserializeWellFormed ==
  ASSUME NEW d \in Definitions
  PROVE  IsWellFormed(Deserialize(d))
<1> DEFINE actions == DOMAIN d.graphOf
           trigger == {d.trigger} \ {NoNode}
           In(g) == {a \in actions : d.graphOf[a] = g}
           Roots(g) == {a \in In(g) : Keys(d.runAfter[a]) = {}}
           After(g) == UNION {{<<p, a>> : p \in Keys(d.runAfter[a])} : a \in In(g)}
           Heads(g) == {IF g = Root THEN d.trigger ELSE Heading(g)}
           Flow(g) == (Heads(g) \X Roots(g)) \cup After(g)
           Leaves(g) == {n \in In(g) \cup Heads(g) : \A e \in Flow(g) : e[1] # n}
           Tail(g) == IF g \in Untils \cap actions THEN Leaves(g) \X {Footer(g)} ELSE {}
           present == {Root} \cup (Scopes \cap actions)
           children == [g \in Graphs |-> In(g) \cup (IF g = Root THEN trigger ELSE {})]
           edges == [g \in Graphs |-> IF g \in present THEN Flow(g) \cup Tail(g) ELSE {}]
           runAfter == [n \in actions \cup trigger |->
                          IF n \in trigger THEN Absent ELSE d.runAfter[n]]
           graphOf == [n \in actions \cup trigger |->
                         IF n \in trigger THEN Root ELSE d.graphOf[n]]
           isRoot == trigger \cup UNION {Roots(g) : g \in Scopes}
           new == [children |-> children, edges |-> edges, runAfter |-> runAfter,
                   graphOf |-> graphOf, isRoot |-> isRoot]
<1>1. Deserialize(d) = new
  BY DEF Deserialize
<1>2. /\ trigger \subseteq Triggers
      /\ d.trigger \in Ends
      /\ actions \subseteq Actions \cup Scopes
      /\ actions \subseteq Operations
      /\ \A a \in actions : d.graphOf[a] \in Graphs
      /\ \A a \in actions : Keys(d.runAfter[a]) \subseteq actions
      /\ actions \cap trigger = {}
  BY DefinitionsAreSound, IdsAreDistinct, Ids DEF Graphs
<1>3. \A a \in actions : IsRunAfter(d.runAfter[a])
  BY <1>2, DefinitionsAreSound, Ids DEF IsRunAfter
<1>4. \A g : In(g) \subseteq Operations /\ Roots(g) \subseteq Operations
  BY <1>2
<1>5. \A g : After(g) \subseteq Ends \X Ends
  BY <1>2, Ids
<1>6. \A g \in Graphs : Heads(g) \subseteq Ends
  BY <1>2 DEF Graphs, Ends, Headings
<1>7. \A g \in Graphs : Flow(g) \subseteq Ends \X Ends
  <2> HIDE DEF Heads, Roots, After
  <2> QED BY <1>4, <1>5, <1>6, Ids
<1>8. \A g \in Graphs : Tail(g) \subseteq Ends \X Ends
  <2> HIDE DEF Flow, Heads, In
  <2>1. \A g \in Graphs : Leaves(g) \subseteq Ends
    BY <1>4, <1>6, Ids
  <2>2. \A g \in Untils : Footer(g) \in Ends
    BY IdsAreDistinct DEF Ends, Footers
  <2> HIDE DEF Leaves
  <2> QED BY <2>1, <2>2
<1>9. IsState(new)
  <2>1. children \in [Graphs -> SUBSET (Operations \cup {Placeholder})]
    <3> HIDE DEF In, trigger
    <3> QED BY <1>2, <1>4, Ids
  <2>2. edges \in [Graphs -> SUBSET (Ends \X Ends)]
    <3> HIDE DEF Flow, Tail
    <3> QED BY <1>7, <1>8
  <2>3. IsRunAfterMap(runAfter)
    <3>1. IsRunAfter(Absent)
      BY DEF IsRunAfter
    <3> HIDE DEF actions, trigger
    <3> QED BY <1>2, <1>3, <3>1, Ids DEF IsRunAfterMap
  <2>4. graphOf \in [DOMAIN graphOf -> Graphs]
    <3> HIDE DEF actions, trigger
    <3> QED BY <1>2, Ids
  <2>5. isRoot \in SUBSET (Operations \cup {Placeholder})
    <3> HIDE DEF Roots, trigger
    <3> QED BY <1>2, <1>4, Ids
  <2> HIDE DEF children, edges, runAfter, graphOf, isRoot
  <2> QED BY <2>1, <2>2, <2>3, <2>4, <2>5, StateFromParts
<1>10. Agrees(new)
  <2>1. Defined(new) = actions \cup trigger /\ HasMetadata(new) = actions \cup trigger
    BY DEF Defined, HasMetadata
  <2>2. Placeholder \notin actions \cup trigger
    BY <1>2, Ids
  <2>3. ASSUME NEW g \in Graphs, NEW n \in children[g]
        PROVE  n \in actions \cup trigger /\ graphOf[n] = g
    <3>1. CASE n \in In(g)
      <4>1. n \in actions /\ d.graphOf[n] = g /\ n \notin trigger
        BY <1>2, <3>1
      <4> HIDE DEF actions, trigger
      <4> QED BY <4>1
    <3>2. CASE n \notin In(g)
      <4> HIDE DEF actions, trigger, In
      <4>1. g = Root /\ n \in trigger
        BY <3>2
      <4> QED BY <4>1
    <3> QED BY <3>1, <3>2
  <2>4. new.children = children /\ new.graphOf = graphOf
    OBVIOUS
  <2> HIDE DEF new, children, graphOf, actions, trigger
  <2> QED BY <2>1, <2>2, <2>3, <2>4 DEF Agrees, NodeGraphId
<1> HIDE DEF new
<1> QED BY <1>1, <1>9, <1>10 DEF IsWellFormed

-----------------------------------------------------------------------------
(* The inductive invariant: the type of the state and the agreement of its *)
(* two trees.  Neither is inductive alone: the roots a delete leaves are   *)
(* operations only because metadata is kept for operations alone, and a    *)
(* node taken from one graph is in no other only because the two agree.    *)
Inv == IsWellFormed(wf) /\ doomed \subseteq Operations

(* The designer opens in a well-formed state. *)
LEMMA InitInv == Init => Inv
BY DeserializeWellFormed DEF Init, Inv

(* deleteOperation keeps the state well formed, whatever graph the metadata *)
(* names, if it names one at all.                                          *)
LEMMA DeleteOperationInv ==
  ASSUME Inv, NEW n \in Operations, NEW g, NEW x \in Ends, DeleteOperation(n, g, x),
         OnCanvas(wf, g) => g \in Graphs /\ (n \in HasMetadata(wf) => wf.graphOf[n] = g)
  PROVE  IsWellFormed(wf')
<1>1. CASE OnCanvas(wf, g) /\ ~DetachThrows(wf, n, x)
  <2>1. wf' = DeleteNodeFromWorkflow(wf, n, g, x)
    BY <1>1 DEF DeleteOperation
  <2> QED BY <1>1, <2>1, DeleteNodeWellFormed DEF Inv
<1>2. CASE ~(OnCanvas(wf, g) /\ ~DetachThrows(wf, n, x))
  BY <1>2 DEF DeleteOperation, Inv
<1> QED BY <1>1, <1>2

(* The drop zones that remember anything are those the canvas offers:      *)
(* every edit that changes the workflow renders the canvas.                *)
IsRendered == zones \in [Sites(wf) -> SUBSET Scopes]

(* After every step the zones remembered are the zones offered.            *)
LEMMA NextRendered == IsRendered /\ [Next]_vars => IsRendered'
<1>1. CASE IsRendered /\ Render
  BY <1>1 DEF IsRendered, Render, GraphPath
<1>2. CASE IsRendered /\ UNCHANGED <<wf, zones>>
  BY <1>2 DEF IsRendered
<1>3. Next => Render \/ UNCHANGED <<wf, zones>>
  BY DEF Next, AddOperation, AddParallelBranch, AddTrigger, DeleteTrigger, DeleteAction,
         DeleteGraphNode, DeleteNext, DeleteNextOfGraph, MoveOperation, AddImplicitForeach,
         AddEdgeFromRunAfter, RemoveEdgeFromRunAfter, UpdateRunAfter
<1> QED BY <1>1, <1>2, <1>3 DEF vars

(* Every edit keeps the invariant. *)
LEMMA NextInv == Inv /\ IsRendered /\ [Next]_vars => Inv'
<1> SUFFICES ASSUME Inv, IsRendered, [Next]_vars PROVE Inv'
  OBVIOUS
<1> USE DEF Inv
<1>0. DOMAIN zones = Sites(wf)
  BY DEF IsRendered
<1>1. ASSUME NEW n \in Actions \cup Scopes, NEW site \in Sites(wf), AddOperation(n, site)
      PROVE  Inv'
  <2>1. /\ site.graph \in Graphs /\ site.parent \in Ends /\ site.child \in Ends
        /\ n \in Operations
    BY SitesAreSites, Ids
  <2>2. /\ wf' = AddNodeToWorkflow(wf, n, site.graph, site.parent, site.child, FALSE, FALSE)
        /\ n \notin Defined(wf) /\ doomed' = doomed
    BY <1>1 DEF AddOperation
  <2>3. \A p, t \in BOOLEAN : IsWellFormed(
          AddNodeToWorkflow(wf, n, site.graph, site.parent, site.child, p, t))
    BY <2>1, <2>2, AddNodeWellFormed
  <2> QED BY <2>2, <2>3
<1>2. ASSUME NEW n \in Actions \cup Scopes, NEW site \in Sites(wf), AddParallelBranch(n, site)
      PROVE  Inv'
  <2>1. /\ site.graph \in Graphs /\ site.parent \in Ends /\ NoNode \in Ends
        /\ n \in Operations
    BY SitesAreSites, Ids
  <2>2. /\ wf' = AddNodeToWorkflow(wf, n, site.graph, site.parent, NoNode, TRUE, FALSE)
        /\ n \notin Defined(wf) /\ doomed' = doomed
    BY <1>2 DEF AddParallelBranch
  <2>3. \A p, t \in BOOLEAN : IsWellFormed(
          AddNodeToWorkflow(wf, n, site.graph, site.parent, NoNode, p, t))
    BY <2>1, <2>2, AddNodeWellFormed
  <2> QED BY <2>2, <2>3
<1>3. ASSUME NEW t \in Triggers, AddTrigger(t)
      PROVE  Inv'
  <2> DEFINE w == WithoutPlaceholder(wf, t)
  <2>1. t \in Operations /\ Root \in Graphs /\ NoNode \in Ends
    BY Ids
  <2>2. IsWellFormed(w) /\ Defined(w) = Defined(wf)
    BY <2>1, WithoutPlaceholderWellFormed
  <2>3. /\ wf' = AddNodeToWorkflow(w, t, Root, NoNode, NoNode, FALSE, TRUE)
        /\ t \notin Defined(wf) /\ doomed' = doomed
    BY <1>3 DEF AddTrigger
  <2> HIDE DEF w
  <2>4. \A p, q \in BOOLEAN :
          IsWellFormed(AddNodeToWorkflow(w, t, Root, NoNode, NoNode, p, q))
    BY <2>1, <2>2, <2>3, AddNodeWellFormed
  <2> QED BY <2>3, <2>4
<1>4. ASSUME NEW t \in Triggers, DeleteTrigger(t)
      PROVE  Inv'
  BY <1>4, Ids, DeleteTriggerWellFormed DEF DeleteTrigger
<1>5. ASSUME NEW n \in Actions, DeleteAction(n)
      PROVE  Inv'
  <2>1. PICK g \in Graphs : HasCardIn(n, g) /\ \E x \in Neighbours(wf, n, g) : DeleteOperation(n, g, x)
    BY <1>5 DEF DeleteAction
  <2>2. PICK x \in Neighbours(wf, n, g) : DeleteOperation(n, g, x)
    BY <2>1
  <2>3. x \in Ends /\ n \in Operations
    BY NeighboursAreEnds, Ids
  <2>4. n \in HasMetadata(wf) /\ wf.graphOf[n] = g
    BY <2>1, DrawnHasMetadata DEF HasCardIn
  <2>5. IsWellFormed(wf')
    BY <2>2, <2>3, <2>4, DeleteOperationInv
  <2> QED BY <1>5, <2>5 DEF DeleteAction
<1>6. ASSUME NEW s \in Scopes, DeleteGraphNode(s)
      PROVE  Inv'
  BY <1>6 DEF DeleteGraphNode, Contents
<1>7. ASSUME NEW n \in Operations, DeleteNextOfGraph(n)
      PROVE  Inv'
  <2> DEFINE g == NodeGraphId(wf, n)
  <2>1. PICK x \in Neighbours(wf, n, g) : DeleteOperation(n, g, x)
    BY <1>7 DEF DeleteNextOfGraph
  <2>2. CASE OnCanvas(wf, g)
    <3>1. g \in Graphs /\ wf.graphOf[n] = g
      BY <2>2, MetadataGraphOnCanvas
    <3>2. x \in Ends
      BY <3>1, NeighboursAreEnds
    <3> HIDE DEF g
    <3>3. IsWellFormed(wf')
      BY <2>1, <3>1, <3>2, DeleteOperationInv
    <3> QED BY <1>7, <3>3 DEF DeleteNextOfGraph
  <2>3. CASE ~OnCanvas(wf, g)
    <3>1. wf' = wf
      BY <2>1, <2>3 DEF DeleteOperation
    <3> QED BY <1>7, <3>1 DEF DeleteNextOfGraph
  <2> QED BY <2>2, <2>3
<1>8. ASSUME NEW n \in Actions \cup Scopes, NEW site \in Sites(wf), MoveOperation(n, site)
      PROVE  Inv'
  <2>1. PICK g \in Graphs : HasCardIn(n, g) /\ \E x \in Neighbours(wf, n, g) :
          wf' = MoveNodeInWorkflow(wf, n, g, site.graph, site.parent, site.child, x)
    BY <1>8 DEF MoveOperation
  <2>2. PICK x \in Neighbours(wf, n, g) :
          wf' = MoveNodeInWorkflow(wf, n, g, site.graph, site.parent, site.child, x)
    BY <2>1
  <2>3. x \in Ends /\ n \in Operations /\ n \in wf.children[g]
    BY <2>1, NeighboursAreEnds, Ids DEF HasCardIn
  <2>4. site.graph \in Graphs /\ site.parent \in Ends /\ site.child \in Ends
    BY SitesAreSites
  <2>5. IsWellFormed(wf')
    BY <2>2, <2>3, <2>4, MoveNodeWellFormed
  <2> QED BY <1>8, <2>5 DEF MoveOperation
<1>9. ASSUME NEW n \in Actions, NEW s \in Scopes \ Untils, AddImplicitForeach(n, s)
      PROVE  Inv'
  <2>1. /\ s \notin Defined(wf) /\ doomed' = doomed
        /\ \E g \in Graphs :
             /\ HasCardIn(n, g)
             /\ \E p \in OrNoNode(Sources(Links(wf, g), n) \ Headings) :
                  LET w == AddNodeToWorkflow(wf, s, g, p, n, FALSE, FALSE)
                  IN  \E x \in Neighbours(w, n, g) :
                        wf' = IF DetachThrows(w, n, x) THEN wf
                              ELSE MoveNodeInWorkflow(w, n, g, s, Heading(s), NoNode, x)
    BY <1>9 DEF AddImplicitForeach
  <2>2. PICK g \in Graphs :
          /\ HasCardIn(n, g)
          /\ \E p \in OrNoNode(Sources(Links(wf, g), n) \ Headings) :
               LET w == AddNodeToWorkflow(wf, s, g, p, n, FALSE, FALSE)
               IN  \E x \in Neighbours(w, n, g) :
                     wf' = IF DetachThrows(w, n, x) THEN wf
                           ELSE MoveNodeInWorkflow(w, n, g, s, Heading(s), NoNode, x)
    BY <2>1
  <2>3. PICK p \in OrNoNode(Sources(Links(wf, g), n) \ Headings) :
          LET w == AddNodeToWorkflow(wf, s, g, p, n, FALSE, FALSE)
          IN  \E x \in Neighbours(w, n, g) :
                wf' = IF DetachThrows(w, n, x) THEN wf
                      ELSE MoveNodeInWorkflow(w, n, g, s, Heading(s), NoNode, x)
    BY <2>2
  <2> DEFINE w == AddNodeToWorkflow(wf, s, g, p, n, FALSE, FALSE)
  <2>4. PICK x \in Neighbours(w, n, g) :
          wf' = IF DetachThrows(w, n, x) THEN wf
                ELSE MoveNodeInWorkflow(w, n, g, s, Heading(s), NoNode, x)
    BY <2>3
  <2>5. /\ p \in Ends /\ n \in Ends /\ NoNode \in Ends /\ Heading(s) \in Ends
        /\ s \in Operations /\ n \in Operations /\ s \in Graphs
    BY NeighboursAreEnds, Ids DEF Ends, Headings, Graphs
  <2>6. IsWellFormed(w) /\ n \in w.children[g]
    <3>1. n \in wf.children[g]
      BY <2>2 DEF HasCardIn
    <3>2. \A q, r \in BOOLEAN :
            /\ IsWellFormed(AddNodeToWorkflow(wf, s, g, p, n, q, r))
            /\ wf.children[g] \subseteq AddNodeToWorkflow(wf, s, g, p, n, q, r).children[g]
      BY <2>1, <2>5, AddNodeWellFormed
    <3> QED BY <3>1, <3>2
  <2> HIDE DEF w
  <2>7. x \in Ends
    BY <2>6, NeighboursAreEnds
  <2>8. IsWellFormed(MoveNodeInWorkflow(w, n, g, s, Heading(s), NoNode, x))
    BY <2>5, <2>6, <2>7, MoveNodeWellFormed
  <2> QED BY <2>1, <2>4, <2>8
<1>10. ASSUME NEW n \in Operations, NEW p \in Operations, AddEdgeFromRunAfter(n, p)
       PROVE  Inv'
  <2>1. PICK g \in Graphs : wf' = WithLinks(wf, g, AddNewEdge(Links(wf, g), p, n, TRUE))
    BY <1>10 DEF AddEdgeFromRunAfter
  <2>2. IsLinks(Links(wf, g)) /\ DOMAIN Links(wf, g).runAfter = Defined(wf)
    BY StateHasLinks DEF IsWellFormed
  <2>3. p \in Ends /\ n \in Ends
    BY Ids
  <2>4. /\ IsLinks(AddNewEdge(Links(wf, g), p, n, TRUE))
        /\ DOMAIN AddNewEdge(Links(wf, g), p, n, TRUE).runAfter = Defined(wf)
    BY <2>2, <2>3, AddNewEdgeIsLinks
  <2> QED BY <1>10, <2>1, <2>4, WithLinksWellFormed DEF AddEdgeFromRunAfter
<1>11. ASSUME NEW n \in Operations, NEW p \in Operations, RemoveEdgeFromRunAfter(n, p)
       PROVE  Inv'
  <2>1. PICK g \in Graphs : wf' = WithLinks(wf, g, RemoveEdge(Links(wf, g), p, n))
    BY <1>11 DEF RemoveEdgeFromRunAfter
  <2>2. IsLinks(Links(wf, g)) /\ DOMAIN Links(wf, g).runAfter = Defined(wf)
    BY StateHasLinks DEF IsWellFormed
  <2>3. /\ IsLinks(RemoveEdge(Links(wf, g), p, n))
        /\ DOMAIN RemoveEdge(Links(wf, g), p, n).runAfter = Defined(wf)
    BY <2>2, RemoveEdgeIsLinks
  <2> QED BY <1>11, <2>1, <2>3, WithLinksWellFormed DEF RemoveEdgeFromRunAfter
<1>12. ASSUME NEW n \in Operations, NEW p \in Ends, NEW status \in {Succeeded, Custom},
              UpdateRunAfter(n, p, status)
       PROVE  Inv'
  <2>1. n \in Defined(wf) /\ wf' = [wf EXCEPT !.runAfter[n] = WithKey(wf.runAfter[n], p, status)]
    BY <1>12 DEF UpdateRunAfter, HasRunAfterSection
  <2>2. IsRunAfter(WithKey(wf.runAfter[n], p, status))
    BY <2>1, StateHasParts, WithKeyIsRunAfter DEF IsRunAfterMap, Status
  <2>3. IsWellFormed(wf')
    BY <2>1, <2>2, SetRunAfterWellFormed
  <2> QED BY <1>12, <2>3 DEF UpdateRunAfter
<1>13. CASE UNCHANGED vars
  BY <1>13 DEF vars
<1> QED BY <1>0, <1>1, <1>2, <1>3, <1>4, <1>5, <1>6, <1>7, <1>8, <1>9, <1>10, <1>11, <1>12, <1>13
       DEF Next, DeleteNext

(* The invariant holds in every behaviour. *)
LEMMA Invariant == Spec => [](Inv /\ IsRendered)
<1>1. Init => IsRendered
  BY DEF Init, IsRendered, GraphPath
<1> QED BY <1>1, InitInv, NextInv, NextRendered, PTL DEF Spec

(* The state always has its type: operations and metadata are kept only    *)
(* for operations (and the placeholder), every run-after value is a status,*)
(* a running delete holds operations, and exactly the drop zones on the    *)
(* canvas remember the scopes around them.                                 *)
THEOREM TypeCorrect == Spec => []TypeOK
<1>1. Inv /\ IsRendered => TypeOK
  BY DEF Inv, IsRendered, IsWellFormed, TypeOK
<1> QED BY <1>1, Invariant, PTL

(* The two copies of the graph tree always agree, whatever is added,       *)
(* deleted, moved, nested or wrapped in a foreach, in whatever order.      *)
THEOREM GraphsAgree == Spec => []GraphsAgreeWithMetadata
<1>1. Inv => GraphsAgreeWithMetadata
  BY DEF Inv, IsWellFormed, Agrees, GraphsAgreeWithMetadata
<1> QED BY <1>1, Invariant, PTL
=============================================================================
