----------------------- MODULE OperationDetailsProofs -----------------------
(***************************************************************************)
(* Proofs about OperationDetails, for every set of ids, every definition   *)
(* and any number of loads: fetching details never disturbs the graph, and *)
(* what is kept of operations is kept of those of the workflow only.       *)
(***************************************************************************)
EXTENDS OperationDetails, WorkflowGraphProofs

-----------------------------------------------------------------------------
(* The graph under its details.                                            *)

(* Every step is an edit of WorkflowGraph or leaves the graph alone.       *)
LEMMA StepIsEdit == [DetailsNext]_allVars => [Next]_vars
<1> SUFFICES ASSUME [DetailsNext]_allVars PROVE [Next]_vars
  OBVIOUS
<1>1. CASE \E missing \in SUBSET Unreachable : OpenDetails(missing)
  BY <1>1 DEF OpenDetails, vars
<1>2. CASE OpenConnections
  BY <1>2 DEF OpenConnections, vars
<1>3. ASSUME NEW n \in Actions, NEW site \in DOMAIN zones, NEW kind \in Kinds, NEW l \in Loads,
             AddWithDetails(n, site, kind, l) \/ AddParallelWithDetails(n, site, kind, l)
      PROVE  Next
  BY <1>3 DEF AddWithDetails, AddParallelWithDetails, Next
<1>4. ASSUME NEW n \in Triggers, NEW kind \in Kinds, NEW l \in Loads,
             AddTriggerWithDetails(n, kind, l)
      PROVE  Next
  BY <1>4 DEF AddTriggerWithDetails, Next
<1>5. CASE \E l \in Loads : ManifestArrives(l)
  BY <1>5 DEF ManifestArrives, vars
<1>6. CASE \E l \in Loads, reference \in {Connection, NoConnection} :
             ConnectionsArrive(l, reference)
  BY <1>6 DEF ConnectionsArrive, vars
<1>7. CASE \E l \in Loads : LoadEnds(l) \/ FetchFails(l)
  BY <1>7 DEF LoadEnds, FetchFails, vars
<1>8. CASE \E n \in Actions : DeleteActionWithDetails(n)
  BY <1>8 DEF DeleteActionWithDetails, Next
<1>9. CASE \E n \in Triggers : DeleteTriggerWithDetails(n)
  BY <1>9 DEF DeleteTriggerWithDetails, Next
<1>10. CASE \E n \in Actions, site \in DOMAIN zones : MoveWithDetails(n, site)
  BY <1>10 DEF MoveWithDetails, Next
<1>11. CASE ClickCard
  BY <1>11 DEF ClickCard, vars
<1>12. CASE UNCHANGED allVars
  BY <1>12 DEF allVars, vars
<1> QED BY <1>1, <1>2, <1>3, <1>4, <1>5, <1>6, <1>7, <1>8, <1>9, <1>10, <1>11, <1>12
        DEF DetailsNext

(* So the graph is sound throughout, whatever arrives and when.            *)
LEMMA GraphInvariant == DetailsSpec => [](Inv /\ IsRendered)
<1>1. DetailsInit => Inv /\ IsRendered
  BY InitInv DEF DetailsInit, Init, IsRendered, GraphPath
<1>2. Inv /\ IsRendered /\ [DetailsNext]_allVars => (Inv /\ IsRendered)'
  BY StepIsEdit, NextInv, NextRendered
<1> QED BY <1>1, <1>2, PTL DEF DetailsSpec

(* An edit defines the operation it adds, and no other.                    *)
LEMMA AddDefines ==
  ASSUME Inv, IsRendered, NEW n \in Actions, NEW site \in DOMAIN zones,
         AddOperation(n, site) \/ AddParallelBranch(n, site)
  PROVE  Defined(wf') = Defined(wf) \cup {n}
<1>1. site \in Sites(wf)
  BY DEF IsRendered
<1>2. /\ site.graph \in Graphs /\ site.parent \in Ends /\ site.child \in Ends
      /\ NoNode \in Ends /\ n \in Operations
  BY <1>1, SitesAreSites, Ids DEF Inv
<1>3. n \notin Defined(wf)
  BY DEF AddOperation, AddParallelBranch
<1>4. \A p, q \in BOOLEAN, child \in Ends :
        Defined(AddNodeToWorkflow(wf, n, site.graph, site.parent, child, p, q))
          = Defined(wf) \cup {n}
  BY <1>2, <1>3, AddNodeWellFormed DEF Inv
<1> QED BY <1>2, <1>4 DEF AddOperation, AddParallelBranch

(* Adding a trigger defines it and nothing else.                           *)
LEMMA AddTriggerDefines ==
  ASSUME Inv, NEW t \in Triggers, AddTrigger(t)
  PROVE  Defined(wf') = Defined(wf) \cup {t}
<1> DEFINE w == WithoutPlaceholder(wf, t)
<1>1. t \in Operations /\ Root \in Graphs /\ NoNode \in Ends
  BY Ids
<1>2. IsWellFormed(w) /\ Defined(w) = Defined(wf)
  BY <1>1, WithoutPlaceholderWellFormed DEF Inv
<1>3. wf' = AddNodeToWorkflow(w, t, Root, NoNode, NoNode, FALSE, TRUE) /\ t \notin Defined(wf)
  BY DEF AddTrigger
<1> HIDE DEF w
<1>4. \A p, q \in BOOLEAN :
        Defined(AddNodeToWorkflow(w, t, Root, NoNode, NoNode, p, q)) = Defined(w) \cup {t}
  BY <1>1, <1>2, <1>3, AddNodeWellFormed
<1> QED BY <1>2, <1>3, <1>4

(* A delete takes away the one operation it deletes, or is rejected.       *)
LEMMA DeleteUndefines ==
  ASSUME Inv, NEW n \in Actions, DeleteAction(n)
  PROVE  wf' = wf \/ Defined(wf') = Defined(wf) \ {n}
<1>1. PICK g \in Graphs : HasCardIn(n, g) /\ \E x \in Neighbours(wf, n, g) : DeleteOperation(n, g, x)
  BY DEF DeleteAction
<1>2. PICK x \in Neighbours(wf, n, g) : DeleteOperation(n, g, x)
  BY <1>1
<1>3. x \in Ends /\ n \in Operations
  BY NeighboursAreEnds, Ids DEF Inv
<1>4. n \in HasMetadata(wf) /\ wf.graphOf[n] = g
  BY <1>1, DrawnHasMetadata DEF HasCardIn, Inv
<1>5. Defined(DeleteNodeFromWorkflow(wf, n, g, x)) = Defined(wf) \ {n}
  BY <1>3, <1>4, DeleteNodeWellFormed DEF Inv
<1> QED BY <1>2, <1>5 DEF DeleteOperation

(* Deleting a trigger leaves it undefined and nothing else.                *)
LEMMA DeleteTriggerUndefines ==
  ASSUME Inv, NEW t \in Triggers, DeleteTrigger(t)
  PROVE  Defined(wf') = Defined(wf) \ {t}
BY Ids, DeleteTriggerWellFormed DEF DeleteTrigger, Inv

(* A move neither adds nor takes away an operation.                        *)
LEMMA MoveDefines ==
  ASSUME Inv, IsRendered, NEW n \in Actions, NEW site \in DOMAIN zones, MoveOperation(n, site)
  PROVE  Defined(wf') = Defined(wf)
<1>1. PICK g \in Graphs : HasCardIn(n, g) /\ \E x \in Neighbours(wf, n, g) :
        wf' = MoveNodeInWorkflow(wf, n, g, site.graph, site.parent, site.child, x)
  BY DEF MoveOperation
<1>2. PICK x \in Neighbours(wf, n, g) :
        wf' = MoveNodeInWorkflow(wf, n, g, site.graph, site.parent, site.child, x)
  BY <1>1
<1>3. x \in Ends /\ n \in Operations /\ n \in wf.children[g]
  BY <1>1, NeighboursAreEnds, Ids DEF HasCardIn, Inv
<1>4. site.graph \in Graphs /\ site.parent \in Ends /\ site.child \in Ends
  BY SitesAreSites DEF IsRendered, Inv
<1> QED BY <1>2, <1>3, <1>4, MoveNodeWellFormed DEF Inv
-----------------------------------------------------------------------------
(* The invariant: what is known while something is on its way.             *)

(* What is stored under n is of an operation of this kind.                 *)
HasData(n, kind) ==
  /\ n \in DOMAIN data /\ data[n] = kind
  /\ n \in DOMAIN settings /\ settings[n] = kind
  /\ n \in DOMAIN tokens /\ tokens[n].of = kind

IsLoad(load) ==
  /\ load = [node |-> load.node, kind |-> load.kind, waitsFor |-> load.waitsFor,
             upstream |-> load.upstream]
  /\ load.waitsFor \in {"manifest", "connections", "finish"}

RunsFor(l, n) == IsRunning(l) /\ loads[l].node = n

(* A load runs for an operation there is, and only one does, or for one    *)
(* that was deleted meanwhile.                                             *)
LoadsInv ==
  /\ loads = [l \in Loads |-> loads[l]]
  /\ \A l \in Loads : IsRunning(l) =>
       IsLoad(loads[l]) /\ loads[l].node \in Defined(wf) \cup outlived
  /\ \A l, m \in Loads :
       IsRunning(l) /\ IsRunning(m) /\ l # m /\ loads[l].node = loads[m].node =>
         loads[l].node \in outlived

(* While a definition is being opened nothing is added or deleted.         *)
OpeningInv ==
  /\ opening.waitsFor \in {"details", "connections", "nothing"}
  /\ opening.waitsFor # "nothing" =>
       /\ opening = [waitsFor |-> opening.waitsFor, workflow |-> opening.workflow]
       /\ Defined(opening.workflow) = Defined(wf)
       /\ \A l \in Loads : ~IsRunning(l)
  /\ opening.waitsFor = "connections" =>
       \A n \in Defined(wf) \ failed :
         n \in DOMAIN info /\ info[n] = OpenedKind /\ HasData(n, OpenedKind)

(* Nothing is kept but of operations there are, or that died in a load.    *)
KeptInv ==
  DOMAIN data \cup DOMAIN settings \cup DOMAIN mapping \cup DOMAIN info
    \subseteq Defined(wf) \cup outlived

TokensInv ==
  \A n \in DOMAIN tokens : tokens[n] = [of |-> tokens[n].of, upstream |-> tokens[n].upstream]

(* How far the load of an operation has come shows in what is stored.      *)
Progress(n, load) ==
  /\ info[n] = load.kind
  /\ load.waitsFor = "manifest" => n \notin DOMAIN mapping
  /\ load.waitsFor \in {"connections", "finish"} =>
       /\ HasData(n, load.kind) /\ load.kind \in NeedConnection
       /\ n \in DOMAIN mapping <=> load.waitsFor = "finish"

CoherentInv ==
  opening.waitsFor = "nothing" =>
    \A n \in Defined(wf) \ (failed \cup outlived) :
      /\ n \in DOMAIN info
      /\ \A l \in Loads : RunsFor(l, n) => Progress(n, loads[l])
      /\ (\A l \in Loads : ~RunsFor(l, n)) =>
           HasData(n, info[n]) /\ (n \in DOMAIN mapping <=> info[n] \in NeedConnection)

(* Without rejections, an operation that has no tokens is about to get     *)
(* some, and a panel that shows the loading tab has a load to wait for.    *)
PanelInv ==
  failed = {} =>
    /\ tab = "loading" => \E l \in Loads : IsRunning(l)
    /\ opening.waitsFor # "details" =>
         \A n \in Defined(wf) :
           n \in DOMAIN tokens
             \/ \E l \in Loads : RunsFor(l, n) /\ loads[l].waitsFor = "manifest"

DetailsInv == LoadsInv /\ OpeningInv /\ KeptInv /\ TokensInv /\ CoherentInv /\ PanelInv

(* The designer starts with nothing kept and nothing on its way.           *)
LEMMA DetailsInitInv == DetailsInit => DetailsInv
<1> SUFFICES ASSUME DetailsInit PROVE DetailsInv
  OBVIOUS
<1>1. \A l \in Loads : ~IsRunning(l)
  BY DEF DetailsInit, IsRunning, NotStarted
<1>2. /\ DOMAIN info = {} /\ DOMAIN data = {} /\ DOMAIN settings = {} /\ DOMAIN mapping = {}
      /\ DOMAIN tokens = {}
  BY DEF DetailsInit, NoDetails
<1>3. opening = [waitsFor |-> "details", workflow |-> wf] /\ tab = "default"
  BY DEF DetailsInit
<1>4. loads = [l \in Loads |-> loads[l]]
  BY DEF DetailsInit
<1> QED BY <1>1, <1>2, <1>3, <1>4
        DEF DetailsInv, LoadsInv, OpeningInv, KeptInv, TokensInv, CoherentInv, PanelInv

(* updateAllUpstreamNodes changes upstreamNodeIds only.                    *)
LEMMA UpdateKeepsKinds ==
  ASSUME NEW w, NEW tk,
         \A n \in DOMAIN tk : tk[n] = [of |-> tk[n].of, upstream |-> tk[n].upstream]
  PROVE  LET new == UpdateAllUpstreamNodes(w, tk)
         IN  /\ DOMAIN new = DOMAIN tk
             /\ \A n \in DOMAIN tk :
                  new[n].of = tk[n].of /\ new[n] = [of |-> new[n].of, upstream |-> new[n].upstream]
<1>1. CASE UpdateThrows(w, tk)
  BY <1>1 DEF UpdateAllUpstreamNodes
<1>2. CASE ~UpdateThrows(w, tk)
  <2>1. UpdateAllUpstreamNodes(w, tk) =
          [n \in DOMAIN tk |-> IF n \in Updated(w)
                               THEN [tk[n] EXCEPT !.upstream = TokenNodeIds(w, n, {})]
                               ELSE tk[n]]
    BY <1>2 DEF UpdateAllUpstreamNodes
  <2>2. \A n \in DOMAIN tk :
          [tk[n] EXCEPT !.upstream = TokenNodeIds(w, n, {})]
            = [of |-> tk[n].of, upstream |-> TokenNodeIds(w, n, {})]
    OBVIOUS
  <2> QED BY <2>1, <2>2
<1> QED BY <1>1, <1>2

-----------------------------------------------------------------------------
(* Every step keeps the invariant.                                         *)

(* The end of a load, whatever tk and data' are, when they hold what was   *)
(* there before, and the details of the operation of the load.             *)
LEMMA FinishKeepsInv ==
  ASSUME DetailsInv, NEW l \in Loads, IsRunning(l), NEW tk, FinishLoad(l, tk),
         UNCHANGED <<wf, info, mapping, opening, failed, outlived>>,
         \A n \in DOMAIN tk : tk[n] = [of |-> tk[n].of, upstream |-> tk[n].upstream],
         DOMAIN data' \subseteq DOMAIN data \cup {loads[l].node},
         \A n \in DOMAIN data \ {loads[l].node} : n \in DOMAIN data' /\ data'[n] = data[n],
         \A n \in DOMAIN tokens \ {loads[l].node} : n \in DOMAIN tk /\ tk[n].of = tokens[n].of,
         loads[l].node \in Defined(wf) \ (failed \cup outlived) =>
           /\ loads[l].node \in DOMAIN data' /\ data'[loads[l].node] = loads[l].kind
           /\ loads[l].node \in DOMAIN tk /\ tk[loads[l].node].of = loads[l].kind
           /\ loads[l].node \in DOMAIN mapping <=> loads[l].kind \in NeedConnection,
         failed = {} =>
           \A n \in Defined(wf) :
             n \in DOMAIN tk
               \/ \E m \in Loads \ {l} : RunsFor(m, n) /\ loads[m].waitsFor = "manifest"
  PROVE  DetailsInv'
<1> DEFINE node == loads[l].node
           kind == loads[l].kind
<1>1. /\ loads' = [loads EXCEPT ![l] = Ended]
      /\ settings' = With(settings, node, kind)
      /\ tokens' = UpdateAllUpstreamNodes(wf, tk)
      /\ tab' = IF UpdateThrows(wf, tk) THEN tab ELSE "default"
  BY DEF FinishLoad
<1>2. /\ DOMAIN tokens' = DOMAIN tk
      /\ \A n \in DOMAIN tk : tokens'[n].of = tk[n].of
      /\ TokensInv'
  <2> DEFINE new == UpdateAllUpstreamNodes(wf, tk)
  <2>1. /\ DOMAIN new = DOMAIN tk
        /\ \A n \in DOMAIN tk :
             new[n].of = tk[n].of /\ new[n] = [of |-> new[n].of, upstream |-> new[n].upstream]
    BY UpdateKeepsKinds
  <2> HIDE DEF new
  <2>2. tokens' = new
    BY <1>1 DEF new
  <2> QED BY <2>1, <2>2 DEF TokensInv
<1>3. /\ \A m \in Loads \ {l} : loads'[m] = loads[m] /\ (IsRunning(m)' <=> IsRunning(m))
      /\ ~IsRunning(l)'
      /\ \A m \in Loads \ {l} : \A n : RunsFor(m, n)' <=> RunsFor(m, n)
      /\ \A n : ~RunsFor(l, n)'
  BY <1>1 DEF DetailsInv, LoadsInv, IsRunning, RunsFor, Ended
<1>4. opening.waitsFor = "nothing"
  BY DEF DetailsInv, OpeningInv
<1>5. /\ DOMAIN settings' = DOMAIN settings \cup {node}
      /\ settings'[node] = kind
      /\ \A n \in DOMAIN settings \ {node} : settings'[n] = settings[n]
  BY <1>1 DEF With
<1>6. LoadsInv'
  <2>1. loads' = [m \in Loads |-> loads'[m]]
    BY <1>1 DEF DetailsInv, LoadsInv
  <2> QED BY <1>3, <2>1 DEF DetailsInv, LoadsInv
<1>7. OpeningInv'
  BY <1>4 DEF OpeningInv
<1>8. KeptInv'
  BY <1>5 DEF DetailsInv, KeptInv, LoadsInv
<1>9. CoherentInv'
  <2> SUFFICES ASSUME NEW n \in Defined(wf) \ (failed \cup outlived)
               PROVE  /\ n \in DOMAIN info
                      /\ \A m \in Loads : RunsFor(m, n)' => Progress(n, loads[m])'
                      /\ (\A m \in Loads : ~RunsFor(m, n)') =>
                           /\ HasData(n, info[n])'
                           /\ n \in DOMAIN mapping <=> info[n] \in NeedConnection
    BY DEF CoherentInv
  <2>1. /\ n \in DOMAIN info
        /\ \A m \in Loads : RunsFor(m, n) => Progress(n, loads[m])
        /\ (\A m \in Loads : ~RunsFor(m, n)) =>
             HasData(n, info[n]) /\ (n \in DOMAIN mapping <=> info[n] \in NeedConnection)
    BY <1>4 DEF DetailsInv, CoherentInv
  <2>2. CASE n = node
    <3>1. \A m \in Loads : ~RunsFor(m, n)'
      BY <1>3, <2>2 DEF DetailsInv, LoadsInv, RunsFor
    <3>2. info[n] = kind
      BY <2>1, <2>2 DEF RunsFor, Progress
    <3> QED BY <1>2, <1>5, <2>1, <2>2, <3>1, <3>2 DEF HasData
  <2>3. CASE n # node
    <3>1. ~RunsFor(l, n)
      BY <2>3 DEF RunsFor
    <3>2. \A k : HasData(n, k) => HasData(n, k)'
      BY <1>2, <1>5, <2>3 DEF HasData
    <3> QED BY <1>3, <2>1, <3>1, <3>2 DEF Progress
  <2> QED BY <2>2, <2>3
<1>10. PanelInv'
  <2> SUFFICES ASSUME failed = {}
               PROVE  /\ tab' = "loading" => \E m \in Loads : IsRunning(m)'
                      /\ \A n \in Defined(wf) :
                           n \in DOMAIN tokens'
                             \/ \E m \in Loads : RunsFor(m, n)' /\ loads'[m].waitsFor = "manifest"
    BY DEF PanelInv
  <2>1. \A n \in Defined(wf) :
          n \in DOMAIN tk
            \/ \E m \in Loads : RunsFor(m, n)' /\ loads'[m].waitsFor = "manifest"
    BY <1>3
  <2>2. tab' = "loading" => \E m \in Loads : IsRunning(m)'
    <3>1. UpdateThrows(wf, tk) => \E n \in Defined(wf) : n \notin DOMAIN tk
      BY DEF UpdateThrows, Updated
    <3> QED BY <1>1, <2>1, <3>1 DEF RunsFor
  <2> QED BY <1>2, <2>1, <2>2
<1> QED BY <1>2, <1>6, <1>7, <1>8, <1>9, <1>10 DEF DetailsInv

(* The details of a definition arrive.                                     *)
LEMMA OpenDetailsKeepsInv ==
  ASSUME DetailsInv, NEW missing \in SUBSET Unreachable, OpenDetails(missing)
  PROVE  DetailsInv'
<1> DEFINE there == Defined(wf) \ missing
<1>1. /\ opening.waitsFor = "details" /\ Defined(opening.workflow) = Defined(wf)
      /\ \A l \in Loads : ~IsRunning(l)
      /\ opening = [waitsFor |-> opening.waitsFor, workflow |-> opening.workflow]
  BY DEF OpenDetails, DetailsInv, OpeningInv
<1>2. /\ opening' = [opening EXCEPT !.waitsFor = "connections"]
      /\ DOMAIN info' = DOMAIN info \cup there /\ \A n \in there : info'[n] = OpenedKind
      /\ DOMAIN data' = DOMAIN data \cup there /\ \A n \in there : data'[n] = OpenedKind
      /\ DOMAIN settings' = DOMAIN settings \cup there /\ \A n \in there : settings'[n] = OpenedKind
      /\ failed' = failed \cup missing
      /\ UNCHANGED <<wf, mapping, loads, tab, outlived>>
  BY <1>1 DEF OpenDetails
<1>3. /\ DOMAIN tokens' = DOMAIN tokens \cup Defined(wf)
      /\ \A n \in there : tokens'[n].of = OpenedKind
      /\ TokensInv'
  <2>1. tokens' = [n \in DOMAIN tokens \cup Defined(wf) |->
                     IF n \in Defined(wf)
                     THEN [of |-> IF n \in missing THEN NoKind ELSE OpenedKind,
                           upstream |-> TokenNodeIds(opening.workflow, n, there)]
                     ELSE tokens[n]]
    BY <1>1 DEF OpenDetails
  <2> QED BY <2>1 DEF DetailsInv, TokensInv
<1>4. opening'.waitsFor = "connections" /\ opening'.workflow = opening.workflow
      /\ opening' = [waitsFor |-> opening'.waitsFor, workflow |-> opening'.workflow]
  BY <1>1, <1>2
<1>5. \A l \in Loads : ~IsRunning(l)'
  BY <1>1, <1>2 DEF IsRunning
<1>6. LoadsInv'
  BY <1>2, <1>5 DEF DetailsInv, LoadsInv
<1>7. OpeningInv'
  BY <1>1, <1>2, <1>3, <1>4, <1>5 DEF OpeningInv, HasData
<1>8. KeptInv'
  BY <1>2 DEF DetailsInv, KeptInv
<1>9. CoherentInv'
  BY <1>4 DEF CoherentInv
<1>10. PanelInv'
  <2>1. failed' = {} => failed = {}
    BY <1>2
  <2>2. \A n \in Defined(wf') : n \in DOMAIN tokens'
    BY <1>2, <1>3
  <2>3. failed = {} => tab' # "loading"
    BY <1>1, <1>2 DEF DetailsInv, PanelInv
  <2> QED BY <2>1, <2>2, <2>3 DEF PanelInv
<1> QED BY <1>3, <1>6, <1>7, <1>8, <1>9, <1>10 DEF DetailsInv

(* The connections of a definition arrive.                                 *)
LEMMA OpenConnectionsKeepsInv ==
  ASSUME DetailsInv, OpenConnections
  PROVE  DetailsInv'
<1>1. /\ opening.waitsFor = "connections" /\ Defined(opening.workflow) = Defined(wf)
      /\ \A l \in Loads : ~IsRunning(l)
      /\ \A n \in Defined(wf) \ failed :
           n \in DOMAIN info /\ info[n] = OpenedKind /\ HasData(n, OpenedKind)
  BY DEF OpenConnections, DetailsInv, OpeningInv
<1>2. /\ DOMAIN mapping' = {m \in Defined(wf) \cap DOMAIN info : OpenedKind \in NeedConnection}
      /\ opening'.waitsFor = "nothing"
      /\ UNCHANGED <<wf, info, data, settings, tokens, loads, tab, failed, outlived>>
  BY <1>1 DEF OpenConnections, Ended
<1>3. /\ \A l \in Loads : ~IsRunning(l)'
      /\ \A l \in Loads : \A n : ~RunsFor(l, n)' /\ ~RunsFor(l, n)
  BY <1>1, <1>2 DEF IsRunning, RunsFor
<1>4. LoadsInv'
  BY <1>2, <1>3 DEF DetailsInv, LoadsInv
<1>5. OpeningInv'
  BY <1>2 DEF OpeningInv
<1>6. KeptInv' /\ TokensInv'
  BY <1>2 DEF DetailsInv, KeptInv, TokensInv
<1>7. CoherentInv'
  BY <1>1, <1>2, <1>3 DEF CoherentInv, HasData
<1>8. PanelInv'
  BY <1>1, <1>2, <1>3 DEF DetailsInv, PanelInv
<1> QED BY <1>4, <1>5, <1>6, <1>7, <1>8 DEF DetailsInv

(* A load starts for an operation that has just been added.                *)
LEMMA StartLoadKeepsInv ==
  ASSUME DetailsInv, opening.waitsFor = "nothing",
         NEW n, n \notin Defined(wf), Defined(wf') = Defined(wf) \cup {n},
         NEW kind, NEW l \in Loads, loads[l] = NotStarted, StartLoad(n, kind, l)
  PROVE  DetailsInv'
<1> DEFINE load == [node |-> n, kind |-> kind, waitsFor |-> "manifest",
                    upstream |-> TokenNodeIds(wf', n, {n})]
<1>1. /\ loads' = [loads EXCEPT ![l] = load] /\ loads[l] = NotStarted
      /\ info' = With(info, n, kind) /\ tab' = "loading"
      /\ UNCHANGED <<data, settings, tokens, mapping, opening, failed, outlived>>
  BY DEF StartLoad
<1>2. /\ load.node = n /\ load.kind = kind /\ load.waitsFor = "manifest" /\ IsLoad(load)
  BY DEF IsLoad
<1> HIDE DEF load
<1>3. /\ loads' = [m \in Loads |-> loads'[m]]
      /\ loads'[l] = load
      /\ \A m \in Loads \ {l} : loads'[m] = loads[m]
  BY <1>1 DEF DetailsInv, LoadsInv
<1>4. /\ ~IsRunning(l) /\ IsRunning(l)' /\ RunsFor(l, n)'
      /\ \A m \in Loads \ {l} : IsRunning(m)' <=> IsRunning(m)
      /\ \A m \in Loads \ {l} : \A k : RunsFor(m, k)' <=> RunsFor(m, k)
      /\ \A k : ~RunsFor(l, k) /\ (RunsFor(l, k)' => k = n)
  BY <1>1, <1>2, <1>3 DEF IsRunning, RunsFor, NotStarted
<1>5. /\ DOMAIN info' = DOMAIN info \cup {n} /\ info'[n] = kind
      /\ \A k \in DOMAIN info \ {n} : info'[k] = info[k]
  BY <1>1 DEF With
<1>6. \A m \in Loads : RunsFor(m, n) => n \in outlived
  BY DEF DetailsInv, LoadsInv, RunsFor
<1>7. LoadsInv'
  <2>1. \A m \in Loads : IsRunning(m)' =>
          IsLoad(loads'[m]) /\ loads'[m].node \in Defined(wf') \cup outlived'
    BY <1>1, <1>2, <1>3, <1>4 DEF DetailsInv, LoadsInv
  <2>2. ASSUME NEW m \in Loads, NEW k \in Loads, IsRunning(m)', IsRunning(k)', m # k,
               loads'[m].node = loads'[k].node
        PROVE  loads'[m].node \in outlived'
    <3>1. CASE m # l /\ k # l
      BY <1>1, <1>3, <1>4, <2>2, <3>1 DEF DetailsInv, LoadsInv
    <3>2. CASE m = l \/ k = l
      BY <1>1, <1>2, <1>3, <1>4, <1>6, <2>2, <3>2 DEF RunsFor
    <3> QED BY <3>1, <3>2
  <2> QED BY <1>3, <2>1, <2>2 DEF LoadsInv
<1>8. OpeningInv'
  BY <1>1 DEF OpeningInv
<1>9. KeptInv' /\ TokensInv'
  BY <1>1, <1>5 DEF DetailsInv, KeptInv, TokensInv
<1>10. CoherentInv'
  <2> SUFFICES ASSUME NEW k \in Defined(wf') \ (failed \cup outlived)
               PROVE  /\ k \in DOMAIN info'
                      /\ \A m \in Loads : RunsFor(m, k)' => Progress(k, loads[m])'
                      /\ (\A m \in Loads : ~RunsFor(m, k)') =>
                           /\ HasData(k, info[k])'
                           /\ k \in DOMAIN mapping' <=> info'[k] \in NeedConnection
    BY <1>1 DEF CoherentInv
  <2>1. CASE k = n
    <3>1. n \notin DOMAIN mapping
      BY <2>1 DEF DetailsInv, KeptInv
    <3>2. \A m \in Loads : RunsFor(m, n)' => m = l
      BY <1>4, <1>6, <2>1
    <3>3. Progress(n, loads[l])'
      BY <1>1, <1>2, <1>3, <1>5, <3>1 DEF Progress
    <3> QED BY <1>4, <1>5, <2>1, <3>2, <3>3
  <2>2. CASE k # n
    <3>1. /\ k \in DOMAIN info
          /\ \A m \in Loads : RunsFor(m, k) => Progress(k, loads[m])
          /\ (\A m \in Loads : ~RunsFor(m, k)) =>
               HasData(k, info[k]) /\ (k \in DOMAIN mapping <=> info[k] \in NeedConnection)
      BY <2>2 DEF DetailsInv, CoherentInv
    <3>2. \A x : HasData(k, x) => HasData(k, x)'
      BY <1>1 DEF HasData
    <3> QED BY <1>1, <1>3, <1>4, <1>5, <2>2, <3>1, <3>2 DEF Progress
  <2> QED BY <2>1, <2>2
<1>11. PanelInv'
  BY <1>1, <1>2, <1>3, <1>4 DEF DetailsInv, PanelInv
<1> QED BY <1>7, <1>8, <1>9, <1>10, <1>11 DEF DetailsInv

(* The manifest of an added operation arrives.                             *)
LEMMA ManifestKeepsInv ==
  ASSUME DetailsInv, NEW l \in Loads, ManifestArrives(l)
  PROVE  DetailsInv'
<1> DEFINE node == loads[l].node
           kind == loads[l].kind
           tk == With(tokens, node, [of |-> kind, upstream |-> loads[l].upstream])
<1>1. /\ loads[l].waitsFor = "manifest" /\ IsRunning(l) /\ IsLoad(loads[l])
      /\ node \in Defined(wf) \cup outlived /\ opening.waitsFor = "nothing"
  BY DEF ManifestArrives, IsRunning, DetailsInv, LoadsInv, OpeningInv
<1>2. /\ data' = With(data, node, kind)
      /\ UNCHANGED <<wf, info, mapping, opening, failed, outlived>>
  BY DEF ManifestArrives
<1>3. /\ DOMAIN data' = DOMAIN data \cup {node} /\ data'[node] = kind
      /\ \A n \in DOMAIN data \ {node} : data'[n] = data[n]
  BY <1>2 DEF With
<1>4. /\ DOMAIN tk = DOMAIN tokens \cup {node} /\ tk[node].of = kind
      /\ \A n \in DOMAIN tokens \ {node} : tk[n] = tokens[n]
      /\ \A n \in DOMAIN tk : tk[n] = [of |-> tk[n].of, upstream |-> tk[n].upstream]
  BY DEF With, DetailsInv, TokensInv
<1>5. node \in Defined(wf) \ (failed \cup outlived) =>
        node \in DOMAIN info /\ info[node] = kind /\ node \notin DOMAIN mapping
  BY <1>1 DEF DetailsInv, CoherentInv, RunsFor, Progress
<1>6. failed = {} =>
        \A n \in Defined(wf) :
          n \in DOMAIN tk
            \/ \E m \in Loads \ {l} : RunsFor(m, n) /\ loads[m].waitsFor = "manifest"
  BY <1>1, <1>4 DEF DetailsInv, PanelInv, RunsFor
<1>7. CASE kind \notin NeedConnection
  <2>1. FinishLoad(l, tk)
    BY <1>7 DEF ManifestArrives
  <2> HIDE DEF tk
  <2> QED BY <1>1, <1>2, <1>3, <1>4, <1>5, <1>6, <1>7, <2>1, FinishKeepsInv
<1>8. CASE kind \in NeedConnection
  <2>1. /\ settings' = With(settings, node, kind)
        /\ tokens' = tk
        /\ loads' = [loads EXCEPT ![l].waitsFor = "connections"]
        /\ tab' = tab
    BY <1>8 DEF ManifestArrives
  <2> HIDE DEF tk
  <2>2. /\ DOMAIN settings' = DOMAIN settings \cup {node} /\ settings'[node] = kind
        /\ \A n \in DOMAIN settings \ {node} : settings'[n] = settings[n]
    BY <2>1 DEF With
  <2>3. /\ loads' = [m \in Loads |-> loads'[m]]
        /\ \A m \in Loads \ {l} : loads'[m] = loads[m]
        /\ loads'[l] = [node |-> node, kind |-> kind, waitsFor |-> "connections",
                        upstream |-> loads[l].upstream]
    BY <1>1, <2>1 DEF DetailsInv, LoadsInv, IsLoad
  <2>4. /\ \A m \in Loads : IsRunning(m)' <=> IsRunning(m)
        /\ \A m \in Loads : \A n : RunsFor(m, n)' <=> RunsFor(m, n)
    BY <1>1, <2>3 DEF IsRunning, RunsFor
  <2>5. LoadsInv'
    <3>1. IsLoad(loads'[l]) /\ loads'[l].node = node
      BY <2>3 DEF IsLoad
    <3> QED BY <1>2, <2>3, <2>4, <3>1 DEF DetailsInv, LoadsInv
  <2>6. OpeningInv'
    BY <1>1, <1>2 DEF OpeningInv
  <2>7. KeptInv' /\ TokensInv'
    BY <1>1, <1>2, <1>3, <1>4, <2>1, <2>2 DEF DetailsInv, KeptInv, TokensInv
  <2>8. CoherentInv'
    <3> SUFFICES ASSUME NEW n \in Defined(wf) \ (failed \cup outlived)
                 PROVE  /\ n \in DOMAIN info
                        /\ \A m \in Loads : RunsFor(m, n)' => Progress(n, loads[m])'
                        /\ (\A m \in Loads : ~RunsFor(m, n)') =>
                             /\ HasData(n, info[n])'
                             /\ n \in DOMAIN mapping <=> info[n] \in NeedConnection
      BY <1>2 DEF CoherentInv
    <3>1. /\ n \in DOMAIN info
          /\ \A m \in Loads : RunsFor(m, n) => Progress(n, loads[m])
          /\ (\A m \in Loads : ~RunsFor(m, n)) =>
               HasData(n, info[n]) /\ (n \in DOMAIN mapping <=> info[n] \in NeedConnection)
      BY <1>1 DEF DetailsInv, CoherentInv
    <3>2. CASE n = node
      <4>1. \A m \in Loads : RunsFor(m, n) => m = l
        BY <1>1, <3>2 DEF DetailsInv, LoadsInv, RunsFor
      <4>2. RunsFor(l, n)
        BY <1>1, <3>2 DEF RunsFor
      <4>3. HasData(n, kind)'
        BY <1>3, <1>4, <2>1, <2>2, <3>2 DEF HasData
      <4>4. Progress(n, loads[l])'
        BY <1>2, <1>5, <1>8, <2>3, <3>2, <4>3 DEF Progress
      <4> QED BY <2>4, <3>1, <4>1, <4>2, <4>4
    <3>3. CASE n # node
      <4>1. \A k : HasData(n, k) => HasData(n, k)'
        BY <1>3, <1>4, <2>1, <2>2, <3>3 DEF HasData
      <4>2. ~RunsFor(l, n)
        BY <3>3 DEF RunsFor
      <4> QED BY <1>2, <2>3, <2>4, <3>1, <4>1, <4>2 DEF Progress
    <3> QED BY <3>2, <3>3
  <2>9. PanelInv'
    BY <1>1, <1>2, <1>4, <1>6, <2>1, <2>3, <2>4 DEF DetailsInv, PanelInv
  <2> QED BY <2>5, <2>6, <2>7, <2>8, <2>9 DEF DetailsInv
<1> QED BY <1>7, <1>8

(* The connections of an added operation arrive.                           *)
LEMMA ConnectionsKeepInv ==
  ASSUME DetailsInv, NEW l \in Loads, NEW reference, ConnectionsArrive(l, reference)
  PROVE  DetailsInv'
<1> DEFINE node == loads[l].node
<1>1. /\ loads[l].waitsFor = "connections" /\ IsRunning(l) /\ IsLoad(loads[l])
      /\ node \in Defined(wf) \cup outlived /\ opening.waitsFor = "nothing"
  BY DEF ConnectionsArrive, IsRunning, DetailsInv, LoadsInv, OpeningInv
<1>2. /\ mapping' = With(mapping, node, reference)
      /\ tab' # "loading" \/ tab' = tab
      /\ loads' = [loads EXCEPT ![l].waitsFor = "finish"]
      /\ UNCHANGED <<wf, info, data, settings, tokens, opening, failed, outlived>>
  BY DEF ConnectionsArrive
<1>3. DOMAIN mapping' = DOMAIN mapping \cup {node}
  BY <1>2 DEF With
<1>4. /\ loads' = [m \in Loads |-> loads'[m]]
      /\ \A m \in Loads \ {l} : loads'[m] = loads[m]
      /\ loads'[l] = [node |-> node, kind |-> loads[l].kind, waitsFor |-> "finish",
                      upstream |-> loads[l].upstream]
  BY <1>1, <1>2 DEF DetailsInv, LoadsInv, IsLoad
<1>5. /\ \A m \in Loads : IsRunning(m)' <=> IsRunning(m)
      /\ \A m \in Loads : \A n : RunsFor(m, n)' <=> RunsFor(m, n)
  BY <1>1, <1>4 DEF IsRunning, RunsFor
<1>6. LoadsInv'
  <2>1. IsLoad(loads'[l]) /\ loads'[l].node = node
    BY <1>4 DEF IsLoad
  <2> QED BY <1>2, <1>4, <1>5, <2>1 DEF DetailsInv, LoadsInv
<1>7. OpeningInv'
  BY <1>1, <1>2 DEF OpeningInv
<1>8. KeptInv' /\ TokensInv'
  BY <1>1, <1>2, <1>3 DEF DetailsInv, KeptInv, TokensInv
<1>9. CoherentInv'
  <2> SUFFICES ASSUME NEW n \in Defined(wf) \ (failed \cup outlived)
               PROVE  /\ n \in DOMAIN info
                      /\ \A m \in Loads : RunsFor(m, n)' => Progress(n, loads[m])'
                      /\ (\A m \in Loads : ~RunsFor(m, n)') =>
                           /\ HasData(n, info[n])'
                           /\ n \in DOMAIN mapping' <=> info[n] \in NeedConnection
    BY <1>2 DEF CoherentInv
  <2>1. /\ n \in DOMAIN info
        /\ \A m \in Loads : RunsFor(m, n) => Progress(n, loads[m])
        /\ (\A m \in Loads : ~RunsFor(m, n)) =>
             HasData(n, info[n]) /\ (n \in DOMAIN mapping <=> info[n] \in NeedConnection)
    BY <1>1 DEF DetailsInv, CoherentInv
  <2>2. \A k : HasData(n, k) => HasData(n, k)'
    BY <1>2 DEF HasData
  <2>3. CASE n = node
    <3>1. RunsFor(l, n) /\ \A m \in Loads : RunsFor(m, n) => m = l
      BY <1>1, <2>3 DEF DetailsInv, LoadsInv, RunsFor
    <3>2. Progress(n, loads[l])'
      BY <1>1, <1>2, <1>3, <1>4, <2>1, <2>2, <2>3, <3>1 DEF Progress
    <3> QED BY <1>5, <2>1, <3>1, <3>2
  <2>4. CASE n # node
    <3>1. ~RunsFor(l, n)
      BY <2>4 DEF RunsFor
    <3> QED BY <1>2, <1>3, <1>4, <1>5, <2>1, <2>2, <2>4, <3>1 DEF Progress
  <2> QED BY <2>3, <2>4
<1>10. PanelInv'
  BY <1>1, <1>2, <1>4, <1>5 DEF DetailsInv, PanelInv
<1> QED BY <1>6, <1>7, <1>8, <1>9, <1>10 DEF DetailsInv

(* The load of an added operation ends.                                    *)
LEMMA LoadEndKeepsInv ==
  ASSUME DetailsInv, NEW l \in Loads, LoadEnds(l)
  PROVE  DetailsInv'
<1> DEFINE node == loads[l].node
<1>1. /\ loads[l].waitsFor = "finish" /\ IsRunning(l) /\ opening.waitsFor = "nothing"
  BY DEF LoadEnds, IsRunning, DetailsInv, OpeningInv
<1>2. /\ FinishLoad(l, tokens) /\ data' = data
      /\ UNCHANGED <<wf, info, mapping, opening, failed, outlived>>
  BY DEF LoadEnds
<1>3. node \in Defined(wf) \ (failed \cup outlived) =>
        /\ node \in DOMAIN data /\ data[node] = loads[l].kind
        /\ node \in DOMAIN tokens /\ tokens[node].of = loads[l].kind
        /\ node \in DOMAIN mapping /\ loads[l].kind \in NeedConnection
  BY <1>1 DEF DetailsInv, CoherentInv, RunsFor, Progress, HasData
<1>4. failed = {} =>
        \A n \in Defined(wf) :
          n \in DOMAIN tokens
            \/ \E m \in Loads \ {l} : RunsFor(m, n) /\ loads[m].waitsFor = "manifest"
  BY <1>1 DEF DetailsInv, PanelInv
<1>5. \A n \in DOMAIN tokens : tokens[n] = [of |-> tokens[n].of, upstream |-> tokens[n].upstream]
  BY DEF DetailsInv, TokensInv
<1> QED BY <1>1, <1>2, <1>3, <1>4, <1>5, FinishKeepsInv

(* A fetch of an added operation is rejected.                              *)
LEMMA FailureKeepsInv ==
  ASSUME DetailsInv, NEW l \in Loads, FetchFails(l)
  PROVE  DetailsInv'
<1>1. /\ IsRunning(l) /\ opening.waitsFor = "nothing"
      /\ loads' = [loads EXCEPT ![l] = Ended]
      /\ failed' = failed \cup {loads[l].node}
      /\ UNCHANGED <<wf, info, data, settings, tokens, mapping, opening, outlived>>
  BY DEF FetchFails, IsRunning, DetailsInv, OpeningInv
<1>2. /\ loads' = [m \in Loads |-> loads'[m]]
      /\ \A m \in Loads \ {l} : loads'[m] = loads[m] /\ (IsRunning(m)' <=> IsRunning(m))
      /\ \A m \in Loads \ {l} : \A n : RunsFor(m, n)' <=> RunsFor(m, n)
      /\ ~IsRunning(l)' /\ \A n : ~RunsFor(l, n)'
  BY <1>1 DEF DetailsInv, LoadsInv, IsRunning, RunsFor, Ended
<1>3. LoadsInv'
  BY <1>1, <1>2 DEF DetailsInv, LoadsInv
<1>4. OpeningInv'
  BY <1>1 DEF OpeningInv
<1>5. KeptInv' /\ TokensInv'
  BY <1>1 DEF DetailsInv, KeptInv, TokensInv
<1>6. CoherentInv'
  <2> SUFFICES ASSUME NEW n \in Defined(wf) \ (failed' \cup outlived)
               PROVE  /\ n \in DOMAIN info
                      /\ \A m \in Loads : RunsFor(m, n)' => Progress(n, loads[m])'
                      /\ (\A m \in Loads : ~RunsFor(m, n)') =>
                           /\ HasData(n, info[n])'
                           /\ n \in DOMAIN mapping <=> info[n] \in NeedConnection
    BY <1>1 DEF CoherentInv
  <2>1. n \in Defined(wf) \ (failed \cup outlived) /\ ~RunsFor(l, n)
    BY <1>1 DEF RunsFor
  <2>2. /\ n \in DOMAIN info
        /\ \A m \in Loads : RunsFor(m, n) => Progress(n, loads[m])
        /\ (\A m \in Loads : ~RunsFor(m, n)) =>
             HasData(n, info[n]) /\ (n \in DOMAIN mapping <=> info[n] \in NeedConnection)
    BY <1>1, <2>1 DEF DetailsInv, CoherentInv
  <2>3. \A k : HasData(n, k) => HasData(n, k)'
    BY <1>1 DEF HasData
  <2> QED BY <1>1, <1>2, <2>1, <2>2, <2>3 DEF Progress
<1>7. PanelInv'
  BY <1>1 DEF PanelInv
<1> QED BY <1>3, <1>4, <1>5, <1>6, <1>7 DEF DetailsInv

(* An operation is deleted, or its delete is rejected.                     *)
LEMMA DeleteKeepsInv ==
  ASSUME DetailsInv, opening.waitsFor = "nothing", NEW n,
         wf' = wf \/ Defined(wf') = Defined(wf) \ {n}, AfterDelete(n)
  PROVE  DetailsInv'
<1>1. /\ outlived \subseteq outlived'
      /\ (\E l \in Loads : RunsFor(l, n)) => n \in outlived'
      /\ UNCHANGED <<opening, loads, tab, failed>>
  BY DEF AfterDelete, Loading, RunsFor
<1>2. /\ \A l \in Loads : IsRunning(l)' <=> IsRunning(l)
      /\ \A l \in Loads : \A k : RunsFor(l, k)' <=> RunsFor(l, k)
  BY <1>1 DEF IsRunning, RunsFor
<1>3. Defined(wf) \ {n} \subseteq Defined(wf') /\ Defined(wf') \subseteq Defined(wf)
  OBVIOUS
<1>4. LoadsInv'
  <2>1. \A l \in Loads : IsRunning(l) => loads[l].node \in Defined(wf') \cup outlived'
    BY <1>1, <1>3 DEF DetailsInv, LoadsInv, RunsFor
  <2> QED BY <1>1, <1>2, <2>1 DEF DetailsInv, LoadsInv
<1>5. OpeningInv'
  BY <1>1 DEF OpeningInv
<1>6. CASE wf' = wf
  <2>1. UNCHANGED <<info, data, settings, tokens, mapping>>
    BY <1>6 DEF AfterDelete
  <2>2. KeptInv' /\ TokensInv'
    BY <1>1, <1>6, <2>1 DEF DetailsInv, KeptInv, TokensInv
  <2>3. \A k, x : HasData(k, x)' <=> HasData(k, x)
    BY <2>1 DEF HasData
  <2>4. CoherentInv'
    BY <1>1, <1>2, <1>6, <2>1, <2>3 DEF DetailsInv, CoherentInv, Progress
  <2>5. PanelInv'
    BY <1>1, <1>2, <1>6, <2>1 DEF DetailsInv, PanelInv
  <2> QED BY <1>4, <1>5, <2>2, <2>4, <2>5 DEF DetailsInv
<1>7. CASE wf' # wf
  <2>1. /\ mapping' = Without(mapping, n) /\ data' = Without(data, n)
        /\ settings' = Without(settings, n) /\ info' = Without(info, n)
        /\ tokens' = UpdateAllUpstreamNodes(wf', tokens)
    BY <1>7 DEF AfterDelete, DeleteDetails
  <2>2. /\ DOMAIN mapping' = DOMAIN mapping \ {n} /\ DOMAIN data' = DOMAIN data \ {n}
        /\ DOMAIN settings' = DOMAIN settings \ {n} /\ DOMAIN info' = DOMAIN info \ {n}
        /\ \A k \in DOMAIN data \ {n} : data'[k] = data[k]
        /\ \A k \in DOMAIN settings \ {n} : settings'[k] = settings[k]
        /\ \A k \in DOMAIN info \ {n} : info'[k] = info[k]
    BY <2>1 DEF Without
  <2>3. /\ DOMAIN tokens' = DOMAIN tokens
        /\ \A k \in DOMAIN tokens : tokens'[k].of = tokens[k].of
        /\ TokensInv'
    <3> DEFINE new == UpdateAllUpstreamNodes(wf', tokens)
    <3>1. \A k \in DOMAIN tokens : tokens[k] = [of |-> tokens[k].of, upstream |-> tokens[k].upstream]
      BY DEF DetailsInv, TokensInv
    <3>2. /\ DOMAIN new = DOMAIN tokens
          /\ \A k \in DOMAIN tokens :
               new[k].of = tokens[k].of /\ new[k] = [of |-> new[k].of, upstream |-> new[k].upstream]
      BY <3>1, UpdateKeepsKinds
    <3> HIDE DEF new
    <3>3. tokens' = new
      BY <2>1 DEF new
    <3> QED BY <3>2, <3>3 DEF TokensInv
  <2>4. KeptInv'
    BY <1>1, <1>3, <2>2 DEF DetailsInv, KeptInv
  <2>5. CoherentInv'
    <3> SUFFICES ASSUME NEW k \in Defined(wf') \ (failed \cup outlived')
                 PROVE  /\ k \in DOMAIN info'
                        /\ \A l \in Loads : RunsFor(l, k)' => Progress(k, loads[l])'
                        /\ (\A l \in Loads : ~RunsFor(l, k)') =>
                             /\ HasData(k, info[k])'
                             /\ k \in DOMAIN mapping' <=> info'[k] \in NeedConnection
      BY <1>1 DEF CoherentInv
    <3>1. k # n /\ k \in Defined(wf) \ (failed \cup outlived)
      BY <1>1, <1>3, <1>7
    <3>2. /\ k \in DOMAIN info
          /\ \A l \in Loads : RunsFor(l, k) => Progress(k, loads[l])
          /\ (\A l \in Loads : ~RunsFor(l, k)) =>
               HasData(k, info[k]) /\ (k \in DOMAIN mapping <=> info[k] \in NeedConnection)
      BY <3>1 DEF DetailsInv, CoherentInv
    <3>3. \A x : HasData(k, x) => HasData(k, x)'
      BY <2>2, <2>3, <3>1 DEF HasData
    <3> QED BY <1>1, <1>2, <2>2, <3>1, <3>2, <3>3 DEF Progress
  <2>6. PanelInv'
    BY <1>1, <1>2, <1>3, <2>3 DEF DetailsInv, PanelInv
  <2> QED BY <1>4, <1>5, <2>3, <2>4, <2>5, <2>6 DEF DetailsInv
<1> QED BY <1>6, <1>7

(* An operation is moved.                                                  *)
LEMMA MoveKeepsInv ==
  ASSUME DetailsInv, opening.waitsFor = "nothing", Defined(wf') = Defined(wf),
         tokens' = UpdateAllUpstreamNodes(wf', tokens),
         UNCHANGED <<info, data, settings, mapping, opening, loads, tab, failed, outlived>>
  PROVE  DetailsInv'
<1> DEFINE new == UpdateAllUpstreamNodes(wf', tokens)
<1>1. \A n \in DOMAIN tokens : tokens[n] = [of |-> tokens[n].of, upstream |-> tokens[n].upstream]
  BY DEF DetailsInv, TokensInv
<1>2. /\ DOMAIN new = DOMAIN tokens
      /\ \A n \in DOMAIN tokens :
           new[n].of = tokens[n].of /\ new[n] = [of |-> new[n].of, upstream |-> new[n].upstream]
  BY <1>1, UpdateKeepsKinds
<1>3. tokens' = new
  OBVIOUS
<1> HIDE DEF new
<1>4. TokensInv'
  BY <1>2, <1>3 DEF TokensInv
<1>5. \A n, kind : HasData(n, kind)' <=> HasData(n, kind)
  BY <1>2, <1>3 DEF HasData
<1>6. /\ \A l \in Loads : IsRunning(l)' <=> IsRunning(l)
      /\ \A l \in Loads : \A n : RunsFor(l, n)' <=> RunsFor(l, n)
  BY DEF IsRunning, RunsFor
<1>7. LoadsInv' /\ OpeningInv' /\ KeptInv'
  BY <1>6 DEF DetailsInv, LoadsInv, OpeningInv, KeptInv
<1>8. CoherentInv'
  BY <1>5, <1>6 DEF DetailsInv, CoherentInv, Progress
<1>9. PanelInv'
  BY <1>2, <1>3, <1>6 DEF DetailsInv, PanelInv
<1> QED BY <1>4, <1>7, <1>8, <1>9 DEF DetailsInv

(* Nothing but the tab changes, and not to the loading tab.                *)
LEMMA ClickKeepsInv ==
  ASSUME DetailsInv, tab' = tab \/ tab' # "loading",
         UNCHANGED <<wf, info, data, settings, tokens, mapping, opening, loads, failed, outlived>>
  PROVE  DetailsInv'
<1>1. /\ \A l \in Loads : IsRunning(l)' <=> IsRunning(l)
      /\ \A l \in Loads : \A n : RunsFor(l, n)' <=> RunsFor(l, n)
      /\ \A n, kind : HasData(n, kind)' <=> HasData(n, kind)
  BY DEF IsRunning, RunsFor, HasData
<1>2. LoadsInv' /\ OpeningInv' /\ KeptInv' /\ TokensInv'
  BY <1>1 DEF DetailsInv, LoadsInv, OpeningInv, KeptInv, TokensInv
<1>3. CoherentInv'
  BY <1>1 DEF DetailsInv, CoherentInv, Progress
<1>4. PanelInv'
  BY <1>1 DEF DetailsInv, PanelInv
<1> QED BY <1>2, <1>3, <1>4 DEF DetailsInv

(* Every step keeps the invariant, when editing waits for the opening.     *)
LEMMA DetailsNextInv ==
  ASSUME "early" \notin Edits, Inv, IsRendered, DetailsInv, [DetailsNext]_allVars
  PROVE  DetailsInv'
<1>1. MayEdit => opening.waitsFor = "nothing"
  BY DEF MayEdit
<1>2. CASE \E missing \in SUBSET Unreachable : OpenDetails(missing)
  BY <1>2, OpenDetailsKeepsInv
<1>3. CASE OpenConnections
  BY <1>3, OpenConnectionsKeepsInv
<1>4. ASSUME NEW n \in Actions, NEW site \in DOMAIN zones, NEW kind \in Kinds, NEW l \in Loads,
             AddWithDetails(n, site, kind, l) \/ AddParallelWithDetails(n, site, kind, l)
      PROVE  DetailsInv'
  <2>1. /\ MayEdit /\ (AddOperation(n, site) \/ AddParallelBranch(n, site))
        /\ loads[l] = NotStarted /\ StartLoad(n, kind, l)
    BY <1>4 DEF AddWithDetails, AddParallelWithDetails, MayAdd
  <2>2. n \notin Defined(wf)
    BY <2>1 DEF AddOperation, AddParallelBranch
  <2> QED BY <1>1, <2>1, <2>2, AddDefines, StartLoadKeepsInv
<1>5. ASSUME NEW t \in Triggers, NEW kind \in Kinds, NEW l \in Loads,
             AddTriggerWithDetails(t, kind, l)
      PROVE  DetailsInv'
  <2>1. MayEdit /\ AddTrigger(t) /\ loads[l] = NotStarted /\ StartLoad(t, kind, l)
    BY <1>5 DEF AddTriggerWithDetails, MayAdd
  <2>2. t \notin Defined(wf)
    BY <2>1 DEF AddTrigger
  <2> QED BY <1>1, <2>1, <2>2, AddTriggerDefines, StartLoadKeepsInv
<1>6. ASSUME NEW l \in Loads, ManifestArrives(l) PROVE DetailsInv'
  BY <1>6, ManifestKeepsInv
<1>7. ASSUME NEW l \in Loads, NEW reference \in {Connection, NoConnection},
             ConnectionsArrive(l, reference)
      PROVE  DetailsInv'
  BY <1>7, ConnectionsKeepInv
<1>8. ASSUME NEW l \in Loads, LoadEnds(l) PROVE DetailsInv'
  BY <1>8, LoadEndKeepsInv
<1>9. ASSUME NEW l \in Loads, FetchFails(l) PROVE DetailsInv'
  BY <1>9, FailureKeepsInv
<1>10. ASSUME NEW n \in Actions, DeleteActionWithDetails(n) PROVE DetailsInv'
  BY <1>1, <1>10, DeleteUndefines, DeleteKeepsInv DEF DeleteActionWithDetails
<1>11. ASSUME NEW t \in Triggers, DeleteTriggerWithDetails(t) PROVE DetailsInv'
  BY <1>1, <1>11, DeleteTriggerUndefines, DeleteKeepsInv DEF DeleteTriggerWithDetails
<1>12. ASSUME NEW n \in Actions, NEW site \in DOMAIN zones, MoveWithDetails(n, site)
       PROVE  DetailsInv'
  BY <1>1, <1>12, MoveDefines, MoveKeepsInv DEF MoveWithDetails
<1>13. CASE ClickCard
  BY <1>13, ClickKeepsInv DEF ClickCard
<1>14. CASE UNCHANGED allVars
  BY <1>14, ClickKeepsInv DEF allVars, details
<1> QED BY <1>2, <1>3, <1>4, <1>5, <1>6, <1>7, <1>8, <1>9, <1>10, <1>11, <1>12, <1>13, <1>14
        DEF DetailsNext

(* The invariant holds in every behaviour.                                 *)
LEMMA DetailsInvariant == "early" \notin Edits => (DetailsSpec => []DetailsInv)
<1> SUFFICES ASSUME "early" \notin Edits PROVE DetailsSpec => []DetailsInv
  OBVIOUS
<1>1. Inv /\ IsRendered /\ DetailsInv /\ [DetailsNext]_allVars => DetailsInv'
  BY DetailsNextInv
<1> QED BY <1>1, DetailsInitInv, GraphInvariant, PTL DEF DetailsSpec

-----------------------------------------------------------------------------
(* However late the details of operations arrive, and whatever is edited   *)
(* meanwhile, the two copies of the graph tree agree.                      *)
THEOREM GraphsAgreeUnderDetails == DetailsSpec => []GraphsAgreeWithMetadata
<1>1. Inv => GraphsAgreeWithMetadata
  BY DEF Inv, IsWellFormed, Agrees, GraphsAgreeWithMetadata
<1> QED BY <1>1, GraphInvariant, PTL

(* Once the definition is opened, no inputs, settings, connection or kind  *)
(* of a deleted operation is kept, unless it died during its own load.     *)
THEOREM DeletedAreForgotten == "early" \notin Edits => (DetailsSpec => []DeletedIsForgotten)
<1> SUFFICES ASSUME "early" \notin Edits PROVE DetailsSpec => []DeletedIsForgotten
  OBVIOUS
<1>1. DetailsInv => DeletedIsForgotten
  BY DEF DetailsInv, KeptInv, DeletedIsForgotten
<1> QED BY <1>1, DetailsInvariant, PTL

(* Once nothing is on its way, all that is stored under an id is of the    *)
(* operation that has it, and a connection is mapped exactly where one is  *)
(* needed.                                                                 *)
THEOREM DetailsMatch == "early" \notin Edits => (DetailsSpec => []DetailsAreOfOperation)
<1> SUFFICES ASSUME "early" \notin Edits PROVE DetailsSpec => []DetailsAreOfOperation
  OBVIOUS
<1>1. DetailsInv => DetailsAreOfOperation
  <2> SUFFICES ASSUME DetailsInv, Settled, NEW n \in Defined(wf) \ (failed \cup outlived)
               PROVE  /\ {info[n], data[n], settings[n], tokens[n].of} = {info[n]}
                      /\ n \in DOMAIN mapping <=> info[n] \in NeedConnection
    BY DEF DetailsAreOfOperation
  <2>1. opening.waitsFor = "nothing" /\ \A l \in Loads : ~RunsFor(l, n)
    BY DEF Settled, RunsFor
  <2> QED BY <2>1 DEF DetailsInv, CoherentInv, HasData
<1> QED BY <1>1, DetailsInvariant, PTL

(* When no fetch is rejected, the panel is not left on the loading tab.    *)
THEOREM PanelIsNotStuck == "early" \notin Edits => (DetailsSpec => []PanelSettles)
<1> SUFFICES ASSUME "early" \notin Edits PROVE DetailsSpec => []PanelSettles
  OBVIOUS
<1>1. DetailsInv => PanelSettles
  BY DEF DetailsInv, PanelInv, PanelSettles, Settled
<1> QED BY <1>1, DetailsInvariant, PTL
=============================================================================
