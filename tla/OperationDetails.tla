-------------------------- MODULE OperationDetails --------------------------
(***************************************************************************)
(* What the designer keeps about each operation besides its place in the   *)
(* graph: its inputs and outputs, settings, output tokens and connection.  *)
(* They are fetched in the background, for the whole definition when it is *)
(* opened (core/actions/bjsworkflow/operationdeserializer.ts) and for each *)
(* operation that is added (add.ts), while the user goes on editing the    *)
(* graph of WorkflowGraph.  Every await is the end of a step; what a       *)
(* function read before it is part of the `load' that waits.               *)
(*                                                                         *)
(* Scopes are opened but not added, moved or deleted here.                 *)
(***************************************************************************)
EXTENDS WorkflowGraph

CONSTANTS
  Kinds,            \* the operations the discovery panel offers
  NeedConnection,   \* those that require a connection
  OpenedKind,       \* the kind of the operations a definition holds
  Unreachable,      \* bound: the ids whose details opening may fail to fetch
  Loads,            \* bound: one for each operation the user adds
  NoKind,           \* what the tokens are of when nothing could be fetched
  Connection, NoConnection  \* a connection reference, and null

ASSUME KindsAreKnown == NeedConnection \subseteq Kinds /\ OpenedKind \in Kinds

ASSUME MarksAreDistinct ==
  NoKind \notin Kinds \cup {Connection, NoConnection} /\ Connection # NoConnection

VARIABLES
  info,      \* operationInfo: id -> kind
  data,      \* inputParameters, outputParameters, ...: id -> the kind they are of
  settings,  \* settings: id -> the kind they are of
  tokens,    \* outputTokens: id -> the kind they are of, and upstreamNodeIds
  mapping,   \* connectionsMapping: id -> reference or null
  opening,   \* what the opening of the definition waits for
  loads,     \* the running calls of initializeOperationDetails
  tab,       \* the tab the panel shows
  failed,    \* history: the ids for which a fetch was rejected
  outlived   \* history: the ids deleted while a load of theirs was running

details == <<info, data, settings, tokens, mapping, opening, loads, tab, failed, outlived>>
allVars == <<wf, doomed, zones, details>>

(* A load for an operation that is still to be added, and one that has     *)
(* returned or was rejected.                                               *)
NotStarted == [waitsFor |-> "addition"]
Ended == [waitsFor |-> "nothing"]

-----------------------------------------------------------------------------
(* { ...f, [n]: v } and delete f[n] *)
With(f, n, v) == [x \in DOMAIN f \cup {n} |-> IF x = n THEN v ELSE f[x]]
Without(f, n) == [x \in DOMAIN f \ {n} |-> f[x]]

(* getAllSourceNodeIds: what is drawn before n in graph g, with what is    *)
(* inside; edges with a '#' in their id do not count.                      *)
AllSources(w, g, n) ==
  LET Before(m) == Sources(Links(w, g), m) \ Headings
      before    == Closure(Before, Before(n))
  IN  before \cup (Defined(w) \cap UNION {Contents(w, m) : m \in before \cap Operations})

(* getAllParentsForNode: the scopes around n. *)
ParentsOf(w, n) == {h \in Scopes \ {n} : n \in Contents(w, h)}

UpstreamNodeIds(w, n) ==
  UNION {AllSources(w, NodeGraphId(w, m), m) : m \in {n} \cup ParentsOf(w, n)}

(* getTokenNodeIds, where the manifests of the operations in M are known:  *)
(* the loops around n, and for an until loop what it holds.                *)
TokenNodeIds(w, n, M) ==
  UpstreamNodeIds(w, n)
    \cup (IF n \in M
          THEN (ParentsOf(w, n) \cap Untils \cap M)
               \cup (IF n \in Untils THEN Contents(w, n) \ {n} ELSE {})
          ELSE {})

(* updateAllUpstreamNodes.  The reducer throws, and keeps nothing, when an *)
(* operation has no entry in outputTokens yet.                             *)
Updated(w) == {n \in Defined(w) : ~IsRootNodeInGraph(w, n, Root)}
UpdateThrows(w, tk) == ~(Updated(w) \subseteq DOMAIN tk)
UpdateAllUpstreamNodes(w, tk) ==
  IF UpdateThrows(w, tk) THEN tk
  ELSE [n \in DOMAIN tk |->
          IF n \in Updated(w) THEN [tk[n] EXCEPT !.upstream = TokenNodeIds(w, n, {})]
          ELSE tk[n]]

-----------------------------------------------------------------------------
(* Opening a definition: initializeOperationMetadata, then                 *)
(* getConnectionsApiAndMapping.  Both use the definition as it was opened. *)

(* The user may already edit the canvas, which is the bound "early".       *)
MayEdit == opening.waitsFor = "nothing" \/ "early" \in Edits

(* The details of all operations are there, but for those in `missing'.    *)
OpenDetails(missing) ==
  LET w == opening.workflow
  IN  /\ opening.waitsFor = "details" /\ missing \subseteq Defined(w)
      /\ opening' = [opening EXCEPT !.waitsFor = "connections"]
      /\ info' = [n \in DOMAIN info \cup (Defined(w) \ missing) |->
                    IF n \in Defined(w) \ missing THEN OpenedKind ELSE info[n]]
      /\ data' = [n \in DOMAIN data \cup (Defined(w) \ missing) |->
                    IF n \in Defined(w) \ missing THEN OpenedKind ELSE data[n]]
      /\ settings' = [n \in DOMAIN settings \cup (Defined(w) \ missing) |->
                        IF n \in Defined(w) \ missing THEN OpenedKind ELSE settings[n]]
      /\ tokens' = [n \in DOMAIN tokens \cup Defined(w) |->
                      IF n \in Defined(w)
                      THEN [of |-> IF n \in missing THEN NoKind ELSE OpenedKind,
                            upstream |-> TokenNodeIds(w, n, Defined(w) \ missing)]
                      ELSE tokens[n]]
      /\ failed' = failed \cup missing
      /\ UNCHANGED <<wf, doomed, zones, mapping, loads, tab, outlived>>

(* initializeConnectionsMappings replaces the whole mapping.  An operation *)
(* whose details are missing is passed over.                               *)
OpenConnections ==
  /\ opening.waitsFor = "connections"
  /\ mapping' = [n \in {m \in Defined(opening.workflow) \cap DOMAIN info :
                          OpenedKind \in NeedConnection} |-> Connection]
  /\ opening' = Ended
  /\ UNCHANGED <<wf, doomed, zones, info, data, settings, tokens, loads, tab, failed, outlived>>

-----------------------------------------------------------------------------
(* Adding an operation: addOperation and initializeOperationDetails.       *)

IsRunning(l) == loads[l].waitsFor \notin {"addition", "nothing"}

(* What runs at once, after addNode: the panel shows the loading tab, and  *)
(* the state as it is now is kept for addTokensAndVariables.               *)
StartLoad(n, kind, l) ==
  /\ info' = With(info, n, kind)
  /\ loads' = [loads EXCEPT ![l] =
                 [node |-> n, kind |-> kind, waitsFor |-> "manifest",
                  upstream |-> TokenNodeIds(wf', n, {n})]]
  /\ tab' = "loading"
  /\ UNCHANGED <<data, settings, tokens, mapping, opening, failed, outlived>>

(* Each load is for one addition. *)
MayAdd(l) == MayEdit /\ loads[l] = NotStarted

AddWithDetails(n, site, kind, l) ==
  MayAdd(l) /\ AddOperation(n, site) /\ StartLoad(n, kind, l)

AddParallelWithDetails(n, site, kind, l) ==
  MayAdd(l) /\ AddParallelBranch(n, site) /\ StartLoad(n, kind, l)

AddTriggerWithDetails(t, kind, l) ==
  MayAdd(l) /\ AddTrigger(t) /\ StartLoad(t, kind, l)

(* Faulty: the upstream nodes of the operations behind are not updated.    *)
FinishLoadAlone(l, tk) ==
  /\ settings' = With(settings, loads[l].node, loads[l].kind)
  /\ tokens' = tk
  /\ tab' = "default"
  /\ loads' = [loads EXCEPT ![l] = Ended]

(* Faulty: nothing more is done for an operation that is gone.             *)
FinishLoadIfPresent(l, tk) ==
  /\ settings' = With(settings, loads[l].node, loads[l].kind)
  /\ tokens' = UpdateAllUpstreamNodes(wf, tk)
  /\ tab' = IF UpdateThrows(wf, tk) \/ loads[l].node \notin Defined(wf) THEN tab ELSE "default"
  /\ loads' = [loads EXCEPT ![l] = Ended]

(* The end of initializeOperationDetails: when the update of the upstream  *)
(* nodes throws, the default tabs are not shown.                           *)
FinishLoad(l, tk) ==
  /\ settings' = With(settings, loads[l].node, loads[l].kind)
  /\ tokens' = UpdateAllUpstreamNodes(wf, tk)
  /\ tab' = IF UpdateThrows(wf, tk) THEN tab ELSE "default"
  /\ loads' = [loads EXCEPT ![l] = Ended]

(* The manifest or swagger arrives: initializeNodes, then                  *)
(* addTokensAndVariables with the state read at the start.                 *)
ManifestArrives(l) ==
  /\ loads[l].waitsFor = "manifest"
  /\ LET n    == loads[l].node
         kind == loads[l].kind
         tk   == With(tokens, n, [of |-> kind, upstream |-> loads[l].upstream])
     IN  /\ data' = With(data, n, kind)
         /\ IF kind \in NeedConnection
            THEN /\ settings' = With(settings, n, kind)
                 /\ tokens' = tk
                 /\ loads' = [loads EXCEPT ![l].waitsFor = "connections"]
                 /\ tab' = tab
            ELSE FinishLoad(l, tk)
  /\ UNCHANGED <<wf, doomed, zones, info, mapping, opening, failed, outlived>>

(* Faulty: the first connection is taken when there is none.               *)
ConnectionsArriveUnchecked(l, reference) ==
  /\ loads[l].waitsFor = "connections"
  /\ mapping' = With(mapping, loads[l].node,
                      IF reference = NoConnection THEN NoKind ELSE reference)
  /\ loads' = [loads EXCEPT ![l].waitsFor = "finish"]
  /\ UNCHANGED <<wf, doomed, zones, info, data, settings, tokens, opening, tab, failed, outlived>>

(* Faulty: without a connection nothing is put in the mapping.             *)
ConnectionsArriveOrNothing(l, reference) ==
  /\ loads[l].waitsFor = "connections"
  /\ mapping' = IF reference = NoConnection THEN mapping
                ELSE With(mapping, loads[l].node, reference)
  /\ loads' = [loads EXCEPT ![l].waitsFor = "finish"]
  /\ UNCHANGED <<wf, doomed, zones, info, data, settings, tokens, opening, tab, failed, outlived>>

(* trySetDefaultConnectionForNode: the first connection is taken, or the   *)
(* panel asks for one.                                                     *)
ConnectionsArrive(l, reference) ==
  /\ loads[l].waitsFor = "connections"
  /\ mapping' = With(mapping, loads[l].node, reference)
  /\ tab' = IF reference = NoConnection THEN "create connection" ELSE tab
  /\ loads' = [loads EXCEPT ![l].waitsFor = "finish"]
  /\ UNCHANGED <<wf, doomed, zones, info, data, settings, tokens, opening, failed, outlived>>

LoadEnds(l) ==
  /\ loads[l].waitsFor = "finish"
  /\ FinishLoad(l, tokens)
  /\ UNCHANGED <<wf, doomed, zones, info, data, mapping, opening, failed, outlived>>

(* A fetch is rejected; nobody waits for initializeOperationDetails.       *)
FetchFails(l) ==
  /\ loads[l].waitsFor \in {"manifest", "connections"}
  /\ failed' = failed \cup {loads[l].node}
  /\ loads' = [loads EXCEPT ![l] = Ended]
  /\ UNCHANGED <<wf, doomed, zones, info, data, settings, tokens, mapping, opening, tab, outlived>>

-----------------------------------------------------------------------------
(* Deleting and moving: deleteOperation and moveOperation.                 *)

Loading(n) == \E l \in Loads : IsRunning(l) /\ loads[l].node = n

(* Faulty: the connection stays in the mapping.                            *)
DeleteDetailsKeepingConnection(n) ==
  /\ mapping' = mapping
  /\ data' = Without(data, n)
  /\ settings' = Without(settings, n)
  /\ info' = Without(info, n)
  /\ tokens' = UpdateAllUpstreamNodes(wf', tokens)

(* deleteOperationDetails and updateAllUpstreamNodes; the output tokens of *)
(* n are kept.                                                             *)
DeleteDetails(n) ==
  /\ mapping' = Without(mapping, n)
  /\ data' = Without(data, n)
  /\ settings' = Without(settings, n)
  /\ info' = Without(info, n)
  /\ tokens' = UpdateAllUpstreamNodes(wf', tokens)

AfterDelete(n) ==
  /\ IF wf' = wf THEN UNCHANGED <<info, data, settings, tokens, mapping>>
     ELSE DeleteDetails(n)
  /\ outlived' = IF Loading(n) THEN outlived \cup {n} ELSE outlived
  /\ UNCHANGED <<opening, loads, tab, failed>>

DeleteActionWithDetails(n) == MayEdit /\ DeleteAction(n) /\ AfterDelete(n)

DeleteTriggerWithDetails(t) == MayEdit /\ DeleteTrigger(t) /\ AfterDelete(t)

MoveWithDetails(n, site) ==
  /\ MayEdit /\ MoveOperation(n, site)
  /\ tokens' = UpdateAllUpstreamNodes(wf', tokens)
  /\ UNCHANGED <<info, data, settings, mapping, opening, loads, tab, failed, outlived>>

(* A card is clicked: the panel shows its default tabs.                    *)
ClickCard ==
  /\ tab # "default" /\ tab' = "default"
  /\ UNCHANGED <<wf, doomed, zones, info, data, settings, tokens, mapping, opening, loads,
                 failed, outlived>>

-----------------------------------------------------------------------------
NoDetails == [n \in {} |-> NoKind]

DetailsInit ==
  /\ Init
  /\ info = NoDetails /\ data = NoDetails /\ settings = NoDetails
  /\ tokens = NoDetails /\ mapping = NoDetails
  /\ opening = [waitsFor |-> "details", workflow |-> wf]
  /\ loads = [l \in Loads |-> NotStarted]
  /\ tab = "default" /\ failed = {} /\ outlived = {}

DetailsNext ==
  \/ \E missing \in SUBSET Unreachable : OpenDetails(missing)
  \/ OpenConnections
  \/ \E n \in Actions, site \in DOMAIN zones, kind \in Kinds, l \in Loads :
       AddWithDetails(n, site, kind, l)
  \/ \E n \in Actions, site \in DOMAIN zones, kind \in Kinds, l \in Loads :
       AddParallelWithDetails(n, site, kind, l)
  \/ \E n \in Triggers, kind \in Kinds, l \in Loads : AddTriggerWithDetails(n, kind, l)
  \/ \E l \in Loads : ManifestArrives(l)
  \/ \E l \in Loads, reference \in {Connection, NoConnection} : ConnectionsArrive(l, reference)
  \/ \E l \in Loads : LoadEnds(l)
  \/ \E l \in Loads : FetchFails(l)
  \/ \E n \in Actions : DeleteActionWithDetails(n)
  \/ \E n \in Triggers : DeleteTriggerWithDetails(n)
  \/ \E n \in Actions, site \in DOMAIN zones : MoveWithDetails(n, site)
  \/ ClickCard

DetailsSpec == DetailsInit /\ [][DetailsNext]_allVars

-----------------------------------------------------------------------------
(* Shapes of the slices; the ids in them are ids of operations.            *)
IsPartial(f, S) == DOMAIN f \subseteq Operations /\ f \in [DOMAIN f -> S]

Load ==
  [node : Operations, kind : Kinds, waitsFor : {"manifest", "connections", "finish"},
   upstream : SUBSET (Operations \cup {Placeholder})]

DetailsTypeOK ==
  /\ IsPartial(info, Kinds) /\ IsPartial(data, Kinds) /\ IsPartial(settings, Kinds)
  /\ IsPartial(tokens, [of : Kinds \cup {NoKind},
                        upstream : SUBSET (Operations \cup {Placeholder})])
  /\ IsPartial(mapping, {Connection, NoConnection})
  /\ opening.waitsFor \in {"details", "connections", "nothing"}
  /\ loads \in [Loads -> Load \cup {NotStarted, Ended}]
  /\ tab \in {"default", "loading", "create connection"}
  /\ failed \subseteq Operations /\ outlived \subseteq Operations

(* Nothing is on its way. *)
Settled == opening.waitsFor = "nothing" /\ \A l \in Loads : ~IsRunning(l)

(* The token picker offers what upstreamNodeIds name.  It is computed from *)
(* a state that is old when it is stored, and updateAllUpstreamNodes keeps *)
(* nothing at all while any operation has no tokens.  Still, once nothing  *)
(* is on its way and no operation of the workflow has lost a fetch, every  *)
(* operation is offered exactly what comes before it, and an until loop    *)
(* what it holds.                                                          *)
UpstreamSettles ==
  Settled /\ Defined(wf) \cap failed = {} =>
    \A n \in Defined(wf) :
      n \in DOMAIN tokens /\ tokens[n].upstream = TokenNodeIds(wf, n, Defined(wf))

(* What is stored under an id is of the operation that has this id now: a  *)
(* deleted id is given to the next operation of that name.  Ids are the    *)
(* exception for which a fetch failed, or that were deleted during a load. *)
DetailsAreOfOperation ==
  Settled =>
    \A n \in Defined(wf) \ (failed \cup outlived) :
      /\ {info[n], data[n], settings[n], tokens[n].of} = {info[n]}
      /\ n \in DOMAIN mapping <=> info[n] \in NeedConnection

(* serializeWorkflow refuses to save while any inputs kept are invalid,    *)
(* and saves a reference for every mapping kept, whatever operation they   *)
(* are of.  Only a load that outlived its operation leaves any behind.     *)
DeletedIsForgotten ==
  opening.waitsFor = "nothing" =>
    (DOMAIN data \cup DOMAIN settings \cup DOMAIN mapping \cup DOMAIN info)
      \subseteq Defined(wf) \cup outlived

(* The loading tab has no way out but showDefaultTabs at the end of the    *)
(* load, which an exception skips.  The panel is not left loading when     *)
(* every fetch succeeded and nothing is on its way.                        *)
PanelSettles == Settled /\ failed = {} => tab # "loading"
=============================================================================
