# A verification of LogicAppsUX

This directory models the stateful core of LogicAppsUX in TLA+: the workflow
designer, the data mapper, and the creation of connections. Modules follow the
code, configurations check them with TLC on small instances, and TLAPS checks
proofs for instances of every size.

Paths below are relative to `src/libs/designer/src/lib/` in what concerns the
designer and to `src/libs/data-mapper/src/lib/` in what concerns the data mapper,
where nothing else is said.

## 1. The system

LogicAppsUX is a monorepo of React and VS Code front ends for Azure Logic Apps.

| Part | State it keeps | What happens to it | What is hard |
|---|---|---|---|
| **Workflow graph** (`core/state/workflow`, `core/parsers`, `ui/connections`, `ui/CustomNodes`, `ui/settings/sections/runafter*`) | the tree of graphs with nodes and edges, `operations` with their `runAfter`, `nodesMetadata` with `graphId` and `isRoot` | a user adds, branches, deletes and drags operations and scopes, replaces the trigger, ticks run-after parents; using a list token wraps an operation in a foreach | the order of the workflow is written down three times (edges, `runAfter`, `isRoot`) and the tree twice (children, `graphId`); every edit must change all copies, whatever edits came before |
| **Deserializer / serializer** (`core/parsers/BJSWorkflow`, `core/actions/bjsworkflow/serializer.ts`) | none | a definition is opened, and saved | what is saved must be what is drawn |
| **Operation initialization** (`core/actions/bjsworkflow/{add,initialize,operationdeserializer}.ts`, `core/state/operation`) | inputs, outputs, settings, dependencies per node | thunks await manifests, swagger and connections, then write with the state read before the await | an operation deleted, moved or added again while its details are on the way; a failed fetch |
| **Tokens and variables** (`core/state/tokensSlice.ts`, `core/utils/{tokens,variables}.ts`) | output tokens and upstream node ids per node | recomputed after every edit | stale or missing entries of nodes still initializing |
| **Connections of operations** (`core/state/connection`, `ui/panel/panelTabs`) | references, and the reference each node uses | picked, created, removed with the node | references shared by operations, keyed by generated names; a creation that ends when its operation is gone |
| **Client services** (`src/libs/services/designer-client-services`) with the login popup (`src/apps/vs-code-designer-react`) | connections in the resource group | a name is looked up, a connection created, logged in to, tested, or deleted after a failure | a name free when asked for and taken when used; a login that times out and comes back; a DELETE nobody waits for |
| **Data map** (`core/state/DataMapSlice.ts`, `utils/Connection.Utils.ts`) | the current map with its two-way connections, cards and level; undo and redo stacks | dragging, dropdowns, deleting, putting a function on an edge, undo, redo, save | each connection is written twice, arrays are connected along, reducers share objects with the maps on the stacks |
| **Data mapper user interface** (`ui`, `components`) | React state | decides which reducer can be called; computes and posts drafts | remembered edges; callbacks that change at each render |
| **VS Code data mapper** (`src/apps/vs-code-data-mapper`, `-react`) | the panel's flag and load data; the map file, its draft | webview and extension host exchange messages; files are written without waiting | messages in an order nobody planned, half-written files, the end of a process |
| **Map definition conversion** (`mapDefinitions`) | none | a map is written as YAML and read back | round trip |
| **Panel, settings and view state** (`core/state/{panel,setting,designerView}`) | which node and tab is shown, validation errors | every click | follows the others |
| **Expression, swagger and manifest parsers** (`src/libs/parsers`) | none | strings are scanned and parsed | precedence and escapes |
| **VS Code extension** (`src/apps/vs-code-designer`) | child processes, ports, panels | starts a design-time host, waits for it, deploys and exports | two panels starting the same host, a host that dies |
| Components, hosts, localization, documentation, tests | | | presentation and data |

In the designer the parts meet in one Redux store. A user's click dispatches a
thunk (`core/actions/bjsworkflow`), which dispatches reducers of several slices,
and React draws the new state. Reducers are atomic: when one throws, none of its
changes is kept. Thunks are not: other dispatches run at each `await`. The data
mapper has a store of its own, whose handlers are synchronous; what is
asynchronous there is the way from the store through the webview and the
extension host to the files.

`PROJECT.json` lists these parts with their sources and lists the hazards of the
code line by line.

## 2. What is modelled

| Module | Models | What its definitions are |
|---|---|---|
| `RunAfter` | `core/parsers/restructuringHelpers.ts`: the helpers that rewrite an edge and a `runAfter` key together | operators on a pair (edges of one graph, `runAfter` of all operations) |
| `GraphEdits` | `BJSDeserializer.ts` and the bodies of `addNodeToWorkflow`, `deleteNodeFromWorkflow`, `moveNodeInWorkflow` and of the trigger cases of `addNode` and `deleteNode` | operators from workflow state to workflow state |
| `WorkflowGraph` | the reducers of `workflowSlice.ts`, the thunks that call them, and the places of the user interface that decide which call can be made (edge buttons, leaf buttons, drop zones, run-after menu) | the state machine: one action per edit |
| `OperationDetails` | `add.ts`, `operationdeserializer.ts`, `updateAllUpstreamNodes` in `initialize.ts`, what `delete.ts` and `move.ts` do besides the graph, the slices they write (`operationMetadataSlice`, `tokensSlice`, `connectionSlice`, the tabs of `panelSlice`), `utils/tokens.ts`, `utils/graph.ts` | extends `WorkflowGraph`: every edit of the graph is joined with what it does to the details, and every answer that arrives is an action |
| `ConnectionSetup` | `createConnectionTab.tsx`, `selectConnectionTab.tsx`, `connectionSlice.ts`; `base/connection.ts` and `standard/connection.ts` of the client services; the login popup `oAuth.ts` of the designer's webview | a creation from the form to its end, several side by side, with the references they leave |
| `MapConnections` | `utils/Connection.Utils.ts`, parts of `utils/DataMap.Utils.ts` and of `DataMapSlice.ts`: the helpers on the dictionary of connections | operators from dictionary to dictionary |
| `DataMap` | the reducers of `DataMapSlice.ts` and what calls them: the canvas, the properties pane, the function list | the state machine: one action per dispatch |
| `MapHistory` | what undo and redo promise | an abstract past, present and future, which `DataMap` implements (`UndoRestoresCards`) |
| `MapFiles` | `DataMapperDesigner.tsx`, `DataMapDataProvider.tsx`; `app.tsx` of the webview; `DataMapperPanel.ts`, `DataMapperExt.ts` and `commands.ts` of the extension | webview, panel and disk, the messages and the writes on their way |
| `MCWorkflowGraph`, `MCOperationDetails`, `MCDataMap`, `MCMapFiles` | | instances for TLC: definitions, schemas, functions, conversions |
| `*Proofs` | | theorems |

The graph came first because every other slice of the designer is keyed by its
nodes and nothing in the code checks it: the definition the designer saves is
whatever the three copies of the order happen to say.

### State: the designer

`wf` is what the workflow slice keeps: `children` and `edges` per graph,
`runAfter` per entry of `operations`, `graphOf` and `isRoot` for
`nodesMetadata`. A scope, foreach or until is an operation and a graph under
one id; its graph starts at a heading (`<id>-#scope`), an until also ends at a
footer (`<id>-#footer`). `doomed` is what a running `deleteGraphNode` still has
to delete. `zones` is what the drop zones on the canvas remember: `useDrop`
memoizes `canDrop` by the ids of the zone, so the scopes around it are those of
the render it appeared in.

`OperationDetails` adds one map per slice, from ids to what the entry is of:
`info` (`operationInfo`), `data` (`inputParameters`, `outputParameters` and the
others that `initializeNodes` writes and `deinitializeNodes` removes), `settings`,
`tokens` (`outputTokens` with their `upstreamNodeIds`) and `mapping`
(`connectionsMapping`). An entry records the kind of the operation it was made
for, so that an entry of another operation under the same id shows. `opening` is
`asyncInitialize` with the definition it holds on to; `loads` are the running
calls of `initializeOperationDetails`, each with the await it is at and with the
upstream nodes that follow from the state it read before the first. `tab` is what
the panel shows. `failed` and `outlived` are history: the ids for which a fetch was
rejected, and those deleted during a load of theirs. They appear in no guard.

`ConnectionSetup` has a state per creation: the request its `stage` waits for, the
`kind` of connection (managed, managed with a login, built in), the `node` it is
for, the `name` it has picked and the `index` of the loop that picks it. `windows`
are the login windows open in the browser, `deletes` the DELETEs under way.
`server` is the resource group, name by name, with the creation each connection
is of; `builtin` is `connections.json`. `references` and `mapping` are the
connection slice: a reference has a key and stands for a connection. `beside`,
`blind`, `refused` are history: which creations met, whose name was taken for
free because of an error, whose DELETE failed.

### State: the data mapper

`cur` is `curDataMapOperation`: the dictionary `conns`, the source nodes on the
`canvas`, the `functions` with a card, the target `level` shown, and the edge
being given a function (`inline`). An entry of the dictionary has `inputs`, a
sequence of fields that hold sequences of values, and `outputs`. `pristine`,
`isDirty`, `undoStack` and `redoStack` are those of the slice. `inserting` is
where `onFunctionItemClick` is between its five dispatches. The slice is written
with plain objects: a reducer that spreads the old map into a new one shares what
it did not copy, and later writes change the map on the undo stack as well.
`Commit(new, old)` therefore takes both, and `SharingEntries` and `SharingAll`
say what becomes of the old one.

`MapFiles` takes a map for a version and a map definition for a text. What
`convertToMapDefinition` makes of a version is a constant, `TextOf`: a text that can
be read, `Empty` (`''`, when `isValidToMakeMapDefinition` says no), or `Throws`, and
then no draft is posted and what is saved is `''` (`Drafts`, `SavedText`). What is
read from a text is another, `MapOf`; that it is the version the text was made of is
not assumed. In the webview: the version `shown`, the `pristine` one, `isDirty`, the
texts whose conversion to XSLT is under way, the text it still has to load, the
function lists it waits for. `channel` is what it posted and the panel
has not handled. In the extension host: `panelDirty`, `loadData`, the map being
opened, the `writes` under way. `disk` is the two files. `drafted`, `disturbed`
and `lastSaved` are history.

### Actions

| Action | Code |
|---|---|
| `AddOperation`, `AddParallelBranch`, `AddTrigger` | `addNode`, from the discovery panel that an edge or leaf button or the placeholder opened. The panel keeps the place of the click; a delete or a move closes it (`clearPanel`), so the place is still there when it is used |
| `DeleteTrigger`, `DeleteAction` | `deleteOperation` |
| `DeleteGraphNode`, `DeleteNextOfGraph` | `deleteGraphNode`: one `deleteOperation` per node inside, then the scope. A delete that throws is a rejected thunk; the others go on |
| `MoveOperation` | a drag that ends in a drop zone: `moveNode` |
| `AddImplicitForeach` | `addForeachToNode`: the foreach is added and the operation moved into it |
| `AddEdgeFromRunAfter`, `RemoveEdgeFromRunAfter`, `UpdateRunAfter` | the run-after section of the settings |
| `OpenDetails`, `OpenConnections` | `initializeOperationMetadata`, `getConnectionsApiAndMapping`: the details of a definition arrive, but for those in `Unreachable` |
| `AddWithDetails`, `AddParallelWithDetails`, `AddTriggerWithDetails` | `addOperation`: `addNode` and the start of `initializeOperationDetails` up to its first await |
| `ManifestArrives`, `ConnectionsArrive`, `LoadEnds` | what follows each await of `initializeOperationDetails`. A failed `updateUpstreamNodes` (it throws when any operation has no tokens) skips the default tabs |
| `FetchFails` | an await that is rejected; nothing catches it |
| `DeleteActionWithDetails`, `DeleteTriggerWithDetails`, `MoveWithDetails` | `deleteOperation`, `moveOperation`: the graph, the details, the upstream nodes of all |
| `ClickCard` | `nodeClick`: the panel shows its default tabs |
| `Begin`, `ListAnswered`, `LookupFails`, `NameTaken`, `NameFree` | `createConnectionCallback` up to the name: the list of the connector, then one GET per candidate; any error of it counts as "not found" |
| `Put`, `Secured`, `Tested`, `WriteLocal`, `Refused` | the requests of `createConnectionInApiHub`, `createConnectionAclIfNeeded`, `testConnection`, `createConnectionInLocal`; a failure sends the DELETE of the `catch` |
| `OpenWindow`, `LoginReturns`, `LoginTimesOut`, `Confirmed`, `ReadBack` | `createAndAuthorizeOAuthConnection` and the popup: the result of a window reaches all popups that wait |
| `Delete`, `DeleteFails` | the DELETE, whenever it arrives, for whatever has the name then |
| `AddNode`, `DefaultSet`, `DeleteNode`, `Select` | the workflow meanwhile: `addOperation` with `trySetDefaultConnectionForNode`, `removeNodeConnectionData`, `saveSelectionCallback` |
| `SetLevel`, `AddSource`, `RemoveSource`, `AddFunction`, `DeleteFunction`, `Drag`, `SetConnectionInput`, `ChangeFields`, `DeleteEdge`, `SetInline` | the reducers `setCurrentTargetSchemaNode`, `addSourceSchemaNodes`, `deleteCurrentlySelectedItem` and so on, as the canvas and the properties pane call them |
| `PickInline`, `InlineDisconnect`, `InlineInput`, `InlineOutput`, `InlineEnds`, `InlineThrows` | the dispatches of `onFunctionItemClick`; one that throws ends the handler where it is |
| `Undo`, `Redo`, `SaveDataMap`, `DiscardDataMap` | the reducers of that name |
| `Edit`, `Discard`, `SaveClick`, `Converted`, `ConversionFails`, `AppRenders`, `MapArrives`, `SchemasChosen` | the webview: each posts what its rendering computes (a draft, or nothing if the conversion throws) and what its effects then tell (the dirty flag) |
| `HandleDraft`, `HandleDirty`, `HandleDefinition`, `HandleLoaded` | `_handleWebviewMsg` |
| `FileOpens`, `FileWritten`, `WriteFails` | a write is two steps: the file is opened and emptied, then filled. A draft that is removed meanwhile is still written, but under no name (`StillNamed` marks it so) |
| `ReadMap`, `NewMap`, `PanelOpens`, `ClosePanel`, `Crash` | the commands of the extension, the panel, and the end of the extension host, which loses everything but the disk |

Each is the whole handler. `Neighbours` is where the code takes the first edge
that matches: the model takes any, since it does not keep the order of edges.
A reducer that throws (`DetachThrows`, `MakeThrows`) leaves the state as it was.

### What is abstracted

- The order of children and edges; an edge drawn twice counts once.
- A status list is `Succeeded`, `Custom`, or `Undefined` (a key whose value is
  `undefined`).
- Names: `addOperation` counts up until an id is free, so any free id may be
  taken; renaming (`idReplacements`) only changes what is shown and saved. The
  name of a connection is the number at its end.
- `edgeIdsBySource` is rebuilt within 200 ms after a change (`ui/Designer.tsx`);
  the model has it up to date, so leaf buttons and drop zones appear at once.
- `canDrop` also refuses a place that is not below the operations whose outputs
  the dragged one uses. The operations of the model use none.
- Headings, footers and subgraphs are also passed to `deleteOperation` by
  `deleteGraphNode`; they have no metadata, so these calls are rejected.
- Read-only and monitoring views, collapsing and focus.
- Of an operation's details, only what they were made for; the kinds are two, one
  that needs a connection (as all swagger operations and some manifests do) and one
  that does not. Dynamic inputs and outputs (`updateDynamicDataInNode`), variables,
  static results and the tokens a foreach lends to its contents are left out.
- Of a connection, its name and side (managed or built in). Parameters, identities
  and the policy itself are left out; the request for the policy is a step that
  cannot end a creation, as in the code.
- Of a map, the connections by node: positions, the selection, notifications,
  and the index functions that sequence inputs of arrays need are left out. A
  custom value is one value. The order of functions and source nodes on the canvas
  is left out, and an array connected along the way may be any where the code takes
  the first it finds (`DeletedArrays`, the target in `MakeConnection`).
- Of the conversion of a map, its three outcomes (above), and of reading one, that a
  text is some map. A deserializer that throws leaves the webview without a map, as if
  the text had never arrived, which the model has too. What the backend makes of `''`
  is open: `generateDataMapXslt` may answer or fail, for it as for any text.
- Of the map's files, the definition and the draft. The XSLT file is written
  together with the definition; the file of card positions is not read back for
  anything the properties are about.

## 3. What the runs check

| Run | Instance | Properties |
|---|---|---|
| `FlatWorkflow` | nothing, or `a`, `b` and then `c`; one trigger, three actions, a foreach; every edit but the run-after menu | `TypeOK`, `OneTriggerOrPlaceholder`, `EdgesJoinCards`, `EveryCardIsReached`, `SavedRunAfterIsDrawn`, `OthersKeepTheirOrder` |
| `NestedScopes` | a trigger; two actions and two scopes added, branched, moved and deleted | `GraphsAgreeWithMetadata`, `NothingLeftBehind`, `RootsHangFromHeading`, `MoveLeavesOldParents` |
| `UntilLoop` | an until loop with two actions, one more to add | `ScopesAreDeleted` |
| `RunAfterMenu` | a chain or a join of three actions; parallel branches, deletes, the run-after menu and its statuses | `Acyclic`, `DrawnEdgesAreSaved`, `SavedStatusesAreChecked` |
| `OperationDetails` | a trigger and `a` are opened, the details of `a` perhaps in vain; `a` and `b` are added, branched, deleted, moved, the trigger replaced; two additions with their awaits | `DetailsTypeOK`, `UpstreamSettles`, `DetailsAreOfOperation`, `DeletedIsForgotten`, `PanelSettles` |
| `ConnectionSetup` | two creations, each managed, with a login or built in; one or two operations; a listed and an unlisted connection; one edit of the workflow meanwhile | `ConnectionTypeOK`, `ReferencesFit`, `ConnectionsStay`, `FailedIsRemoved`, `ReferencesKeepTheirMeaning`, `CreationsEnd` |
| `MapEdges` | a source, a target with a child, two functions of one input; cards, drags, dropdowns, deletions | `InputsAreListed`, `MapIsAcyclic`, `DrawnEdgesHaveCards` |
| `MapFields` | the same schemas, a function with any number of fields and one with one; fields and handles | `MapTypeOK`, `InputsHaveEntries`, `CardsHaveEntries`, `OneValuePerField` |
| `MapArrays` | an array around a value on both sides, no function on the canvas; values dragged, source cards added and removed, levels | `ArraysFollow` |
| `MapUndo` | a loaded map; functions put on edges, levels, undo, redo, save and discard | `HistoryIsBounded`, `UndoRestoresCards` |
| `MapFiles` | a map that can be converted, one that is not valid and one that makes the conversion throw; two texts of the first; webview, panel and disk, with crashes | `PanelIsTold`, `DraftFollowsEdits`, `DefinitionIsLastSave`, `TitleCatchesUp`, `SavesAreWritten` |
| `LostDraft` | the same three maps; stops at a counterexample | `OpenedDraftIsSaved` |

The properties of the workflow, in words:

- `GraphsAgreeWithMetadata`: the tree by children and the tree by `graphId` are
  the same, so no node is drawn twice or lost by a lookup.
- `NothingLeftBehind`: between edits every operation known is on the canvas.
- `OneTriggerOrPlaceholder`: the root graph has exactly one first node as soon
  as it has any.
- `EdgesJoinCards`, `EveryCardIsReached`, `Acyclic`: no dangling edge, nothing
  cut off, no cycle, on the canvas and in `runAfter`.
- `SavedRunAfterIsDrawn`, `DrawnEdgesAreSaved`, `SavedStatusesAreChecked`: what
  the serializer writes as `runAfter` and what the canvas shows are the same,
  and every entry has a status.
- `RootsHangFromHeading`: `isRoot` marks the first operations of a scope.
- `OthersKeepTheirOrder`: an edit concerns one operation; any two others stay in
  the order they were in.
- `MoveLeavesOldParents`: a moved operation keeps no edge of its old place.
- `ScopesAreDeleted`: what a scope delete sets out to delete is deleted.

Of the details of operations:

- `UpstreamSettles`: once nothing is on its way, every operation is offered the
  outputs of exactly the operations before it, although a load computes them from
  an old state and an update of all is dropped whole while one operation has no
  tokens. It holds because a load that ends updates all, and the last one to end
  finds everybody's tokens.
- `DetailsAreOfOperation`: no entry of an earlier operation under the same id, and a
  mapping exactly for those that need a connection.
- `DeletedIsForgotten`: a deleted operation leaves no inputs (which would block
  saving when invalid), settings or mapping (which would be saved), unless it was
  deleted while its details were on their way.
- `PanelSettles`: when nothing failed and nothing is on its way, the panel is not
  left on the loading tab.

Of connections:

- `ReferencesFit`: every operation with a connection names a reference that
  exists, and a connection has one reference however many operations use it.
- `ReferencesKeepTheirMeaning`: giving a connection to one operation never changes
  what the reference of another stands for.
- `ConnectionsStay`: a connection that was there, or was made and given to an
  operation, is neither overwritten nor deleted, but by a creation that ran beside
  its own with the same name, or by a careless one (its name was taken for free
  because of an error, or it was a failed built-in connection).
- `FailedIsRemoved`: a creation that failed leaves nothing in the resource group
  once its DELETE is answered, unless the DELETE was refused.
- `CreationsEnd`: every creation ends; the form does not stay busy.

Of the data map:

- `InputsAreListed`: what the inputs of a node name lists that node among its
  outputs. The other direction is not claimed: see below.
- `MapIsAcyclic`: no function is computed from itself.
- `InputsHaveEntries`, `CardsHaveEntries`: what walks up the connections, and what
  shows a card, finds the entry it reads without asking.
- `OneValuePerField`: a field holds two values only where the code means it to.
- `DrawnEdgesHaveCards`: each edge handed to the layout joins two cards.
- `ArraysFollow`: where a value inside a source array reaches a target inside a
  target array, the target array takes the source array too.
- `HistoryIsBounded`: the stacks together hold no more maps than the undo stack
  may, although redo pushes without looking.
- `UndoRestoresCards`: the function cards, the level and the edge being edited
  behave as the past, present and future of `MapHistory`. It is a refinement; it
  says nothing of connections, because undo does not bring all of them back (below).

Of the files of a map:

- `PanelIsTold`: what the panel was told last, or knows already, is whether the map
  is dirty.
- `DraftFollowsEdits`: when everything has settled the draft is the text of the map
  shown, `''` if that is not valid, or of the last one before it at which the
  conversion did not throw. If nothing was posted since the map became dirty there is
  no draft. So the draft is the user's map only while it can be converted: the
  property says exactly what it is otherwise.
- `DefinitionIsLastSave`: when everything has settled the definition file is the
  text saved last, also after the panel was closed or the host ended.
- `TitleCatchesUp`, `SavesAreWritten`: the title follows, a save gets to the file.

`DraftFollowsEdits`, `DefinitionIsLastSave` and `SavesAreWritten` leave out the files
in `disturbed`, those where two operations overlapped, or one failed or was cut off.

### Bounds

Small instances suffice to exercise every branch: an edit of the graph looks at
one operation, its parents, its children and the graph around them, so two nodes
above and one below an operation, or two levels of nesting, show every case of
the helpers. All actions are taken, and all branches of them.

`Edits` names the kinds of edit the user makes in the workflow. Three of them say
how far a run goes:

- without `joins`, operations that several edges enter are not deleted, moved
  or wrapped (everything around them is);
- without `nest`, scope cards are not dragged into other scopes (scopes are
  added inside scopes, and moved out);
- without `early`, the canvas is edited only after the details of the opened
  definition have arrived.

What happens beyond each is told under "Seen while modelling". `RunAfterMenu`
does not add or move operations, since an edge drawn by an insert may not be saved
and the menu decides by what is saved. `DetailsAreOfOperation` and
`DeletedIsForgotten` leave out the ids in `outlived`: a load that outlives its
operation does store its details under the dead id. `UpstreamSettles` and
`PanelSettles` leave out rejected fetches: nothing handles them, and the tokens of
the operation are missing from then on. `Loads` bounds the number of additions:
two, which is what it takes for one load to overtake another and for an id to be
given away twice. Two operations and a trigger give a load something before it and
behind it. Scopes are opened but neither added nor moved with their details.

`ConnectionSetup`: `Creations`, two, can meet, or follow each other as a failure
and its retry. `Indices` are the numbers a name may end in; with one name listed
and one not, two creations need four, and `Room` names the bound. `MaxEdits` is
one: an operation is added, deleted or given another connection at any moment of
two creations. `Workflows` has the operations the definition starts with.

`MapEdits` names the kinds of edit of a map, one set per run, so that each run goes
through all orders of the edits its properties depend on. `MaxFields` is two, since
fields are looked at one at a time, `UndoDepth` is two instead of 20, which lets the
stacks fill, drop a map and be redone to the limit. `FunctionNodes` are the cards
the user has, each with its kind; an id is given away again after a card is deleted.

`MapFiles`: the user goes on once the panel has handled what was posted and no
more than `MaxWrites` writes are under way (none); closing, opening and crashing are
possible at any time. `MaxSaves` is the number of conversions at one time. The three
versions are the three outcomes of a conversion; a readable text and `''` are what it
takes for a draft or a definition to be stale, and a second text of the same map is
what a definition may hold that was not written here.

Symmetry is used where no liveness is checked and the ids differ in nothing:
actions in `FlatWorkflow`, operations in `NestedScopes` (`AnyOperation` exchanges
actions with actions and scopes with scopes), loads in `OperationDetails`.

Three runs let the system stop (`CHECK_DEADLOCK FALSE`). In `RunAfterMenu` and
`OperationDetails` everything may have been deleted, with nothing left to add
within the bounds. In `ConnectionSetup` all creations have ended and the edits
are used up.

### Fairness

- `WF_vars(DeleteNext)`: the recursion of `deleteGraphNode` runs to its end
  without yielding, so each of its dispatches happens.
- `WF_fileVars(Handle)`: messages between a webview and its extension host are
  delivered in order. `WF_fileVars(FileOpens(1) \/ FileWritten(1))`: the oldest write
  ends. It may fail all the same, which `disturbed` records.
- `WF_connectionVars(Answer(c))` for each creation: a request is answered, or ends
  with an error, and the timer of the login runs for 300 seconds at most.

Nothing is assumed about the user, about login windows or about DELETEs.

### A disagreement found

`LostDraft` stops at a counterexample: a map is edited, a draft is written, the
panel is closed and the map is opened again. The draft is read, but before the
webview has it, its first effect reports that the map is not dirty, and the panel
removes the draft. The map now shown is in no file and counts as clean, so the
command bar offers no save. `PROJECT.json` quotes the comments that say otherwise.

### Seen while modelling

What follows is what the code does beyond the bounds and exceptions above; each
was seen in a counterexample of TLC or read in the code while a definition was
written. It is why the bounds are where they are.

In the workflow:

- A deleted operation with several parents and several children gives all its
  parents to the first child; the other edges dangle
  (`core/parsers/deleteNodeFromWorkflow.ts` 37).
- An operation below the trigger and an action that is moved stays attached to
  one of them: the edge from the trigger has no `runAfter` key and is not counted
  (`moveNodeInWorkflow.ts` 67).
- An operation is inserted below a trigger with several children: edges to the
  children are drawn, but their `runAfter` is absent and stays so
  (`restructuringHelpers.ts` 108). Then the run-after menu offers an operation that
  already comes later, which makes a cycle on which `getSuccessorNodes` and
  `useGetAllAncestors` do not end.
- An operation inserted behind a new first operation of a scope gets a `runAfter`
  key without a value (`addNodeToWorkflow.ts` 60).
- Scope `f` is moved into scope `s` and then `s` into `f`: the drop zone in `f`
  still has the ancestors it had before, and both leave the canvas
  (`ui/connections/dropzone.tsx` 76).
- An operation inside an until loop is deleted: `updateAllUpstreamNodes` knows no
  manifests and takes from the loop all that it holds (`initialize.ts` 402).
- An until loop ending in an operation with two parents is deleted: the reducer
  throws for that operation, which stays in the state without a graph
  (`restructuringHelpers.ts` 94).
- Deleting a first operation of a scope makes all its children roots, also one
  that still runs after another, and a root is saved without `runAfter`
  (`deleteNodeFromWorkflow.ts` 25-30).
- Wrapping an operation with two parents in a foreach leaves an edge into the
  foreach dangling (`workflowSlice.ts` 86-108).
- `actionCount ?? 0 + 1` counts nothing (`addNodeToWorkflow.ts` 77).
- Edits before the details of the opened definition have arrived (`early`) are
  written over by what follows from the definition as opened, and deleted
  operations get their details back: all four safety properties of
  `OperationDetails` fail. The code does nothing against it and says nothing of it.

In connections:

- Two creations beside each other take the same name: the second replaces the
  connection of the first and, when it fails, deletes it. Any error of the GET that
  looks a name up counts as "not found".
- The DELETE of a failed creation may reach the server after the retry.
- A built-in connection that cannot be created sends its DELETE to the resource
  group too, where a managed connection may have the name.
- `createConnectionInApiHub` sends a DELETE of its own with the whole path for a
  name, so it names no connection.
- The result of one login window ends the wait of all popups of the panel. The
  popup of the client services (not the one of the VS Code panel, which is
  modelled) resolves after a while with neither a code nor an error, and the
  creation goes on.
- An operation deleted while its connection is created keeps an entry in the
  mapping, whose reference is saved.

In the data map (paths below `src/libs/data-mapper/src/lib/`):

- One of two fields with the same source is replaced: the only output goes with
  it. `newConnectionWillHaveCircularLogic` follows outputs, so a dropdown
  (`components/inputDropdown/InputDropdown.tsx` 199) can then close a cycle; handles
  of expanded function cards do not ask at all. `makeConnection` walks the inputs
  and runs out of stack, which ends the reducer and keeps the map acyclic in
  most of these cases; the runs have one field fed by one function.
- Around a value only the first target found is taken, when a function already
  feeds two (`core/state/DataMapSlice.ts` 425, 449): an array is then not
  connected. `MapArrays` puts no function on the canvas.
- Leaving a level drops the functions that reach nothing on it, also one that
  feeds another level (`DataMapSlice.ts` 291), and inputs name no entry.
- With arrays an edge may be drawn from a source array that has no card.
- The command bar's undo does not take back what a reducer wrote into the connections it
  shares with the map it pushes. `deleteConnection` copies the map, whose dictionary is
  the one it writes to (`core/state/DataMapSlice.ts` 394): a deleted edge of a loaded map
  is not on the undo stack any more. `makeConnection` copies the dictionary, whose
  entries it writes to. `UndoRestoresCards` is about what undo does restore: cards,
  level and the edge a function is being put on.
- Undoing what put a connection to a function card may leave its input naming a source
  node that has no entry: the card's entry is shared with the map on the stack, the
  dictionary is not.
- An unbounded function that takes a function in two fields, replaced in one of them,
  still names it when it is deleted.
- The filter of the function list compares two keys only; the debounced custom value keeps the
  card of the first rendering of its dropdown (`InputDropdown.tsx` 228).

In the files of a map:

- A draft that is being written when the map is saved or discarded appears after
  its removal, and is preferred at the next opening; a draft cut short makes the map
  impossible to open.
- The draft of a map that is not valid to convert, say with a function that still lacks
  an input, is `''`. It takes the place of the draft of all edits before it. Opened
  again, it is preferred to the definition, and `yaml.load('')` is undefined, on which
  `loadDataMapFileCmd` throws (`commands/commands.ts` 68, 76): until the draft is
  removed by hand the map cannot be opened. When the conversion throws, no draft is
  written and the last one stays.
- Saving does not ask whether the map is valid. In both cases `''` is converted, and
  written over the definition if the backend answers.
- `saveDataMap` removes the draft before the definition is written.
- The answer of a conversion marks edits made since the click as saved.
- A second list of functions loads the map again over edits made since the first. The
  model does it (`MapArrives`), and the draft then follows the map loaded again: no
  property says that edits survive, because nothing in the code keeps them.
- The first edit after a save is not drafted before the second, or before the
  application renders again.

## 4. What is proved

The proofs assume the assumptions of the modules only, and what a theorem states
as its hypothesis. The assumptions: constants are distinct; a definition is a
trigger and a tree of actions (`DefinitionsAreSound`, what the deserializer can be
given); only finitely many ids are ever used (`OperationsAreFinite`), which what is
defined by as many steps as there are operations needs to come to an end; the card of
a heading or a footer is not one of an operation (`CardsAreNoOperations`, the suffixes
of `core/utils/graph.ts`); an absent `runAfter` is no object (`AbsentIsNoObject`); the two
schemas of a map are finite trees, each within itself (`SchemasAreTrees`), there are
finitely many functions to put on a map, and each has a number of inputs or takes any
(`FunctionsAreFew`). TLC evaluates them in every
run. A hypothesis says which definitions, edits or scopes a
theorem is about; each is satisfied by a run, and without it the property is false, as
far as is said below.

`WorkflowGraphProofs` proves, for any sets of ids, any sound definitions and any
kinds of edit (with `joins` and `nest`, so beyond the bounds of the runs):

- `TypeCorrect`: `Spec => []TypeOK`;
- `GraphsAgree`: `Spec => []GraphsAgreeWithMetadata`.

The invariant is `Inv == IsWellFormed(wf) /\ doomed \subseteq Operations`, with
`IsWellFormed` the type of the state together with the agreement of the two
trees. Neither half is inductive alone. A delete makes the targets of a root's
edges roots if they have metadata: that these are operations (and no headings or
footers) is known only because metadata is kept for operations alone, which is
agreement. And a node taken out of one graph and put into another is in exactly
one afterwards only because it was in exactly one before. `IsRendered` says that
the zones remembered are the zones offered, which gives the sites of an edit
their type. Lemmas about `RunAfter` show that each helper keeps links well formed
(`AddNewEdgeIsLinks`, ..., `DetachNodeIsLinks`); lemmas about `GraphEdits` that each
rewrite keeps a state well formed (`DeserializeWellFormed`, ...,
`MoveNodeWellFormed`); `NextInv` has one step per action.

`OperationDetailsProofs` proves, for any sets of ids and kinds, any definitions and
any number of loads:

- `GraphsAgreeUnderDetails`: `DetailsSpec => []GraphsAgreeWithMetadata`, because
  `StepIsEdit` maps every step of `DetailsSpec` to an edit of `WorkflowGraph` or to a
  step that leaves the graph alone;
- `DeletedAreForgotten`, `DetailsMatch` and `PanelIsNotStuck`: `DetailsSpec` implies
  `[]DeletedIsForgotten`, `[]DetailsAreOfOperation` and `[]PanelSettles`, each under
  `"early" \notin Edits` (with it they are false, see above).

The three properties speak of what is stored once nothing is on its way; the
invariant `DetailsInv` must say what is stored before. `LoadsInv`: a load runs for an
operation there is or for one that died during it, and two loads of one id mean that
it died. `OpeningInv`: nothing runs while a definition is opened. `CoherentInv`: the
await a load is at shows in what is stored (`Progress`), and without a load
everything is there. `KeptInv`: nothing is kept but of operations there are, which is
what makes an id clean when it is given away again. `PanelInv`: without rejections, an
operation without tokens has a load that will bring them, so an update of upstream
nodes can only throw while another load is still to end. There is one lemma per
action (`FinishKeepsInv` is shared by the two ways a load ends); `AddDefines`,
`DeleteUndefines` and `MoveDefines` say what an edit of the graph does to the set of
operations. TLC checked `DetailsInv` on the instance of the run `OperationDetails`
before it was proved.

`CanvasProofs` proves nine properties of the canvas, for any number of operations, with
scopes, foreach and until loops, any definitions and any order of edits. The hypotheses
are three:

- `CanvasOnly`: no run-after configuration is ticked or unticked (`runAfter`), and
  definitions are sound: `RunsInOrder` (every key has a status and no operation comes
  after itself), all actions are inside the root graph, there are none without a trigger,
  and only actions of the root graph run after several others, which then are not deleted,
  moved or wrapped (`joins`);
- `NestsNothing`: `CanvasOnly`, and no scope is moved into another (`nest`);
- `WrapsOutermost`: `CanvasOnly`, and no foreach is put around an operation of a scope
  (there is one scope only, if `foreach` is among the edits).

Under `CanvasOnly`:

- `AlwaysOneTriggerOrPlaceholder`, `EdgesAlwaysJoinCards`, `EveryCardIsAlwaysReached`,
  `CanvasIsAlwaysAcyclic`: `Spec => []...`;
- `OthersAlwaysKeepTheirOrder`, `MovesAlwaysLeaveOldParents`: the two action properties.

Under `NestsNothing`, `NothingIsEverLeftBehind`: `Spec => []NothingLeftBehind`. Under
`WrapsOutermost`, `RootsAlwaysHangFromHeading` and `SavedRunAfterIsAlwaysDrawn`: `Spec`
implies `[]RootsHangFromHeading` and `[]SavedRunAfterIsDrawn`.

`CanvasInv` is `Inv`, `IsRendered` and `CanvasState(wf)`, with `DoomedAreDrawn` (what is
still to go with a scope is drawn where its metadata says, with one edge to it) and
`ZonesKnowTheirGraph` (a drop zone remembers that it is inside its own graph, so no scope
is dropped into itself). `CanvasState` says of each graph that it hangs from its first node
or heading (`IsCanvas`: every edge joins two cards and none enters the first, every
other card is entered, and none comes after itself), that a `runAfter` key lies along an
edge (`KeysFollow`), that the card of a loop's end is last, and that in a scope every card
but that has one parent. No conjunct is inductive alone. A deleted
operation hands its children to its parent, and that they stay reached is
`EveryCardIsReached` of the state before; that no circle closes is that the parent came
before the child (`Acyclic`), also of the edges an edit leaves alone, which is why the
order of the others is carried through each step (`SameOrder`, from which
`OthersKeepTheirOrder` follows); and that a key still follows an edge when the helpers
move it takes that the edge they look for is the only one into the card. `Below`, which
the model computes by as many steps as there are operations, is shown to be the least
closed set (`Later`, by `BelowIsLater`), and all arguments about paths are about that set.

The edits are taken in two stages. What the helpers of `RunAfter` do to one graph is said
of its edges alone (`IsJoined`, `IsDetached`, `IsRenamed`), and a graph with a node more, a
node less or another name for one is again a canvas (`CanvasWith`, `CanvasWithout`,
`CanvasRenamed`). What each action does to the state is one of a few relations between
two states: a node was added, removed or moved, a foreach was put around it, the first node
is another (`IsAdded`, `IsRemoved`, `IsMoved`, `IsWrapped`, `PutsFirst`). `StepKeepsCanvas`
shows that every step of `Next` is such an edit of one operation or part of the deletion
of a scope (`IsStep`), and that the canvas stays one. The other theorems follow from these
relations and never look at the helpers again.

Two more invariants are about what is in which graph. `HomeInv`, under `CanvasOnly`: every
operation is in the graph its metadata names, the graph is there, and what is to go with a
scope holds what is drawn in its own graphs and is on the canvas (`DoomIsWhole`). So when
the thunks come to a scope it is empty (`EmptyWhenRemoved`), and no thunk is rejected for a
graph that is not found; and `runAfter`, which knows no graphs, leads nowhere that the edges
do not, which `CanvasIsAlwaysAcyclic` takes. `TreeInv`: no graph is inside itself, so whoever goes up gets to the
root graph. For `RootsInv` the roots of a scope are what its heading leads to, edit by
edit. TLC checked these three on the runs below before they were proved.

The run `NestedScopes` satisfies all three hypotheses with two scopes, and `UntilLoop` and
`FlatWorkflow` with one; `OperationDetails` satisfies them without.
They are needed. `nest`: a scope is moved into another and that into the first, by a drop
zone with the ancestors it had before, and both leave the canvas. `foreach` around the first
operation of a scope: the foreach is drawn below the heading and is no root, because
`getImmediateSourceNodeIds` leaves headings out, so the key of the heading is saved as if
it were an operation; TLC finds this in an instance with two scopes after a few edits.
`joins` where operations have several parents: a deleted one gives them all to one child.
`runAfter`: it makes such operations, also in scopes.

`RunAfterProofs` proves under `MenuOnly` (no scopes; edits are parallel branches, deletes
of operations and the run-after menu with its statuses; definitions sound to run):

- `DrawnEdgesAreAlwaysSaved`, `SavedStatusesAreAlwaysChecked`, `AlwaysAcyclic`:
  `Spec => []DrawnEdgesAreSaved`, `[]SavedStatusesAreChecked`, `[]Acyclic`.

Here joins are made and taken apart, by the menu and by deletes, so the canvas is no
tree. `MenuInv` says that edges and keys agree in both directions, that every key has
statuses, and that the workflow is `InOrder`: no operation is among its own successors.
The menu offers an operation only if it is no successor, and `Successors` is shown to be
the least closed set (`SuccessorsAreClosed`), so no circle runs through the pair the menu
adds. Inserting between, moving
and replacing the trigger are excluded because they draw edges without keys where the
parent is the trigger ("Seen while modelling").

`UpstreamProofs` composes the details with the canvas: under `FlatOnly`, which is `CanvasOnly`
without scopes,

- `UpstreamAlwaysSettles`: `"early" \notin Edits => (DetailsSpec => []UpstreamSettles)`;
- `DetailsKeepTheirTypes`: `DetailsSpec => []DetailsTypeOK`.

`FlatUnderDetails` carries `TreeInv` over to `DetailsSpec`, since every step is an edit or
leaves the graph alone. `UpstreamInv` says what is known before all is settled: an
operation has tokens, or a load that has not brought them yet, or lost a fetch
(`Covered`), so an update that throws has a load behind it that will update again; all
is up to date, or an operation there is has a load that still ends in an update, or lost
a fetch (`Unsettled`); and triggers, which no update reaches, are never brought anything.
`UpdatingKeeps` is the step of every update, `WaitingKeeps` of every other. What is
offered is shown to lie within any set closed under parents (`SourcesAreWithin`), hence
without headings and footers and, for a trigger, empty. TLC checked `UpstreamInv` on the
run `OperationDetails` before it was proved.

`ConnectionSetupProofs` proves, for any operations, creations, names and order of
answers:

- `ReferencesAlwaysFit`: `ConnectionSafety => []ReferencesFit`;
- `ReferencesAreKept`: `ConnectionSafety => ReferencesKeepTheirMeaning`;
- `ConnectionTypes`, `ConnectionsAlwaysStay`, `FailuresAreRemoved`: `ConnectionSafety`
  implies `[]ConnectionTypeOK`, `[]ConnectionsStay` and `[]FailedIsRemoved`.

The argument is `AssignKeeps`: a reference is looked for by connection before one is
made, and the new one's key is free (`UniqueNameIsFree`: a set of numbers that is not
empty has a least one, which is where well-foundedness of the naturals is used).
With that `ReferencesFit` is inductive as it stands.

What is on the server is another matter: a DELETE nobody waits for takes whatever has
the name when it arrives. `ServerInv` says that a DELETE is one of a creation that failed;
that two creations (or their DELETEs) that are alive at one time are on record as having
met (`AliveHaveMet`); that what stands under a name was made by a creation that picked it
(`MadeUnderItsName`); that a creation which may still write or delete under its name, and
has really looked, finds nothing there that it has not met (`ArmedHaveLooked`); and that a
creation that has not given up finds its connection, or has met one of the same name, or
the name was taken by one that had not looked (`HeldOrMet`, `EarlierStay` for the
connections there were before). So whoever strikes a connection is excused by what
`ConnectionsStay` allows for (`OwnersAreExcused`). Only `Put` and `Delete` write to the
server; every other step is shown to be `Steady`.

`DataMapProofs` proves, for any schemas, functions, loaded maps and limits:

- `BoundedHistory`: `MapSpec => []HistoryIsBounded`;
- `UndoRefinesHistory`: `"undo" \in MapEdits => (MapSpec => UndoRestoresCards)`, the
  refinement of `MapHistory`: initial states map to initial states and each step to
  an edit, an undo, a redo, a restart or a stutter.

Both rest on `Recorded`: every reducer that edits ends in `Commit` with an old map
that shows what the current map shows, however much of the old one it has
overwritten by then. There is one lemma per reducer. `StacksOK` gives the stacks
their type and the bound, from which the step of each stack follows.

About the dictionaries themselves, with every kind of edit, it proves when the entries
of loaded maps are well formed (`MapsAreSound`, what the deserializer of a map writes):

- `MapsAreTyped`, `OneValueInEveryField`: `MapSpec` implies `[]MapTypeOK` and
  `[]OneValuePerField`;
- `CardsAlwaysHaveEntries`: `MapSpec => []CardsHaveEntries`, unless `undo` and
  `deleteFunction` are both among the edits (`CardsStay`). With both it is false: the
  map on the stack shares the dictionary the deletion wrote to ("Seen while modelling").

`DataInv` is `StacksOK`, every map of the slice sound (`SoundMap`), and what is left of
putting a function on an edge fits the current map (`InsertingIsSound`). `SoundMap` says
more than the type, which is not inductive: source nodes take nothing and targets give
nothing, so that no edit writes to an entry of the wrong shape; and a slot that is no
manifold holds one value (`Filled`). That a second one never joins the first has three
reasons: the card refuses a drag when no field is free (`SlotAvailableIsRoom`, counting),
a handle replaces what its field holds, and the function of an insertion is new, so its
fields are empty until the third dispatch, and the last one goes to the field that the
first has emptied, which is why `InsertingIsSound` remembers where the edge went. A fifth
conjunct of every step, `Sealed`, is what a reducer owes the map it pushes on the stack,
with whose entries it may share: both come out sound.

Every helper of `MapConnections` has its lemma (`ConnectIsDict`, `SetValueIsDict`, ...,
`DeletedArraysAreDicts`). Those that are recursive functions rest on
`RecursionHasSolution`: where every call is nearer to the last by some well-founded
order (`Descends`), the equation has a solution, and the solution's values are in every
set that the step stays within (`Inherited`).

For maps loaded without a circle (`MapsAreOrdered`) and every kind of edit but `input`:

- `MapStaysAcyclic`: `MapSpec => []MapIsAcyclic`.

`MapIsAcyclic` speaks of what `Upstream` computes, so the first step is what that is:
after as many rounds as there are nodes it is closed, and it lies within every closed set
(`SpreadIsReach`, `UpstreamIsReach`). `Acyclic` says the same of the dictionary alone, in
a form that edits preserve: each set of nodes has one that names none of the set. Every
helper makes nodes name less (`NamesLess`: deletions, a level that drops functions, fields
taken away) or makes one node name one more (`NamesMore`). Less closes nothing. A circle
that one more input closes runs through what the input names (`MoreIsAcyclic`); if that is
a source node it names nothing, which is why arrays are connected along without a check,
and if it is a function `makeConnection` walks up from it and throws (`MadeIsAcyclic`).
The invariant, `OrderedInv`, says so of all maps of the slice, since undo and discard bring
them back, and the maps on the stacks get entries of the new one (`RewiredIsOrdered`).

`input` is excluded because the dropdowns connect without walking and ask
`newConnectionWillHaveCircularLogic`, which follows outputs: in an instance with an
unbounded function TLC closes a circle in a few steps, by way of a node that is in two
fields and then replaced in one ("Seen while modelling"). Where each function has one
input the check suffices: `DropdownsCloseNoCircle` below. The runs `MapUndo` and
`MapArrays` satisfy the hypotheses of the theorem.

The last four are about the two halves of a connection. All of them assume a target
schema on one level (`OneLevel`), no `undo`, and loaded maps whose inputs name entries
and whose functions each serve a target (`MapsAreJoined`):

- `InputsAlwaysHaveEntries`: `MapSpec => []InputsHaveEntries`, with any functions, unless
  functions are deleted where a node may have several fields;
- `InputsAreAlwaysListed`: `MapSpec => []InputsAreListed`, where every node has one field,
  or where no function is unbounded and drags alone connect (`ListsAreKept`);
- `DropdownsCloseNoCircle`: then, for maps loaded without a circle, `[]MapIsAcyclic` with
  the dropdowns as well;
- `DrawnEdgesAlwaysHaveCards`: then, for schemas without arrays and without `inline`
  (`SourcesAreKept`), `[]DrawnEdgesHaveCards`.

`MapFields` satisfies the hypotheses of the first, `MapEdges` those of the other three.
Each hypothesis excludes something that TLC shows or the code says to break the property
("Seen while modelling"): with `undo`, a function card keeps an input whose source lost
its entry; a node that is in two fields and replaced in one is no longer listed, and is
then deleted under what still names it; leaving one of several levels drops functions
that feed another; with arrays, an edge is drawn from one that has no card; with `inline`,
a function is put on an edge remembered from a click, whose source card and connection
were removed since, and the new connection starts at no card.

The invariant, `JoinedInv`, adds to `DataInv` what the code never writes down: that on a
level every function in the dictionary has a card, and that in the overview, where there
are no cards, each serves a target, so that its card comes back with the level (`Joined`).
A change of level drops the functions that reach nothing. That this leaves no input
without its entry is the main step: a function that is dropped is named by nobody that
stays, for whoever names a function that serves nothing serves nothing either
(`NamersServe`, `DroppedAreNotNamed`). `Linked` is what each helper of `MapConnections`
keeps of entries and lists. For the dropdowns, `newConnectionWillHaveCircularLogic` finds
what is downstream by outputs (`DownstreamIsReach`); when inputs are listed that is
everything a new input could close a circle with (`ListedMoreIsAcyclic`).

`MapFilesProofs` proves, for any versions, texts, conversions and bounds, through saves, renders, lost
messages, crashes and reopening:

- `PanelIsAlwaysTold`: `FilesSafety => []PanelIsTold`. `Told` is the property of a
  channel; the lemmas say what becomes of it when a message is handled and when some are
  posted, `FilesInv` adds that a closed view is clean, which is what the first message
  of the next panel says.
- `DefinitionIsAlwaysLastSave`, `DraftAlwaysFollowsEdits`: `FilesSafety` implies
  `[]DefinitionIsLastSave` and `[]DraftFollowsEdits`.

The last two speak of a moment when nothing is on its way. `SettlingInv` says what holds
before: what was saved or drafted last is in a message on the channel, or the one write
of its file that is under way, or the disk has it (`Settles`, `DefinitionSettles`,
`DraftSettles`), but for files that are on record as `disturbed`; and what the webview
posts together is in order, and the last draft that was posted is of the map shown
whenever that can be converted (`Orderly`). `TextOf` and `MapOf` are any functions, so
`DraftAlwaysFollowsEdits` holds whatever is made of a map and read from a text.

Only model-checked: `ArraysFollow`, which the code keeps where no function serves two
targets, and the liveness properties, which are out of the proof system's reach (`ScopesAreDeleted`,
`CreationsEnd`, `TitleCatchesUp`, `SavesAreWritten`). What a recursive function computes
for every input is not proved either, since there is no induction over data; what is
proved of one is that its equation has a solution, and what any solution has: a set of
nodes that are reached is closed and within every closed set, a dictionary is well
formed.

## 5. Not modelled, and what comes next

In this order:

1. **Scopes with subgraphs** (`GraphEdits` extended): if and switch, adding and
   deleting cases, `actionCount`, nested foreach.
2. **OperationDetails** with scopes: the foreach that is added around an operation
   with its own load, the tokens of loops, dynamic inputs and outputs after a
   connection is chosen; composed with `ConnectionSetup`.
3. **DesignTime**: starting and finding the design-time host of the VS Code
   extension (`startDesignTimeApi.ts`), which several panels share.
4. **Map definition conversion**: the round trip of small maps.
5. Consumption connections, whose naming and clean-up differ.

Left out for good, or until a property needs them: the expression, swagger and
manifest parsers and the generated tables beside them (string algorithms and data),
presentation, layout, localization, deployment and export (calls of Azure and of the
file system), hosts for development, tests.

Proofs planned: `UpstreamSettles` with scopes, once the model has the tokens of loops;
`ArraysFollow` for values that are dragged straight to targets.

## 6. Running it

`tlc -workers 2 -config FlatWorkflow.cfg MCWorkflowGraph.tla` checks a run.

| Module | Configurations |
|---|---|
| `MCWorkflowGraph` | `FlatWorkflow`, `NestedScopes`, `UntilLoop`, `RunAfterMenu` |
| `MCOperationDetails` | `OperationDetails` |
| `ConnectionSetup` | `ConnectionSetup` |
| `MCDataMap` | `MapEdges`, `MapFields`, `MapArrays`, `MapUndo` |
| `MCMapFiles` | `MapFiles`, `LostDraft` |

The longest, `NestedScopes`, `OperationDetails` and `ConnectionSetup`, take a minute or
a minute and a half. `tlapm` checks `CanvasProofs` in ten minutes, `DataMapProofs` in
eight and each of the other `*Proofs` modules in about one.
