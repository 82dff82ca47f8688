-------------------------- MODULE ConnectionSetup --------------------------
(***************************************************************************)
(* Creating connections for the operations of a workflow (designer:        *)
(* panelTabs/createConnectionTab.tsx, queries/connections.ts, connection-  *)
(* Slice.ts; client services: base/connection.ts, standard/connection.ts;  *)
(* vs-code-designer-react: services/oAuth.ts).                             *)
(*                                                                         *)
(* A creation picks a name, creates the connection, has the user log in if *)
(* the connector asks for it, tests the connection and gives it to the     *)
(* operation.  Each step waits for a server.  A creation that fails sends  *)
(* a DELETE that nobody waits for.  The form is a new one whenever another *)
(* operation is selected, so that creations may run side by side.          *)
(***************************************************************************)
EXTENDS Integers, FiniteSetsExt

CONSTANTS
  Creations,    \* the times the user presses Create (a bound)
  Nodes,        \* operations of one connector and of its built-in twin
  Workflows,    \* the operations a workflow that is opened may have
  Indices,      \* the numbers in names: 0 stands for the bare prefix
  Listed,       \* connections of the connector when the workflow is opened
  Unlisted,     \* names taken by connections the list leaves out
  Nobody, Earlier,
  MaxEdits      \* bound: edits of the workflow meanwhile

ASSUME NamesAreFew ==
  /\ Indices \subseteq Nat /\ 0 \in Indices
  /\ Listed \subseteq Indices /\ Unlisted \subseteq Indices
  /\ Listed \cap Unlisted = {}
  /\ Workflows \subseteq SUBSET Nodes /\ MaxEdits \in Nat
  /\ Nobody # Earlier /\ Nobody \notin Creations /\ Earlier \notin Creations

Kinds == {"managed", "login", "builtin"}

VARIABLES
  \* the creations
  stage,     \* what each waits for
  kind,      \* how it is made
  node,      \* the operation it is for
  name,      \* connectionId: the name picked
  index,     \* i of _getUniqueConnectionNameInApiHub
  windows,   \* the login windows still open in the browser
  deletes,   \* those whose DELETE is under way
  \* outside
  server,    \* name -> whose connection the resource group holds
  builtin,   \* the names in connections.json
  \* the designer's store
  nodes,       \* the operations of the workflow
  asking,      \* those added, still without the list of connections
  references,  \* connectionReferences: key -> connection
  mapping,     \* connectionsMapping: operation -> its key, or none (null)
  \* history
  beside,    \* the creations and DELETEs each met
  blind,     \* those whose name was taken for free because of an error
  refused,   \* those whose DELETE failed
  edits      \* how many edits of the workflow there were

creationVars == <<stage, kind, node, name, index, windows, deletes>>
outside == <<server, builtin>>
store == <<nodes, asking, references, mapping>>
history == <<beside, blind, refused, edits>>
connectionVars == <<creationVars, outside, store, history>>

Ended == {"done", "failed"}
Busy == {c \in Creations : stage[c] \notin Ended \cup {"idle"}}
Alive == Busy \cup deletes
Waiting == {c \in Creations : stage[c] = "window"}

Goes(c, s) == stage' = [stage EXCEPT ![c] = s]

-----------------------------------------------------------------------------
(* Names.                                                                  *)

(* The first free name: the bare prefix, then prefix-2, prefix-3 ...       *)
UniqueName(taken) ==
  IF 0 \notin taken THEN 0 ELSE Min({i \in Indices \ taken : i >= 2})

(* Bound: there is a free name among Indices.                              *)
Room(taken) == \E i \in Indices \ taken : i >= 2

(* The connections the connector's list shows.                             *)
InList == {i \in Indices : \/ server[i] \in Creations
                           \/ server[i] = Earlier /\ i \in Listed}

-----------------------------------------------------------------------------
(* References.                                                             *)

(* The built-in twin of a connector has ids and prefixes of its own.       *)
SideOf(k) == IF k = "builtin" THEN "builtin" ELSE "managed"
Connection(side, i) == [side |-> side, name |-> i]
Key(side, i) == <<side, i>>
KeysTaken(side) == {i \in Indices : Key(side, i) \in DOMAIN references}

KeysOf(connection) == {k \in DOMAIN references : references[k] = connection}

Refers(n, key) ==
  mapping' = [m \in DOMAIN mapping \cup {n} |-> IF m = n THEN {key} ELSE mapping[m]]

AddReference(key, connection) ==
  references' = [k \in DOMAIN references \cup {key} |->
                   IF k = key THEN connection ELSE references[k]]

(* Under a key that is free.                                               *)
NewReference(n, connection) ==
  LET key == Key(connection.side, UniqueName(KeysTaken(connection.side)))
  IN  /\ Room(KeysTaken(connection.side))
      /\ AddReference(key, connection)
      /\ Refers(n, key)

(* Faulty: references are not looked up by connection first.               *)
AssignAnew(n, connection) == NewReference(n, connection)

(* Faulty: the name of the connection is taken for the key.                *)
AssignByName(n, connection) ==
  /\ AddReference(Key("managed", connection.name), connection)
  /\ Refers(n, Key("managed", connection.name))

(* changeConnectionMapping                                                 *)
Assign(n, connection) ==
  \/ /\ \E key \in KeysOf(connection) : Refers(n, key)
     /\ UNCHANGED references
  \/ /\ KeysOf(connection) = {}
     /\ NewReference(n, connection)

-----------------------------------------------------------------------------
(* A creation from the form to its end.                                    *)

Begin(c, n, k) ==
  /\ stage[c] = "idle" /\ n \in nodes
  /\ Goes(c, "listing")
  /\ kind' = [kind EXCEPT ![c] = k]
  /\ node' = [node EXCEPT ![c] = n]
  /\ beside' = [d \in Creations |-> IF d = c THEN Alive
                                    ELSE IF d \in Alive THEN beside[d] \cup {c}
                                    ELSE beside[d]]
  /\ UNCHANGED <<name, index, windows, deletes, outside, store, blind, refused, edits>>

(* The name that is free in the list; a built-in connection is not looked  *)
(* up any further.                                                         *)
ListAnswered(c) ==
  /\ stage[c] = "listing"
  /\ LET taken == IF kind[c] = "builtin" THEN builtin ELSE InList
         free == UniqueName(taken)
     IN  /\ Room(taken)
         /\ name' = [name EXCEPT ![c] = free]
         /\ index' = [index EXCEPT ![c] = IF free = 0 \/ kind[c] = "builtin" THEN 1 ELSE free]
  /\ Goes(c, IF kind[c] = "builtin" THEN "putting" ELSE "checking")
  /\ UNCHANGED <<kind, node, windows, deletes, outside, store, history>>

(* Nothing was created: the list failed, or the lookup of the connector    *)
(* before a login.                                                         *)
LookupFails(c) ==
  /\ stage[c] = "listing" \/ (stage[c] = "putting" /\ kind[c] = "login")
  /\ Goes(c, "failed")
  /\ UNCHANGED <<kind, node, name, index, windows, deletes, outside, store, history>>

(* _testConnectionIdUniquenessInApiHub: the name is taken.                 *)
NameTaken(c) ==
  /\ stage[c] = "checking"
  /\ server[name[c]] # Nobody
  /\ index[c] \in Indices
  /\ name' = [name EXCEPT ![c] = index[c]]
  /\ index' = [index EXCEPT ![c] = @ + 1]
  /\ UNCHANGED <<stage, kind, node, windows, deletes, outside, store, history>>

(* Faulty: the list is trusted, the name is not looked up.                 *)
NameFreeUnasked(c) ==
  /\ stage[c] = "checking"
  /\ Goes(c, "putting")
  /\ index' = [index EXCEPT ![c] = 1]
  /\ UNCHANGED <<kind, node, name, windows, deletes, outside, store, history>>

(* Any error stands for 'not found'.                                       *)
NameFree(c) ==
  /\ stage[c] = "checking"
  /\ Goes(c, "putting")
  /\ index' = [index EXCEPT ![c] = 1]   \* the call of getUniqueConnectionName is over
  /\ blind' = IF server[name[c]] = Nobody THEN blind ELSE blind \cup {c}
  /\ UNCHANGED <<kind, node, name, windows, deletes, outside, store, beside, refused, edits>>

(* Faulty: the DELETE names the path, as that of createConnectionInApiHub. *)
FailMisaddressed(c) ==
  /\ Goes(c, "failed")
  /\ UNCHANGED deletes

(* The catch of createConnection and createAndAuthorizeOAuthConnection.    *)
Fail(c) ==
  /\ Goes(c, "failed")
  /\ deletes' = deletes \cup {c}

Refused(c) ==
  /\ stage[c] \in {"putting", "securing", "testing", "consent", "confirming", "reading"}
  /\ Fail(c)
  /\ UNCHANGED <<kind, node, name, index, windows, outside, store, history>>

(* The PUT of createConnectionInApiHub; its answer may be an error.        *)
Put(c) ==
  /\ stage[c] = "putting" /\ kind[c] # "builtin"
  /\ server' = [server EXCEPT ![name[c]] = c]
  /\ \/ Goes(c, "securing") /\ UNCHANGED deletes
     \/ Fail(c)
  /\ UNCHANGED <<kind, node, name, index, windows, builtin, store, history>>

(* createConnectionAclIfNeeded: the policy is there, is made, or is left   *)
(* out.  Then a login connection is not tested yet.                        *)
Secured(c) ==
  /\ stage[c] = "securing"
  /\ Goes(c, IF kind[c] = "login" THEN "consent" ELSE "testing")
  /\ UNCHANGED <<kind, node, name, index, windows, deletes, outside, store, history>>

(* applyNewConnection                                                      *)
Done(c) ==
  /\ Goes(c, "done")
  /\ Assign(node[c], Connection(SideOf(kind[c]), name[c]))

Tested(c) ==
  /\ stage[c] = "testing"
  /\ Done(c)
  /\ UNCHANGED <<kind, node, name, index, windows, deletes, outside, nodes, asking, history>>

(* createConnectionInLocal                                                 *)
WriteLocal(c) ==
  /\ stage[c] = "putting" /\ kind[c] = "builtin"
  /\ builtin' = builtin \cup {name[c]}
  /\ Done(c)
  /\ UNCHANGED <<kind, node, name, index, windows, deletes, server, nodes, asking, history>>

(* The login, in a window that cannot be closed from here.                 *)
OpenWindow(c) ==
  /\ stage[c] = "consent"
  /\ Goes(c, "window")
  /\ windows' = windows \cup {c}
  /\ UNCHANGED <<kind, node, name, index, deletes, outside, store, history>>

(* The result of one window goes to the panel, and so to all that wait.    *)
LoginReturns(w) ==
  /\ w \in windows
  /\ windows' = windows \ {w}
  /\ \/ stage' = [c \in Creations |-> IF c \in Waiting THEN "confirming" ELSE stage[c]]
        /\ UNCHANGED deletes
     \/ stage' = [c \in Creations |-> IF c \in Waiting THEN "failed" ELSE stage[c]]
        /\ deletes' = deletes \cup Waiting
  /\ UNCHANGED <<kind, node, name, index, outside, store, history>>

(* Faulty: the timer stops and the promise stays pending.                  *)
LoginIsAwaited(c) ==
  /\ stage[c] = "window"
  /\ UNCHANGED connectionVars

(* handlePopup after 300 seconds.                                          *)
LoginTimesOut(c) ==
  /\ stage[c] = "window"
  /\ Fail(c)
  /\ UNCHANGED <<kind, node, name, index, windows, outside, store, history>>

Confirmed(c) ==
  /\ stage[c] = "confirming"
  /\ Goes(c, "reading")
  /\ UNCHANGED <<kind, node, name, index, windows, deletes, outside, store, history>>

(* getConnection fails when the connection is gone.                        *)
ReadBack(c) ==
  /\ stage[c] = "reading"
  /\ server[name[c]] # Nobody
  /\ Goes(c, "testing")
  /\ UNCHANGED <<kind, node, name, index, windows, deletes, outside, store, history>>

(* deleteConnection, at its own time and whatever the name stands for now. *)
Delete(c) ==
  /\ c \in deletes
  /\ server' = [server EXCEPT ![name[c]] = Nobody]
  /\ deletes' = deletes \ {c}
  /\ UNCHANGED <<stage, kind, node, name, index, windows, builtin, store, history>>

DeleteFails(c) ==
  /\ c \in deletes
  /\ deletes' = deletes \ {c}
  /\ refused' = refused \cup {c}
  /\ UNCHANGED <<stage, kind, node, name, index, windows, outside, store, beside, blind, edits>>

-----------------------------------------------------------------------------
(* What else happens to the operations.                                    *)

(* Bound: a few edits.                                                     *)
Edited == edits < MaxEdits /\ edits' = edits + 1 /\ UNCHANGED <<beside, blind, refused>>

(* deleteOperationDetails: removeNodeConnectionData                        *)
DeleteNode(n) ==
  /\ Edited
  /\ n \in nodes
  /\ nodes' = nodes \ {n}
  /\ mapping' = [m \in DOMAIN mapping \ {n} |-> mapping[m]]
  /\ UNCHANGED <<creationVars, outside, asking, references>>

AddNode(n) ==
  /\ Edited
  /\ n \in Nodes \ (nodes \cup asking)
  /\ nodes' = nodes \cup {n}
  /\ asking' = asking \cup {n}
  /\ UNCHANGED <<creationVars, outside, references, mapping>>

(* Faulty: the list is taken not to be empty.                              *)
DefaultOfAny(n) ==
  /\ n \in asking
  /\ asking' = asking \ {n}
  /\ \E i \in InList \cup {Nobody} : Assign(n, Connection("managed", i))
  /\ UNCHANGED <<creationVars, outside, nodes, history>>

(* trySetDefaultConnectionForNode, whether or not the operation is still   *)
(* there.                                                                  *)
DefaultSet(n) ==
  /\ n \in asking
  /\ asking' = asking \ {n}
  /\ \/ \E i \in InList : Assign(n, Connection("managed", i))
     \/ /\ InList = {}
        /\ mapping' = [m \in DOMAIN mapping \cup {n} |-> IF m = n THEN {} ELSE mapping[m]]
        /\ UNCHANGED references
  /\ UNCHANGED <<creationVars, outside, nodes, history>>

(* saveSelectionCallback, from the list of either connector.               *)
Select(n, connection) ==
  /\ Edited
  /\ n \in nodes
  /\ Assign(n, connection)
  /\ UNCHANGED <<creationVars, outside, nodes, asking>>

-----------------------------------------------------------------------------

ConnectionInit ==
  /\ stage = [c \in Creations |-> "idle"]
  /\ kind = [c \in Creations |-> "managed"]
  /\ \E n \in Nodes : node = [c \in Creations |-> n]
  /\ name = [c \in Creations |-> 0]
  /\ index = [c \in Creations |-> 1]
  /\ windows = {} /\ deletes = {}
  /\ server = [i \in Indices |-> IF i \in Listed \cup Unlisted THEN Earlier ELSE Nobody]
  /\ builtin = {}
  /\ nodes \in Workflows /\ asking = {}
  /\ references = [k \in {} |-> 0] /\ mapping = [n \in {} |-> {}]
  /\ beside = [c \in Creations |-> {}]
  /\ blind = {} /\ refused = {} /\ edits = 0

(* An answer of a server, or the timer of the login.                       *)
Answer(c) ==
  \/ ListAnswered(c) \/ LookupFails(c) \/ NameTaken(c) \/ NameFree(c)
  \/ Refused(c) \/ Put(c) \/ Secured(c) \/ Tested(c) \/ WriteLocal(c)
  \/ OpenWindow(c) \/ LoginTimesOut(c) \/ Confirmed(c) \/ ReadBack(c)

Workflow ==
  \/ \E n \in Nodes : DeleteNode(n) \/ AddNode(n) \/ DefaultSet(n)
  \/ \E n \in Nodes, i \in InList : Select(n, Connection("managed", i))
  \/ \E n \in Nodes, i \in builtin : Select(n, Connection("builtin", i))

ConnectionNext ==
  \/ \E c \in Creations :
       \/ \E n \in Nodes, k \in Kinds : Begin(c, n, k)
       \/ Answer(c) \/ LoginReturns(c) \/ Delete(c) \/ DeleteFails(c)
  \/ Workflow

ConnectionSafety == ConnectionInit /\ [][ConnectionNext]_connectionVars
ConnectionSpec == ConnectionSafety /\ \A c \in Creations : WF_connectionVars(Answer(c))

-----------------------------------------------------------------------------

ConnectionTypeOK ==
  /\ stage \in [Creations -> {"idle", "listing", "checking", "putting", "securing", "testing",
                             "consent", "window", "confirming", "reading", "done", "failed"}]
  /\ kind \in [Creations -> Kinds] /\ node \in [Creations -> Nodes]
  /\ name \in [Creations -> Indices] /\ index \in [Creations -> Nat]
  /\ windows \subseteq Creations /\ deletes \subseteq Creations
  /\ server \in [Indices -> Creations \cup {Nobody, Earlier}] /\ builtin \subseteq Indices
  /\ nodes \subseteq Nodes /\ asking \subseteq Nodes
  /\ DOMAIN references \subseteq {"managed", "builtin"} \X Indices
  /\ \A k \in DOMAIN references :
       references[k] \in [side : {"managed", "builtin"}, name : Indices]
  /\ DOMAIN mapping \subseteq Nodes
  /\ beside \in [Creations -> SUBSET Creations]
  /\ blind \subseteq Creations /\ refused \subseteq Creations /\ edits \in 0..MaxEdits

(* Every operation with a connection names a reference that exists, and a  *)
(* connection has one reference however many operations use it:            *)
(* changeConnectionMapping looks for it before it makes another.           *)
ReferencesFit ==
  /\ \A n \in DOMAIN mapping : mapping[n] \subseteq DOMAIN references
  /\ \A j, k \in DOMAIN references : references[j] = references[k] => j = k

(* Giving a connection to one operation never changes what the reference   *)
(* of another stands for: the key of a new reference is not in use.        *)
ReferencesKeepTheirMeaning ==
  [][\A k \in DOMAIN references :
       k \in DOMAIN references' /\ references'[k] = references[k]]_connectionVars

(* What may take the connection with name i away from its owner: a         *)
(* creation that took the name for free on an error, or the failure of a   *)
(* built-in connection, whose DELETE goes to the resource group as well.   *)
Careless(i) ==
  \E d \in Creations : name[d] = i /\ (d \in blind \/ (kind[d] = "builtin" /\ stage[d] = "failed"))

(* A connection that was there, and one that was made and given to an      *)
(* operation, stays: only a creation that ran beside its own with the same *)
(* name, or a careless one, overwrites or deletes it.                      *)
ConnectionsStay ==
  /\ \A i \in Listed \cup Unlisted : server[i] = Earlier \/ Careless(i)
  /\ \A c \in Creations : stage[c] = "done" /\ kind[c] # "builtin" /\ server[name[c]] # c =>
       \/ Careless(name[c])
       \/ \E d \in beside[c] : name[d] = name[c]

(* A creation that failed leaves nothing behind in the resource group once *)
(* its DELETE is answered, unless the DELETE was refused: whatever step    *)
(* fails, a catch sends it.                                                *)
FailedIsRemoved ==
  \A c \in Creations : stage[c] = "failed" /\ server[name[c]] = c => c \in deletes \cup refused

(* Every creation ends, with the login given up after a while: the form    *)
(* does not stay busy.                                                     *)
CreationsEnd == \A c \in Creations : stage[c] # "idle" ~> stage[c] \in Ended

=============================================================================
