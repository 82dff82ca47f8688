----------------------- MODULE ConnectionSetupProofs -----------------------
(***************************************************************************)
(* Proofs about ConnectionSetup: the types, the connection references and  *)
(* the connections of the resource group, for any number of operations,    *)
(* creations and names, whatever the servers answer and whenever.          *)
(***************************************************************************)
EXTENDS ConnectionSetup, WellFoundedInduction, TLAPS

-----------------------------------------------------------------------------
(* Free names.                                                             *)

Less == OpToRel(<, Nat)

(* A set of numbers that is not empty has a least one.                     *)
LEMMA LeastNumber ==
  ASSUME NEW S, S \subseteq Nat, S # {}
  PROVE  \E i \in S : \A j \in S : i =< j
<1>1. IsWellFoundedOn(Less, Nat)
  BY NatLessThanWellFounded DEF Less
<1>2. PICK i \in S : \A j \in S : ~ (<<j, i>> \in Less)
  <2> HIDE DEF Less
  <2>1. S \subseteq Nat /\ S # {}
    OBVIOUS
  <2> QED
    BY <1>1, <2>1, WFMin
<1>3. \A j \in S : i =< j
  <2>1. \A j \in S : ~ (j < i)
    <3> SUFFICES ASSUME NEW j \in S, j < i PROVE FALSE
      OBVIOUS
    <3>1. <<j, i>> \in Nat \X Nat /\ <<j, i>>[1] < <<j, i>>[2]
      OBVIOUS
    <3>2. <<j, i>> \in Less
      BY <3>1 DEF Less, OpToRel
    <3> QED
      BY <1>2, <3>2
  <2> QED
    BY <2>1
<1> QED
  BY <1>3

(* getUniqueName returns a name that is not taken.                         *)
LEMMA UniqueNameIsFree ==
  ASSUME NEW taken, Room(taken)
  PROVE  UniqueName(taken) \in Indices \ taken
<1>1. CASE 0 \notin taken
  BY <1>1, NamesAreFew DEF UniqueName
<1>2. CASE 0 \in taken
  <2> DEFINE S == {i \in Indices \ taken : i >= 2}
  <2>1. S \subseteq Nat /\ S # {}
    BY NamesAreFew DEF Room
  <2>2. \E i \in S : \A j \in S : i =< j
    BY <2>1, LeastNumber
  <2>3. Min(S) \in S
    BY <2>2 DEF Min
  <2> QED
    BY <1>2, <2>3 DEF UniqueName
<1> QED
  BY <1>1, <1>2

-----------------------------------------------------------------------------
(* What a step does to the references.                                     *)

Kept == \A k \in DOMAIN references : k \in DOMAIN references' /\ references'[k] = references[k]

(* A step that gives no connection to an operation.                        *)
GivesNone ==
  /\ references' = references
  /\ \A m \in DOMAIN mapping' : mapping'[m] = {} \/ (m \in DOMAIN mapping /\ mapping'[m] = mapping[m])

(* A step that writes no reference and gives no operation another one      *)
(* keeps references fitting.                                               *)
LEMMA GivesNoneKeeps ==
  ASSUME GivesNone, ReferencesFit
  PROVE  ReferencesFit' /\ Kept
  BY DEF GivesNone, ReferencesFit, Kept

(* After an operation is given a reference there is, all mappings name     *)
(* references.                                                             *)
LEMMA RefersKeeps ==
  ASSUME ReferencesFit, NEW n, NEW key \in DOMAIN references', Refers(n, key), Kept
  PROVE  \A m \in DOMAIN mapping' : mapping'[m] \subseteq DOMAIN references'
  BY DEF ReferencesFit, Refers, Kept

(* changeConnectionMapping: a new reference gets a free key, and only a    *)
(* connection without a reference gets a new one.                          *)
LEMMA AssignKeeps ==
  ASSUME ReferencesFit, NEW n, NEW connection, Assign(n, connection)
  PROVE  ReferencesFit' /\ Kept
<1>1. CASE \E key \in KeysOf(connection) : Refers(n, key) /\ references' = references
  <2>1. PICK key \in KeysOf(connection) : Refers(n, key) /\ references' = references
    BY <1>1
  <2>2. key \in DOMAIN references' /\ Kept
    BY <2>1 DEF KeysOf, Kept
  <2>3. \A m \in DOMAIN mapping' : mapping'[m] \subseteq DOMAIN references'
    BY <2>1, <2>2, RefersKeeps
  <2> QED
    BY <2>1, <2>2, <2>3 DEF ReferencesFit
<1>2. CASE KeysOf(connection) = {} /\ NewReference(n, connection)
  <2> DEFINE key == Key(connection.side, UniqueName(KeysTaken(connection.side)))
  <2>1. Room(KeysTaken(connection.side)) /\ AddReference(key, connection) /\ Refers(n, key)
    BY <1>2 DEF NewReference
  <2>2. UniqueName(KeysTaken(connection.side)) \in Indices \ KeysTaken(connection.side)
    BY <2>1, UniqueNameIsFree
  <2>3. key \notin DOMAIN references
    BY <2>2 DEF KeysTaken
  <2> HIDE DEF key
  <2>4. /\ DOMAIN references' = DOMAIN references \cup {key}
        /\ references'[key] = connection
        /\ \A k \in DOMAIN references : references'[k] = references[k]
    BY <2>1, <2>3 DEF AddReference
  <2>5. Kept /\ key \in DOMAIN references'
    BY <2>4 DEF Kept
  <2>6. \A m \in DOMAIN mapping' : mapping'[m] \subseteq DOMAIN references'
    BY <2>1, <2>5, RefersKeeps
  <2>7. \A k \in DOMAIN references : references[k] # connection
    BY <1>2 DEF KeysOf
  <2>8. \A j, k \in DOMAIN references' : references'[j] = references'[k] => j = k
    BY <2>4, <2>7 DEF ReferencesFit
  <2> QED
    BY <2>5, <2>6, <2>8 DEF ReferencesFit
<1> QED
  BY <1>1, <1>2 DEF Assign

(* The steps of one creation: only its end gives a connection.             *)
LEMMA CreationStep ==
  ASSUME NEW c,
         \/ \E n \in Nodes, k \in Kinds : Begin(c, n, k)
         \/ Answer(c) \/ LoginReturns(c) \/ Delete(c) \/ DeleteFails(c)
  PROVE  GivesNone \/ \E n, connection : Assign(n, connection)
<1>1. CASE Tested(c) \/ WriteLocal(c)
  BY <1>1 DEF Tested, WriteLocal, Done
<1>2. CASE \/ ListAnswered(c) \/ LookupFails(c) \/ NameTaken(c) \/ NameFree(c)
           \/ Refused(c) \/ Put(c) \/ Secured(c)
           \/ OpenWindow(c) \/ LoginTimesOut(c) \/ Confirmed(c) \/ ReadBack(c)
  <2>1. UNCHANGED store
    BY <1>2 DEF ListAnswered, LookupFails, NameTaken, NameFree, Refused, Put, Secured,
                OpenWindow, LoginTimesOut, Confirmed, ReadBack
  <2> QED
    BY <2>1 DEF store, GivesNone
<1>3. CASE \/ \E n \in Nodes, k \in Kinds : Begin(c, n, k)
           \/ LoginReturns(c) \/ Delete(c) \/ DeleteFails(c)
  <2>1. UNCHANGED store
    BY <1>3 DEF Begin, LoginReturns, Delete, DeleteFails
  <2> QED
    BY <2>1 DEF store, GivesNone
<1> QED
  BY <1>1, <1>2, <1>3 DEF Answer

(* The edits of the workflow, and the answer an added operation waits for. *)
LEMMA WorkflowStep ==
  ASSUME Workflow
  PROVE  GivesNone \/ \E n, connection : Assign(n, connection)
<1>1. CASE \E n \in Nodes : DeleteNode(n)
  BY <1>1 DEF DeleteNode, GivesNone
<1>2. CASE \E n \in Nodes : AddNode(n)
  BY <1>2 DEF AddNode, GivesNone
<1>3. CASE \E n \in Nodes : DefaultSet(n)
  <2>1. PICK n \in Nodes : DefaultSet(n)
    BY <1>3
  <2>2. CASE \E i \in InList : Assign(n, Connection("managed", i))
    BY <2>2
  <2>3. CASE /\ references' = references
             /\ mapping' = [m \in DOMAIN mapping \cup {n} |-> IF m = n THEN {} ELSE mapping[m]]
    BY <2>3 DEF GivesNone
  <2> QED
    BY <2>1, <2>2, <2>3 DEF DefaultSet
<1>4. CASE \E n, connection : Select(n, connection)
  BY <1>4 DEF Select
<1> QED
  BY <1>1, <1>2, <1>3, <1>4 DEF Workflow

(* Every step is one of these.                                             *)
LEMMA StepKeeps ==
  ASSUME ReferencesFit, [ConnectionNext]_connectionVars
  PROVE  ReferencesFit' /\ Kept
<1>1. CASE UNCHANGED connectionVars
  <2>1. GivesNone
    BY <1>1 DEF connectionVars, store, GivesNone
  <2> QED
    BY <2>1, GivesNoneKeeps
<1>2. CASE ConnectionNext
  <2>1. GivesNone \/ \E n, connection : Assign(n, connection)
    BY <1>2, CreationStep, WorkflowStep DEF ConnectionNext
  <2> QED
    BY <2>1, GivesNoneKeeps, AssignKeeps
<1> QED
  BY <1>1, <1>2

-----------------------------------------------------------------------------
(* In every behaviour each operation with a connection names a reference   *)
(* that exists, and no connection has two: changeConnectionMapping, with   *)
(* answers that arrive in any order and for operations that are gone.      *)
THEOREM ReferencesAlwaysFit == ConnectionSafety => []ReferencesFit
<1>1. ConnectionInit => ReferencesFit
  BY DEF ConnectionInit, ReferencesFit
<1>2. ReferencesFit /\ [ConnectionNext]_connectionVars => ReferencesFit'
  BY StepKeeps
<1> QED
  BY <1>1, <1>2, PTL DEF ConnectionSafety

(* No step changes what a reference in use stands for: the key getUnique-  *)
(* Name returns for a new reference is free.                               *)
THEOREM ReferencesAreKept == ConnectionSafety => ReferencesKeepTheirMeaning
<1>1. ReferencesFit /\ [ConnectionNext]_connectionVars => [Kept]_connectionVars
  BY StepKeeps
<1>2. ConnectionSafety => []ReferencesFit
  BY ReferencesAlwaysFit
<1>3. ConnectionSafety => [][Kept]_connectionVars
  BY <1>1, <1>2, PTL DEF ConnectionSafety
<1> QED
  BY <1>3 DEF ReferencesKeepTheirMeaning, Kept

-----------------------------------------------------------------------------
(* Types.                                                                  *)

References == [side : {"managed", "builtin"}, name : Indices]

(* The types hold before the first creation.                               *)
LEMMA InitTypes == ConnectionInit => ConnectionTypeOK
<1> SUFFICES ASSUME ConnectionInit PROVE ConnectionTypeOK
  OBVIOUS
<1>1. 0 \in Indices /\ 1 \in Nat /\ MaxEdits \in Nat
  BY NamesAreFew
<1>2. nodes \subseteq Nodes
  BY NamesAreFew DEF ConnectionInit
<1>3. node \in [Creations -> Nodes]
  BY DEF ConnectionInit
<1> QED
  BY <1>1, <1>2, <1>3 DEF ConnectionInit, ConnectionTypeOK, Kinds

(* What Assign leaves well typed.                                          *)
LEMMA AssignTypes ==
  ASSUME ConnectionTypeOK, NEW n \in Nodes, NEW connection \in References, Assign(n, connection)
  PROVE  /\ DOMAIN references' \subseteq {"managed", "builtin"} \X Indices
         /\ \A k \in DOMAIN references' : references'[k] \in References
         /\ DOMAIN mapping' \subseteq Nodes
<1>1. CASE \E key \in KeysOf(connection) : Refers(n, key) /\ references' = references
  BY <1>1 DEF ConnectionTypeOK, References, Refers
<1>2. CASE NewReference(n, connection)
  <2> DEFINE key == Key(connection.side, UniqueName(KeysTaken(connection.side)))
  <2>1. Room(KeysTaken(connection.side)) /\ AddReference(key, connection) /\ Refers(n, key)
    BY <1>2 DEF NewReference
  <2>2. UniqueName(KeysTaken(connection.side)) \in Indices
    BY <2>1, UniqueNameIsFree
  <2>3. key \in {"managed", "builtin"} \X Indices
    BY <2>2 DEF Key, References
  <2> HIDE DEF key
  <2> QED
    BY <2>1, <2>3 DEF ConnectionTypeOK, References, Refers, AddReference
<1> QED
  BY <1>1, <1>2 DEF Assign

(* Every step keeps the types, whatever it writes.                         *)
LEMMA StepTypes ==
  ASSUME ConnectionTypeOK, [ConnectionNext]_connectionVars
  PROVE  ConnectionTypeOK'
<1> USE DEF creationVars, outside, store, history
<1>1. ASSUME NEW c \in Creations, NEW n \in Nodes, NEW k \in Kinds, Begin(c, n, k)
      PROVE  ConnectionTypeOK'
  <2>1. Alive \subseteq Creations
    BY DEF Alive, Busy, ConnectionTypeOK
  <2>2. beside' \in [Creations -> SUBSET Creations]
    BY <1>1, <2>1 DEF Begin, ConnectionTypeOK
  <2> QED
    BY <1>1, <2>2 DEF Begin, ConnectionTypeOK, Goes
<1>2. ASSUME NEW c \in Creations, ListAnswered(c)
      PROVE  ConnectionTypeOK'
  <2> DEFINE taken == IF kind[c] = "builtin" THEN builtin ELSE InList
  <2>1. UniqueName(taken) \in Indices /\ UniqueName(taken) \in Nat
    BY <1>2, UniqueNameIsFree, NamesAreFew DEF ListAnswered
  <2> HIDE DEF taken
  <2>2. name' = [name EXCEPT ![c] = UniqueName(taken)]
    BY <1>2 DEF ListAnswered, taken
  <2>3. \E i \in {1, UniqueName(taken)} : index' = [index EXCEPT ![c] = i]
    BY <1>2 DEF ListAnswered, taken
  <2> QED
    BY <1>2, <2>1, <2>2, <2>3 DEF ListAnswered, ConnectionTypeOK, Goes
<1>3. ASSUME NEW c \in Creations, LookupFails(c) \/ Secured(c) \/ Confirmed(c) \/ ReadBack(c)
      PROVE  ConnectionTypeOK'
  BY <1>3 DEF LookupFails, Secured, Confirmed, ReadBack, ConnectionTypeOK, Goes
<1>4. ASSUME NEW c \in Creations, NameTaken(c) \/ NameFree(c)
      PROVE  ConnectionTypeOK'
  BY <1>4 DEF NameTaken, NameFree, ConnectionTypeOK, Goes
<1>5. ASSUME NEW c \in Creations, Refused(c) \/ LoginTimesOut(c) \/ OpenWindow(c)
      PROVE  ConnectionTypeOK'
  BY <1>5 DEF Refused, LoginTimesOut, OpenWindow, Fail, ConnectionTypeOK, Goes
<1>6. ASSUME NEW c \in Creations, Put(c)
      PROVE  ConnectionTypeOK'
  BY <1>6 DEF Put, Fail, ConnectionTypeOK, Goes
<1>7. ASSUME NEW c \in Creations, Tested(c) \/ WriteLocal(c)
      PROVE  ConnectionTypeOK'
  <2>1. Assign(node[c], Connection(SideOf(kind[c]), name[c]))
    BY <1>7 DEF Tested, WriteLocal, Done
  <2>2. node[c] \in Nodes /\ Connection(SideOf(kind[c]), name[c]) \in References
    BY DEF ConnectionTypeOK, Connection, SideOf, References
  <2>3. /\ DOMAIN references' \subseteq {"managed", "builtin"} \X Indices
        /\ \A k \in DOMAIN references' : references'[k] \in References
        /\ DOMAIN mapping' \subseteq Nodes
    BY <2>1, <2>2, AssignTypes
  <2> QED
    BY <1>7, <2>3 DEF Tested, WriteLocal, Done, ConnectionTypeOK, Goes, References
<1>8. ASSUME NEW c \in Creations, LoginReturns(c)
      PROVE  ConnectionTypeOK'
  BY <1>8 DEF LoginReturns, Waiting, ConnectionTypeOK
<1>9. ASSUME NEW c \in Creations, Delete(c) \/ DeleteFails(c)
      PROVE  ConnectionTypeOK'
  BY <1>9 DEF Delete, DeleteFails, ConnectionTypeOK
<1>10. ASSUME NEW n \in Nodes, DeleteNode(n) \/ AddNode(n)
       PROVE  ConnectionTypeOK'
  BY <1>10, NamesAreFew DEF DeleteNode, AddNode, Edited, ConnectionTypeOK
<1>11. ASSUME NEW n \in Nodes, DefaultSet(n)
       PROVE  ConnectionTypeOK'
  <2>1. \A i \in InList : Connection("managed", i) \in References
    BY DEF InList, Connection, References
  <2>2. /\ DOMAIN references' \subseteq {"managed", "builtin"} \X Indices
        /\ \A k \in DOMAIN references' : references'[k] \in References
        /\ DOMAIN mapping' \subseteq Nodes
    <3>1. CASE \E i \in InList : Assign(n, Connection("managed", i))
      BY <3>1, <2>1, AssignTypes
    <3>2. CASE UNCHANGED references /\ DOMAIN mapping' = DOMAIN mapping \cup {n}
      BY <3>2 DEF ConnectionTypeOK, References
    <3> QED
      BY <1>11, <3>1, <3>2 DEF DefaultSet
  <2> QED
    BY <1>11, <2>2 DEF DefaultSet, ConnectionTypeOK, References
<1>12. ASSUME NEW n \in Nodes, NEW connection \in References, Select(n, connection)
       PROVE  ConnectionTypeOK'
  <2>1. /\ DOMAIN references' \subseteq {"managed", "builtin"} \X Indices
        /\ \A k \in DOMAIN references' : references'[k] \in References
        /\ DOMAIN mapping' \subseteq Nodes
    BY <1>12, AssignTypes DEF Select
  <2> QED
    BY <1>12, <2>1, NamesAreFew DEF Select, Edited, ConnectionTypeOK, References
<1>13. CASE Workflow
  <2>1. /\ \A i \in InList : Connection("managed", i) \in References
        /\ \A i \in builtin : Connection("builtin", i) \in References
    BY DEF InList, Connection, References, ConnectionTypeOK
  <2> QED
    BY <1>10, <1>11, <1>12, <1>13, <2>1 DEF Workflow
<1>14. CASE UNCHANGED connectionVars
  BY <1>14 DEF connectionVars, ConnectionTypeOK
<1> QED
  BY <1>1, <1>2, <1>3, <1>4, <1>5, <1>6, <1>7, <1>8, <1>9, <1>13, <1>14 DEF ConnectionNext, Answer

(* Names, stages, references and the rest keep their types: in particular  *)
(* every name picked is one of the names there are, and every key of a     *)
(* reference is a side and a name.                                         *)
THEOREM ConnectionTypes == ConnectionSafety => []ConnectionTypeOK
<1> QED
  BY InitTypes, StepTypes, PTL DEF ConnectionSafety

-----------------------------------------------------------------------------
(* The resource group: what a creation that has picked its name knows of   *)
(* the others, and what it finds under the name later.                     *)

Requests == {"putting", "securing", "testing", "consent", "window", "confirming", "reading"}

(* The name of c is picked for good. *)
Settled(c) == stage[c] \notin {"idle", "listing", "checking"}

(* c may still write or delete what has its name. *)
Armed(c) == kind[c] # "builtin" /\ (c \in deletes \/ stage[c] \in Requests)

(* c has made its connection and not given it up. *)
Holding(c) == kind[c] # "builtin" /\ stage[c] \in (Requests \ {"putting"}) \cup {"done"}

DeletesFollowFailures == \A c \in deletes : stage[c] = "failed"
BlindAreSettled == \A c \in blind : Settled(c)
AliveHaveMet == \A c, d \in Alive : c # d => c \in beside[d]

MadeUnderItsName ==
  \A i \in Indices, c \in Creations :
    server[i] = c => name[c] = i /\ Settled(c) /\ stage[c] # "putting"

(* Where c has looked its name up nothing is that it has not met. *)
ArmedHaveLooked ==
  \A c \in Creations : Armed(c) /\ c \notin blind =>
    /\ server[name[c]] # Earlier
    /\ \A d \in Creations : d # c /\ stage[d] = "done" /\ server[name[c]] = d => c \in beside[d]

MetTheSameName(c) == \E d \in beside[c] : Settled(d) /\ name[d] = name[c]

HeldOrMet ==
  \A c \in Creations :
    Holding(c) => server[name[c]] = c \/ Careless(name[c]) \/ MetTheSameName(c)

EarlierStay == \A i \in Listed \cup Unlisted : server[i] = Earlier \/ Careless(i)

(* The inductive invariant. *)
ServerInv ==
  /\ ConnectionTypeOK
  /\ DeletesFollowFailures /\ BlindAreSettled /\ AliveHaveMet
  /\ MadeUnderItsName /\ ArmedHaveLooked /\ HeldOrMet /\ EarlierStay
  /\ FailedIsRemoved

-----------------------------------------------------------------------------
(* What every step has in common.                                          *)

(* Nothing that was settled is taken back. *)
Advances ==
  /\ \A c \in Creations : Settled(c) => Settled(c)' /\ name'[c] = name[c] /\ kind'[c] = kind[c]
  /\ \A c \in Creations : stage[c] \in Ended => stage'[c] = stage[c]
  /\ \A c \in Creations : stage[c] # "idle" => beside[c] \subseteq beside'[c]
  /\ blind \subseteq blind' /\ refused \subseteq refused'
  /\ \A c \in blind' : Settled(c)'
  /\ \A c \in deletes' : stage'[c] = "failed"
  /\ \A c \in deletes' : c \in deletes \/ c \in Busy
  /\ \A c \in Creations : stage'[c] = "done" => stage[c] = "done" \/ c \in Busy

(* Creations and DELETEs begin to run only by meeting all that run. *)
Meets ==
  \/ Alive' \subseteq Alive
  \/ \E c \in Creations :
       /\ Alive' \subseteq Alive \cup {c}
       /\ beside'[c] = Alive /\ \A d \in Alive : d # c => c \in beside'[d]

(* A name is armed only by finding it free, or blindly. *)
Arms ==
  \A c \in Creations : Armed(c)' /\ c \notin blind' =>
    (Armed(c) /\ c \notin blind) \/ server'[name'[c]] = Nobody

(* Neither a PUT nor a DELETE. *)
LeavesServer ==
  /\ server' = server
  /\ \A c \in Creations : Holding(c)' => Holding(c)
  /\ \A c \in Creations : stage'[c] = "failed" =>
       stage[c] = "failed" \/ c \in deletes' \/ ~Settled(c) \/ stage[c] = "putting"
  /\ \A c \in Creations : Settled(c) /\ stage[c] # "putting" => stage'[c] # "putting"
  /\ deletes \subseteq deletes' \cup refused'

Steady == Advances /\ Meets /\ Arms

(* The marks for no creation and an earlier one are no creations.          *)
LEMMA Distinct ==
  Nobody # Earlier /\ Nobody \notin Creations /\ Earlier \notin Creations
  BY NamesAreFew

(* What moves neither stages nor the server is steady.                     *)
LEMMA Unmoved ==
  ASSUME ConnectionTypeOK, DeletesFollowFailures, BlindAreSettled,
         UNCHANGED <<creationVars, outside, beside, blind, refused>>
  PROVE  Steady /\ LeavesServer
<1> USE DEF creationVars, outside
<1>1. Advances
  BY DEF Advances, DeletesFollowFailures, BlindAreSettled, Settled
<1>2. Meets
  BY DEF Meets, Alive, Busy
<1>3. Arms
  BY DEF Arms, Armed
<1>4. LeavesServer
  BY DEF LeavesServer, Holding, Settled
<1> QED
  BY <1>1, <1>2, <1>3, <1>4 DEF Steady

(* A creation that begins is steady: it has met those that are running.    *)
LEMMA BeginIsSteady ==
  ASSUME ConnectionTypeOK, DeletesFollowFailures, BlindAreSettled,
         NEW c \in Creations, NEW n \in Nodes, NEW k \in Kinds, Begin(c, n, k)
  PROVE  Steady /\ LeavesServer
<1> USE DEF outside
<1>1. /\ c \notin Alive /\ Alive \subseteq Creations
      /\ stage' = [stage EXCEPT ![c] = "listing"] /\ kind' = [kind EXCEPT ![c] = k]
      /\ UNCHANGED <<name, deletes, server, blind, refused>>
  BY DEF Begin, Goes, Alive, Busy, DeletesFollowFailures, ConnectionTypeOK
<1>2. \A d \in Creations : beside'[d] = IF d = c THEN Alive
                                        ELSE IF d \in Alive THEN beside[d] \cup {c}
                                        ELSE beside[d]
  BY DEF Begin
<1>3. c \notin blind /\ c \notin deletes /\ stage[c] = "idle"
  BY DEF Begin, BlindAreSettled, Settled, DeletesFollowFailures
<1>4. Advances
  BY <1>1, <1>2, <1>3
  DEF Advances, DeletesFollowFailures, BlindAreSettled, Settled, Ended, ConnectionTypeOK, Busy
<1>5. Meets
  <2>1. Alive' \subseteq Alive \cup {c}
    BY <1>1 DEF Alive, Busy, ConnectionTypeOK
  <2> QED
    BY <1>1, <1>2, <2>1 DEF Meets
<1>6. Arms
  BY <1>1, <1>3 DEF Arms, Armed, Requests, ConnectionTypeOK
<1>7. LeavesServer
  BY <1>1, <1>3 DEF LeavesServer, Holding, Requests, Settled, ConnectionTypeOK
<1> QED
  BY <1>4, <1>5, <1>6, <1>7 DEF Steady

(* The steps of one creation that neither write nor delete.                *)
LEMMA WaitingIsSteady ==
  ASSUME ConnectionTypeOK, DeletesFollowFailures, BlindAreSettled, NEW c \in Creations,
         \/ ListAnswered(c) \/ LookupFails(c) \/ NameTaken(c) \/ NameFree(c)
         \/ Refused(c) \/ Secured(c) \/ Tested(c) \/ WriteLocal(c)
         \/ OpenWindow(c) \/ LoginTimesOut(c) \/ Confirmed(c) \/ ReadBack(c)
         \/ LoginReturns(c) \/ DeleteFails(c)
  PROVE  Steady /\ LeavesServer
<1> USE DEF outside, store, history, Fail, Goes, Done, Ended, Busy, Settled, Requests, ConnectionTypeOK
<1>1. CASE ListAnswered(c) \/ LookupFails(c) \/ NameTaken(c)
  <2>1. Advances
    BY <1>1 DEF ListAnswered, LookupFails, NameTaken, Advances, DeletesFollowFailures, BlindAreSettled
  <2>2. Meets
    BY <1>1 DEF ListAnswered, LookupFails, NameTaken, Meets, Alive
  <2>3. Arms
    BY <1>1 DEF ListAnswered, LookupFails, NameTaken, Arms, Armed, DeletesFollowFailures
  <2>4. LeavesServer
    BY <1>1 DEF ListAnswered, LookupFails, NameTaken, LeavesServer, Holding
  <2> QED
    BY <2>1, <2>2, <2>3, <2>4 DEF Steady
<1>2. CASE NameFree(c)
  <2>1. Advances
    BY <1>2 DEF NameFree, Advances, DeletesFollowFailures, BlindAreSettled
  <2>2. Meets
    BY <1>2 DEF NameFree, Meets, Alive
  <2>3. Arms
    BY <1>2 DEF NameFree, Arms, Armed, DeletesFollowFailures
  <2>4. LeavesServer
    BY <1>2 DEF NameFree, LeavesServer, Holding
  <2> QED
    BY <2>1, <2>2, <2>3, <2>4 DEF Steady
<1>3. CASE Refused(c) \/ LoginTimesOut(c)
  <2>1. Advances
    BY <1>3 DEF Refused, LoginTimesOut, Advances, DeletesFollowFailures, BlindAreSettled
  <2>2. Meets
    BY <1>3 DEF Refused, LoginTimesOut, Meets, Alive
  <2>3. Arms
    BY <1>3 DEF Refused, LoginTimesOut, Arms, Armed, DeletesFollowFailures
  <2>4. LeavesServer
    BY <1>3 DEF Refused, LoginTimesOut, LeavesServer, Holding
  <2> QED
    BY <2>1, <2>2, <2>3, <2>4 DEF Steady
<1>4. CASE Secured(c) \/ OpenWindow(c) \/ Confirmed(c) \/ ReadBack(c)
  <2>1. Advances
    BY <1>4 DEF Secured, OpenWindow, Confirmed, ReadBack, Advances, DeletesFollowFailures, BlindAreSettled
  <2>2. Meets
    BY <1>4 DEF Secured, OpenWindow, Confirmed, ReadBack, Meets, Alive
  <2>3. Arms
    BY <1>4 DEF Secured, OpenWindow, Confirmed, ReadBack, Arms, Armed, DeletesFollowFailures
  <2>4. LeavesServer
    BY <1>4 DEF Secured, OpenWindow, Confirmed, ReadBack, LeavesServer, Holding
  <2> QED
    BY <2>1, <2>2, <2>3, <2>4 DEF Steady
<1>5. CASE Tested(c) \/ WriteLocal(c)
  <2>1. Advances
    BY <1>5 DEF Tested, WriteLocal, Advances, DeletesFollowFailures, BlindAreSettled
  <2>2. Meets
    BY <1>5 DEF Tested, WriteLocal, Meets, Alive
  <2>3. Arms
    BY <1>5 DEF Tested, WriteLocal, Arms, Armed, DeletesFollowFailures
  <2>4. LeavesServer
    BY <1>5 DEF Tested, WriteLocal, LeavesServer, Holding
  <2> QED
    BY <2>1, <2>2, <2>3, <2>4 DEF Steady
<1>6. CASE LoginReturns(c)
  <2>1. Advances
    BY <1>6 DEF LoginReturns, Waiting, Advances, DeletesFollowFailures, BlindAreSettled
  <2>2. Meets
    BY <1>6 DEF LoginReturns, Waiting, Meets, Alive
  <2>3. Arms
    BY <1>6 DEF LoginReturns, Waiting, Arms, Armed, DeletesFollowFailures
  <2>4. LeavesServer
    BY <1>6 DEF LoginReturns, Waiting, LeavesServer, Holding
  <2> QED
    BY <2>1, <2>2, <2>3, <2>4 DEF Steady
<1>7. CASE DeleteFails(c)
  <2>1. Advances
    BY <1>7 DEF DeleteFails, Advances, DeletesFollowFailures, BlindAreSettled
  <2>2. Meets
    BY <1>7 DEF DeleteFails, Meets, Alive
  <2>3. Arms
    BY <1>7 DEF DeleteFails, Arms, Armed, DeletesFollowFailures
  <2>4. LeavesServer
    BY <1>7 DEF DeleteFails, LeavesServer, Holding
  <2> QED
    BY <2>1, <2>2, <2>3, <2>4 DEF Steady
<1> QED
  BY <1>1, <1>2, <1>3, <1>4, <1>5, <1>6, <1>7

(* The two that do.                                                        *)
LEMMA WritingIsSteady ==
  ASSUME ConnectionTypeOK, DeletesFollowFailures, BlindAreSettled, NEW c \in Creations,
         Put(c) \/ Delete(c)
  PROVE  Steady
<1> USE DEF outside, store, history, Fail, Goes, Ended, Busy, Settled, Requests, ConnectionTypeOK
<1>1. Advances
  BY DEF Put, Delete, Advances, DeletesFollowFailures, BlindAreSettled
<1>2. Meets
  BY DEF Put, Delete, Meets, Alive
<1>3. Arms
  BY DEF Put, Delete, Arms, Armed, DeletesFollowFailures
<1> QED
  BY <1>1, <1>2, <1>3 DEF Steady
-----------------------------------------------------------------------------
(* What a steady step keeps.                                               *)

(* Those that run side by side have met, and keep having met.              *)
LEMMA SteadyKeepsMeetings ==
  ASSUME ConnectionTypeOK, DeletesFollowFailures, AliveHaveMet, Steady
  PROVE  DeletesFollowFailures' /\ BlindAreSettled' /\ AliveHaveMet'
<1>1. DeletesFollowFailures' /\ BlindAreSettled'
  BY DEF Steady, Advances, DeletesFollowFailures, BlindAreSettled
<1>2. \A d \in Alive : d \in Creations /\ beside[d] \subseteq beside'[d]
  BY DEF Steady, Advances, Alive, Busy, DeletesFollowFailures, ConnectionTypeOK
<1>3. AliveHaveMet'
  <2>1. CASE Alive' \subseteq Alive
    BY <1>2, <2>1 DEF AliveHaveMet
  <2>2. ASSUME NEW c \in Creations, Alive' \subseteq Alive \cup {c},
               beside'[c] = Alive, \A d \in Alive : d # c => c \in beside'[d]
        PROVE  AliveHaveMet'
    BY <1>2, <2>2 DEF AliveHaveMet
  <2> QED
    BY <2>1, <2>2 DEF Steady, Meets
<1> QED
  BY <1>1, <1>3

(* What excuses the loss of a connection stays an excuse.                  *)
LEMMA ExcusesStay ==
  ASSUME ConnectionTypeOK, BlindAreSettled, Steady
  PROVE  /\ \A i \in Indices : Careless(i) => Careless(i)'
         /\ \A c \in Creations : Settled(c) /\ (Careless(name[c]) \/ MetTheSameName(c)) =>
              (Careless(name[c]) \/ MetTheSameName(c))'
<1>1. ASSUME NEW i \in Indices, Careless(i) PROVE Careless(i)'
  <2>1. PICK d \in Creations :
          name[d] = i /\ (d \in blind \/ (kind[d] = "builtin" /\ stage[d] = "failed"))
    BY <1>1 DEF Careless
  <2>2. Settled(d)
    BY <2>1 DEF BlindAreSettled, Settled
  <2>3. name'[d] = i /\ (d \in blind' \/ (kind'[d] = "builtin" /\ stage'[d] = "failed"))
    BY <2>1, <2>2 DEF Steady, Advances, Ended
  <2> QED
    BY <2>3 DEF Careless
<1>2. ASSUME NEW c \in Creations, Settled(c), MetTheSameName(c) PROVE MetTheSameName(c)'
  <2>1. PICK d \in beside[c] : Settled(d) /\ name[d] = name[c]
    BY <1>2 DEF MetTheSameName
  <2>2. d \in Creations /\ d \in beside'[c]
    BY <1>2, <2>1 DEF ConnectionTypeOK, Steady, Advances, Settled
  <2>3. Settled(d)' /\ name'[d] = name'[c]
    BY <1>2, <2>1, <2>2 DEF Steady, Advances
  <2> QED
    BY <2>2, <2>3 DEF MetTheSameName
<1>3. ASSUME NEW c \in Creations, Settled(c), Careless(name[c]) PROVE Careless(name[c])'
  <2>1. name[c] \in Indices /\ name'[c] = name[c]
    BY <1>3 DEF ConnectionTypeOK, Steady, Advances
  <2> QED
    BY <1>1, <1>3, <2>1 DEF Careless
<1> QED
  BY <1>1, <1>2, <1>3

(* A name looked up and armed stays one that nobody unmet is done with, as *)
(* long as a new entry of the resource group is of a creation that is not  *)
(* done.                                                                   *)
LEMMA SteadyKeepsLooking ==
  ASSUME ConnectionTypeOK, DeletesFollowFailures, BlindAreSettled, AliveHaveMet, ArmedHaveLooked,
         Steady,
         \A i \in Indices : \/ server'[i] \in {server[i], Nobody}
                            \/ server'[i] \in Creations /\ stage'[server'[i]] # "done"
  PROVE  ArmedHaveLooked'
<1> SUFFICES ASSUME NEW c \in Creations, Armed(c)', c \notin blind'
             PROVE  /\ server'[name'[c]] # Earlier
                    /\ \A d \in Creations : d # c /\ stage'[d] = "done" /\ server'[name'[c]] = d
                         => c \in beside'[d]
  BY DEF ArmedHaveLooked
<1>1. CASE server'[name'[c]] = Nobody
  BY <1>1, Distinct
<1>2. CASE Armed(c) /\ c \notin blind
  <2>1. Settled(c) /\ c \in Alive /\ name[c] \in Indices
    BY <1>2 DEF Armed, Settled, Requests, DeletesFollowFailures, Alive, Busy, Ended, ConnectionTypeOK
  <2>2. name'[c] = name[c]
    BY <2>1 DEF Steady, Advances
  <2>3. server'[name[c]] # Earlier
    BY <1>2, <2>1, Distinct DEF ArmedHaveLooked
  <2>4. ASSUME NEW d \in Creations, d # c, stage'[d] = "done", server'[name[c]] = d
        PROVE  c \in beside'[d]
    <3>1. server[name[c]] = d
      BY <2>1, <2>4, Distinct
    <3>2. stage[d] = "done" \/ d \in Busy
      BY <2>4 DEF Steady, Advances
    <3>3. c \in beside[d]
      BY <1>2, <2>1, <2>4, <3>1, <3>2 DEF ArmedHaveLooked, AliveHaveMet, Alive
    <3> QED
      BY <3>2, <3>3 DEF Steady, Advances, Busy
  <2> QED
    BY <2>2, <2>3, <2>4
<1> QED
  BY <1>1, <1>2 DEF Steady, Arms

(* Steps that neither write nor delete.                                    *)
LEMMA LeavingKeeps ==
  ASSUME ServerInv, ConnectionTypeOK', Steady, LeavesServer
  PROVE  ServerInv'
<1> USE DEF ServerInv
<1>1. DeletesFollowFailures' /\ BlindAreSettled' /\ AliveHaveMet'
  BY SteadyKeepsMeetings
<1>2. MadeUnderItsName'
  <2> SUFFICES ASSUME NEW i \in Indices, NEW c \in Creations, server'[i] = c
               PROVE  name'[c] = i /\ Settled(c)' /\ stage'[c] # "putting"
    BY DEF MadeUnderItsName
  <2>1. name[c] = i /\ Settled(c) /\ stage[c] # "putting"
    BY DEF MadeUnderItsName, LeavesServer
  <2>2. name'[c] = i /\ Settled(c)'
    BY <2>1 DEF Steady, Advances
  <2> QED
    BY <2>1, <2>2 DEF LeavesServer
<1>3. ArmedHaveLooked'
  BY SteadyKeepsLooking DEF LeavesServer
<1>4. HeldOrMet'
  <2> SUFFICES ASSUME NEW c \in Creations, Holding(c)'
               PROVE  (server[name[c]] = c \/ Careless(name[c]) \/ MetTheSameName(c))'
    BY DEF HeldOrMet
  <2>1. Holding(c) /\ server' = server
    BY DEF LeavesServer
  <2>2. Settled(c)
    BY <2>1 DEF Holding, Settled, Requests
  <2>3. name'[c] = name[c] /\ name[c] \in Indices
    BY <2>2 DEF Steady, Advances, ConnectionTypeOK
  <2> QED
    BY <2>1, <2>2, <2>3, ExcusesStay DEF HeldOrMet
<1>5. EarlierStay'
  BY ExcusesStay, NamesAreFew DEF EarlierStay, LeavesServer
<1>6. FailedIsRemoved'
  <2> SUFFICES ASSUME NEW c \in Creations, stage'[c] = "failed", server'[name'[c]] = c
               PROVE  c \in deletes' \cup refused'
    BY DEF FailedIsRemoved
  <2>1. name'[c] \in Indices /\ server[name'[c]] = c
    BY DEF LeavesServer, ConnectionTypeOK
  <2>2. name[c] = name'[c] /\ Settled(c) /\ stage[c] # "putting"
    BY <2>1 DEF MadeUnderItsName
  <2>3. stage[c] = "failed" \/ c \in deletes'
    BY <2>2 DEF LeavesServer
  <2>4. stage[c] = "failed" => c \in deletes \cup refused
    BY <2>1, <2>2 DEF FailedIsRemoved
  <2> QED
    BY <2>3, <2>4 DEF LeavesServer, Steady, Advances
<1> QED
  BY <1>1, <1>2, <1>3, <1>4, <1>5, <1>6

(* A PUT or a DELETE of d under its name: either careless, or d knows of   *)
(* every connection it may find there.                                     *)
Strikes(d) == d \in deletes \/ (stage[d] = "putting" /\ kind[d] # "builtin")

(* Who writes under the name of a connection of another, or deletes it,    *)
(* has met its creation or was blind.                                      *)
LEMMA OwnersAreExcused ==
  ASSUME ServerInv, NEW d \in Creations, Strikes(d)
  PROVE  /\ server[name[d]] = Earlier => Careless(name[d])
         /\ \A c \in Creations : c # d /\ Holding(c) /\ name[c] = name[d] /\ server[name[c]] = c =>
              Careless(name[c]) \/ MetTheSameName(c)
<1> USE DEF ServerInv
<1>1. Settled(d) /\ d \in Alive
  BY DEF Strikes, Settled, Alive, Busy, Ended, DeletesFollowFailures
<1>2. CASE d \in blind \/ (d \in deletes /\ kind[d] = "builtin")
  BY <1>2 DEF Careless, DeletesFollowFailures
<1>3. CASE d \notin blind /\ Armed(d)
  <2>1. server[name[d]] # Earlier
    BY <1>3 DEF ArmedHaveLooked
  <2>2. ASSUME NEW c \in Creations, c # d, Holding(c), name[c] = name[d], server[name[c]] = c
        PROVE  MetTheSameName(c)
    <3>1. stage[c] = "done" \/ c \in Alive
      BY <2>2 DEF Holding, Requests, Alive, Busy, Ended
    <3>2. d \in beside[c]
      <4>1. CASE stage[c] = "done"
        BY <4>1, <1>3, <2>2 DEF ArmedHaveLooked
      <4>2. CASE c \in Alive
        BY <4>2, <1>1, <2>2 DEF AliveHaveMet
      <4> QED
        BY <3>1, <4>1, <4>2
    <3> QED
      BY <1>1, <2>2, <3>2 DEF MetTheSameName
  <2> QED
    BY <2>1, <2>2
<1> QED
  BY <1>2, <1>3 DEF Strikes, Armed, Requests

(* A steady step that writes or deletes one name keeps the invariant.      *)
LEMMA WritingKeeps ==
  ASSUME ServerInv, ConnectionTypeOK', NEW d \in Creations, Put(d) \/ Delete(d)
  PROVE  ServerInv'
<1> USE DEF ServerInv
<1>1. Steady
  BY WritingIsSteady
<1>2. /\ Strikes(d) /\ name[d] \in Indices
      /\ name' = name /\ kind' = kind
      /\ \A i \in Indices \ {name[d]} : server'[i] = server[i]
      /\ \A c \in Creations \ {d} : stage'[c] = stage[c]
      /\ deletes \ {d} \subseteq deletes' /\ refused' = refused
  BY DEF Put, Delete, Strikes, Fail, Goes, history, ConnectionTypeOK
<1>3. \/ server'[name[d]] = d /\ stage'[d] \in {"securing", "failed"} /\ (stage'[d] = "failed" => d \in deletes')
      \/ server'[name[d]] = Nobody /\ stage'[d] = "failed"
  BY DEF Put, Delete, Fail, Goes, ConnectionTypeOK, DeletesFollowFailures
<1>4. DeletesFollowFailures' /\ BlindAreSettled' /\ AliveHaveMet'
  BY <1>1, SteadyKeepsMeetings
<1>5. MadeUnderItsName'
  <2> SUFFICES ASSUME NEW i \in Indices, NEW c \in Creations, server'[i] = c
               PROVE  name'[c] = i /\ Settled(c)' /\ stage'[c] # "putting"
    BY DEF MadeUnderItsName
  <2>1. CASE i = name[d]
    BY <1>2, <1>3, <2>1, Distinct DEF Settled
  <2>2. CASE i # name[d]
    <3>1. name[c] = i /\ Settled(c) /\ stage[c] # "putting"
      BY <1>2, <2>2 DEF MadeUnderItsName
    <3>2. c # d
      BY <2>2, <3>1
    <3> QED
      BY <1>2, <3>1, <3>2 DEF Settled
  <2> QED
    BY <2>1, <2>2
<1>6. ArmedHaveLooked'
  <2>1. \A i \in Indices : \/ server'[i] \in {server[i], Nobody}
                           \/ server'[i] \in Creations /\ stage'[server'[i]] # "done"
    BY <1>2, <1>3
  <2> QED
    BY <1>1, <2>1, SteadyKeepsLooking
<1>7. HeldOrMet'
  <2> SUFFICES ASSUME NEW c \in Creations, Holding(c)'
               PROVE  (server[name[c]] = c \/ Careless(name[c]) \/ MetTheSameName(c))'
    BY DEF HeldOrMet
  <2>1. CASE c = d
    BY <1>2, <1>3, <2>1 DEF Holding, Requests
  <2>2. CASE c # d
    <3>1. Holding(c)
      BY <1>2, <2>2 DEF Holding
    <3>2. Settled(c) /\ name[c] \in Indices
      BY <3>1 DEF Holding, Settled, Requests, ConnectionTypeOK
    <3>3. CASE Careless(name[c]) \/ MetTheSameName(c)
      BY <1>1, <3>2, <3>3, ExcusesStay
    <3>4. CASE server[name[c]] = c /\ name[c] = name[d]
      BY <1>1, <1>2, <2>2, <3>1, <3>2, <3>4, OwnersAreExcused, ExcusesStay
    <3>5. CASE server[name[c]] = c /\ name[c] # name[d]
      BY <1>2, <3>2, <3>5
    <3> QED
      BY <3>1, <3>3, <3>4, <3>5 DEF HeldOrMet
  <2> QED
    BY <2>1, <2>2
<1>8. EarlierStay'
  <2> SUFFICES ASSUME NEW i \in Listed \cup Unlisted
               PROVE  server'[i] = Earlier \/ Careless(i)'
    BY DEF EarlierStay
  <2>1. i \in Indices
    BY NamesAreFew
  <2>2. CASE Careless(i)
    BY <1>1, <2>1, <2>2, ExcusesStay
  <2>3. CASE server[i] = Earlier /\ ~ Careless(i)
    <3>1. i # name[d]
      BY <1>2, <2>3, OwnersAreExcused
    <3> QED
      BY <1>2, <2>1, <2>3, <3>1
  <2> QED
    BY <2>2, <2>3 DEF EarlierStay
<1>9. FailedIsRemoved'
  <2> SUFFICES ASSUME NEW c \in Creations, stage'[c] = "failed", server'[name'[c]] = c
               PROVE  c \in deletes' \cup refused'
    BY DEF FailedIsRemoved
  <2>1. CASE c = d
    BY <1>2, <1>3, <2>1, Distinct
  <2>2. CASE c # d
    <3>1. name[c] # name[d] /\ name[c] \in Indices
      BY <1>2, <1>3, <2>2, Distinct DEF ConnectionTypeOK
    <3>2. c \in deletes \cup refused
      BY <1>2, <2>2, <3>1 DEF FailedIsRemoved
    <3> QED
      BY <1>2, <2>2, <3>2
  <2> QED
    BY <2>1, <2>2
<1> QED
  BY <1>4, <1>5, <1>6, <1>7, <1>8, <1>9

-----------------------------------------------------------------------------

(* The resource group holds the earlier connections at first.              *)
LEMMA InitServer == ConnectionInit => ServerInv
<1> SUFFICES ASSUME ConnectionInit PROVE ServerInv
  OBVIOUS
<1>1. ConnectionTypeOK
  BY InitTypes
<1>2. /\ stage = [c \in Creations |-> "idle"] /\ deletes = {} /\ blind = {}
      /\ server = [i \in Indices |-> IF i \in Listed \cup Unlisted THEN Earlier ELSE Nobody]
  BY DEF ConnectionInit
<1>3. DeletesFollowFailures /\ BlindAreSettled /\ AliveHaveMet
  BY <1>2 DEF DeletesFollowFailures, BlindAreSettled, AliveHaveMet, Alive, Busy
<1>4. MadeUnderItsName
  BY <1>2, Distinct DEF MadeUnderItsName
<1>5. ArmedHaveLooked /\ HeldOrMet /\ FailedIsRemoved
  BY <1>2 DEF ArmedHaveLooked, HeldOrMet, FailedIsRemoved, Armed, Holding, Requests
<1>6. EarlierStay
  BY <1>2, NamesAreFew DEF EarlierStay
<1> QED
  BY <1>1, <1>3, <1>4, <1>5, <1>6 DEF ServerInv

(* Every step keeps the invariant.                                         *)
LEMMA StepServer ==
  ASSUME ServerInv, [ConnectionNext]_connectionVars
  PROVE  ServerInv'
<1> USE DEF ServerInv
<1>1. ConnectionTypeOK'
  BY StepTypes
<1>2. CASE \E c \in Creations : Put(c) \/ Delete(c)
  BY <1>1, <1>2, WritingKeeps
<1>3. CASE \E c \in Creations, n \in Nodes, k \in Kinds : Begin(c, n, k)
  BY <1>1, <1>3, BeginIsSteady, LeavingKeeps
<1>4. CASE \E c \in Creations :
             \/ ListAnswered(c) \/ LookupFails(c) \/ NameTaken(c) \/ NameFree(c)
             \/ Refused(c) \/ Secured(c) \/ Tested(c) \/ WriteLocal(c)
             \/ OpenWindow(c) \/ LoginTimesOut(c) \/ Confirmed(c) \/ ReadBack(c)
             \/ LoginReturns(c) \/ DeleteFails(c)
  <2>1. Steady /\ LeavesServer
    BY <1>4, WaitingIsSteady
  <2> QED
    BY <1>1, <2>1, LeavingKeeps
<1>5. CASE Workflow \/ UNCHANGED connectionVars
  <2>1. UNCHANGED <<creationVars, outside, beside, blind, refused>>
    BY <1>5 DEF Workflow, DeleteNode, AddNode, DefaultSet, Select, Edited, connectionVars, history
  <2>2. Steady /\ LeavesServer
    BY <2>1, Unmoved
  <2> QED
    BY <1>1, <2>2, LeavingKeeps
<1> QED
  BY <1>2, <1>3, <1>4, <1>5 DEF ConnectionNext, Answer

(* Every connection in the resource group is an earlier one, or of a       *)
(* creation that has its name, and who may yet overwrite or delete it has  *)
(* met its maker or was blind.                                             *)
THEOREM ServerInvariant == ConnectionSafety => []ServerInv
<1> QED
  BY InitServer, StepServer, PTL DEF ConnectionSafety

(* A connection that was there, or that was made and given to an operation,*)
(* stays in the resource group, for any number of creations side by side:  *)
(* only one that ran beside its own creation with the same name, or that   *)
(* took the name for free on an error, overwrites or deletes it.           *)
THEOREM ConnectionsAlwaysStay == ConnectionSafety => []ConnectionsStay
<1>1. ServerInv => ConnectionsStay
  <2> SUFFICES ASSUME ServerInv PROVE ConnectionsStay
    OBVIOUS
  <2>1. ASSUME NEW c \in Creations, stage[c] = "done", kind[c] # "builtin", server[name[c]] # c
        PROVE  Careless(name[c]) \/ \E d \in beside[c] : name[d] = name[c]
    BY <2>1 DEF ServerInv, HeldOrMet, Holding, MetTheSameName
  <2> QED
    BY <2>1 DEF ServerInv, EarlierStay, ConnectionsStay
<1> QED
  BY <1>1, ServerInvariant, PTL

(* Whichever request of a creation fails, what it made is removed, or its  *)
(* DELETE is still to come or was refused: the catch blocks of             *)
(* createConnection and createAndAuthorizeOAuthConnection.                 *)
THEOREM FailuresAreRemoved == ConnectionSafety => []FailedIsRemoved
<1>1. ServerInv => FailedIsRemoved
  BY DEF ServerInv
<1> QED
  BY <1>1, ServerInvariant, PTL
=============================================================================
