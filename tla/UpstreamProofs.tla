--------------------------- MODULE UpstreamProofs ---------------------------
(***************************************************************************)
(* What operations are offered, in workflows without scopes: outputs of    *)
(* operations before them, computed by each load from the state it began   *)
(* with, by each edit from the state it leaves, and not at all while an    *)
(* operation has no tokens.  In the end all of them are right.             *)
(***************************************************************************)
EXTENDS OperationDetailsProofs, CanvasProofs

-----------------------------------------------------------------------------
(* Workflows without scopes.                                               *)

FlatOnly == CanvasOnly /\ Scopes = {}

(* All that a workflow knows is drawn, and hangs from its first node. *)
FlatState(w) == CanvasState(w) /\ IsTree(w)

(* What there is of a workflow without scopes: operations, all on the      *)
(* canvas, and perhaps the placeholder.                                    *)
LEMMA FlatHasParts ==
  ASSUME Scopes = {}, NEW w, FlatState(w)
  PROVE  /\ Defined(w) = w.children[Root] \ {Placeholder}
         /\ Defined(w) \subseteq Operations
         /\ w.children[Root] \subseteq Operations \cup {Placeholder}
         /\ w.isRoot \subseteq Triggers \cup {Placeholder}
         /\ \A x \in w.children[Root] : x \in Triggers \cup {Placeholder} => x \in w.isRoot
         /\ w.edges[Root] \subseteq Ends \X Ends
         /\ \A p, c : <<p, c>> \in w.edges[Root] =>
              p \in w.children[Root] /\ c \in w.children[Root] \ w.isRoot
         /\ \A x : IsRootNodeInGraph(w, x, Root) <=> x \in w.isRoot
<1> DEFINE C == w.children[Root]
           S == Start(w, Root)
<1>1. /\ CanvasState(w) /\ IsTree(w) /\ Graphs = {Root} /\ Root \in Graphs
      /\ Footers = {} /\ S = C \cap w.isRoot /\ Cards(w, Root) = C
  BY FlatIds DEF FlatState, Start, Cards, Footers
<1>2. /\ Defined(w) = HasMetadata(w) \ {Placeholder} /\ Defined(w) \subseteq Operations
      /\ C \subseteq Operations \cup {Placeholder}
      /\ w.edges[Root] \subseteq Ends \X Ends
      /\ C \ S \subseteq Actions \cup Scopes
      /\ \A p, c : <<p, c>> \in w.edges[Root] => p \in C /\ c \in C \ S
      /\ \A n \in C : n \in HasMetadata(w) /\ w.graphOf[n] = Root
  BY <1>1, CanvasHasParts
<1>3. Defined(w) = C \ {Placeholder}
  <2>1. \A n \in Defined(w) : w.graphOf[n] = Root /\ n \in C
    BY <1>1, <1>2, GraphsAreNamed DEF IsTree, IsHome
  <2> QED BY <1>2, <2>1, Ids
<1>4. w.isRoot \subseteq Triggers \cup {Placeholder}
  <2>1. w.isRoot \subseteq HasMetadata(w) /\ S \subseteq Triggers \cup {Placeholder}
    BY <1>1 DEF CanvasState
  <2> QED BY <1>1, <1>2, <1>3, <2>1
<1>5. \A x \in C : x \in Triggers \cup {Placeholder} => x \in w.isRoot
  <2>1. Placeholder \notin Actions \cup Scopes /\ Triggers \cap (Actions \cup Scopes) = {}
    BY IdsAreDistinct
  <2> QED BY <1>1, <1>2, <2>1
<1>6. \A x : IsRootNodeInGraph(w, x, Root) <=> x \in w.isRoot
  <2>1. \A x \in w.isRoot : x \in HasMetadata(w) /\ w.graphOf[x] = Root
    <3>1. w.isRoot \subseteq HasMetadata(w)
      BY <1>1 DEF CanvasState
    <3>2. \A x \in HasMetadata(w) : w.graphOf[x] = Root
      BY <1>1, GraphsAreNamed
    <3> QED BY <3>1, <3>2
  <2> QED BY <2>1 DEF IsRootNodeInGraph
<1> HIDE DEF C, S
<1>7. \A p, c : <<p, c>> \in w.edges[Root] => p \in C /\ c \in C \ w.isRoot
  BY <1>1, <1>2
<1> QED BY <1>2, <1>3, <1>4, <1>5, <1>6, <1>7 DEF C

(* The edits keep it. *)
LEMMA FlatKeeps ==
  /\ FlatOnly => NestsNothing
  /\ TreeInv => FlatState(wf) /\ Inv /\ IsRendered
BY DEF FlatOnly, NestsNothing, OneScope, TreeInv, HomeInv, CanvasInv, FlatState

-----------------------------------------------------------------------------
(* What is drawn before a node.                                            *)

(* What getAllSourceNodeIds counts as a parent of m. *)
Parents(w, g, m) == Sources(Links(w, g), m) \ Headings

(* What comes before n is in every set that has the parents of n and those *)
(* of its members, but for what is inside scopes.                          *)
LEMMA SourcesAreWithin ==
  ASSUME NEW w, NEW g, NEW n, NEW T, Parents(w, g, n) \subseteq T,
         \A m \in T : Parents(w, g, m) \subseteq T
  PROVE  /\ AllSources(w, g, n) \subseteq T \cup Defined(w)
         /\ T = {} => AllSources(w, g, n) = {}
<1> DEFINE N == Cardinality(Operations)
           S == Parents(w, g, n)
           X == {e[1] : e \in w.edges[g]}
           step == [m \in X |-> Parents(w, g, m)]
           IsIt(f) == f = [i \in 0..N |->
                             IF i = 0 THEN S
                             ELSE LET before == f[i - 1]
                                  IN  before \cup UNION {Parents(w, g, m) : m \in before}]
           r == CHOOSE f : IsIt(f)
<1>1. N \in Nat
  BY OperationsAreFinite, FS_CardinalityType
<1>2. S \subseteq X /\ \A m \in X : step[m] \subseteq X
  BY DEF Parents, Sources, Links
<1>3. PICK f : Reaches(f, step, S, N)
  BY <1>1, ReachExists
<1>4. \A i \in 0..N : f[i] \subseteq X
  <2> HIDE DEF step, S, X
  <2> QED BY <1>1, <1>2, <1>3, ReachIsWithin
<1>5. \A i \in 0..N : i # 0 =>
        Onwards(step, f[i - 1]) = f[i - 1] \cup UNION {Parents(w, g, m) : m \in f[i - 1]}
  <2> TAKE i \in 0..N
  <2> HAVE i # 0
  <2>1. f[i - 1] \subseteq X
    BY <1>1, <1>4
  <2> HIDE DEF X
  <2> QED BY <2>1 DEF Onwards
<1>6. IsIt(f)
  <2> HIDE DEF step, S
  <2> QED BY <1>3, <1>5 DEF Reaches
<1>7. IsIt(r)
  <2> HIDE DEF IsIt
  <2> QED BY <1>6
<1>8. AllSources(w, g, n) = r[N] \cup (Defined(w) \cap UNION {Contents(w, m) : m \in r[N] \cap Operations})
  BY DEF AllSources, Closure, Parents
<1> DEFINE P == {i \in 0..N : r[i] \subseteq T}
<1>9. 0 \in P
  <2>1. 0 \in 0..N
    BY <1>1
  <2>2. r[0] = S
    <3> HIDE DEF r, S
    <3> QED BY <1>7, <2>1
  <2> HIDE DEF r, S
  <2> QED BY <2>1, <2>2 DEF S
<1>10. ASSUME NEW i \in 1..N, i - 1 \in P PROVE i \in P
  <2>1. i \in 0..N /\ i # 0
    BY <1>1
  <2>2. r[i] = r[i - 1] \cup UNION {Parents(w, g, m) : m \in r[i - 1]}
    <3> HIDE DEF r, S
    <3> QED BY <1>7, <2>1
  <2> HIDE DEF r
  <2> QED BY <1>10, <2>1, <2>2
<1>11. N \in P
  <2> HIDE DEF P
  <2>1. \A i \in 0..N : i \in P
    BY <1>1, <1>9, <1>10, UpTo
  <2> QED BY <1>1, <2>1
<1> HIDE DEF r
<1> QED BY <1>8, <1>11

(* Without scopes the token node ids are what comes before on the canvas,  *)
(* whichever manifests are known; nothing comes before a trigger.          *)
LEMMA FlatTokenNodes ==
  ASSUME Scopes = {}, NEW w, FlatState(w), NEW n \in Defined(w), NEW M
  PROVE  /\ TokenNodeIds(w, n, M) = AllSources(w, Root, n)
         /\ TokenNodeIds(w, n, M) \subseteq Operations \cup {Placeholder}
         /\ n \in Triggers => TokenNodeIds(w, n, M) = {}
<1> DEFINE C == w.children[Root]
<1>1. /\ Defined(w) = C \ {Placeholder} /\ C \subseteq Operations \cup {Placeholder}
      /\ \A x \in C : x \in Triggers \cup {Placeholder} => x \in w.isRoot
      /\ \A p, c : <<p, c>> \in w.edges[Root] => p \in C /\ c \in C \ w.isRoot
      /\ w.edges[Root] \subseteq Ends \X Ends
  BY FlatHasParts
<1>2. NodeGraphId(w, n) = Root
  <2>1. n \in HasMetadata(w) /\ w.graphOf[n] \in Graphs
    BY GraphsAreNamed DEF FlatState
  <2> QED BY <2>1, FlatIds DEF NodeGraphId
<1>3. ParentsOf(w, n) = {} /\ Untils = {}
  BY IdsAreDistinct DEF ParentsOf
<1>4. TokenNodeIds(w, n, M) = AllSources(w, Root, n)
  BY <1>2, <1>3 DEF TokenNodeIds, UpstreamNodeIds
<1>5. \A m : Parents(w, Root, m) \subseteq C
  BY <1>1 DEF Parents, Sources, Links
<1>6. AllSources(w, Root, n) \subseteq C \cup Defined(w)
  <2> HIDE DEF C
  <2> QED BY <1>5, SourcesAreWithin
<1>7. ASSUME n \in Triggers PROVE AllSources(w, Root, n) = {}
  <2>1. Parents(w, Root, n) = {}
    BY <1>1, <1>7 DEF Parents, Sources, Links
  <2>2. \A T : T = {} => AllSources(w, Root, n) = {}
    BY <2>1, SourcesAreWithin
  <2> QED BY <2>2
<1> QED BY <1>1, <1>4, <1>6, <1>7

-----------------------------------------------------------------------------
(* What every update leaves.                                               *)

IsTokens(tk) ==
  \A n \in DOMAIN tk : tk[n] = [of |-> tk[n].of, upstream |-> tk[n].upstream]

(* Triggers are offered nothing. *)
BareTriggers(tk) == \A n \in Triggers \cap DOMAIN tk : tk[n].upstream = {}

(* Every operation is offered what comes before it. *)
UpToDate(w, tk) ==
  \A n \in Defined(w) : n \in DOMAIN tk /\ tk[n].upstream = TokenNodeIds(w, n, {})

(* updateAllUpstreamNodes, when it does not throw, brings all up to date.  *)
LEMMA UpdateBringsUpToDate ==
  ASSUME Scopes = {}, NEW w, FlatState(w), NEW tk, IsTokens(tk), BareTriggers(tk)
  PROVE  LET new == UpdateAllUpstreamNodes(w, tk)
         IN  /\ DOMAIN new = DOMAIN tk /\ IsTokens(new) /\ BareTriggers(new)
             /\ Defined(w) \subseteq DOMAIN tk => UpToDate(w, new)
<1> DEFINE new == UpdateAllUpstreamNodes(w, tk)
<1>1. /\ DOMAIN new = DOMAIN tk
      /\ \A n \in DOMAIN tk :
           new[n].of = tk[n].of /\ new[n] = [of |-> new[n].of, upstream |-> new[n].upstream]
  BY UpdateKeepsKinds DEF IsTokens
<1>2. \A n \in Defined(w) : n \in Triggers <=> n \notin Updated(w)
  <2>1. /\ Defined(w) = w.children[Root] \ {Placeholder}
        /\ \A x \in w.children[Root] : x \in Triggers \cup {Placeholder} => x \in w.isRoot
        /\ w.isRoot \subseteq Triggers \cup {Placeholder}
        /\ \A x : IsRootNodeInGraph(w, x, Root) <=> x \in w.isRoot
    BY FlatHasParts
  <2> QED BY <2>1 DEF Updated
<1>3. \A n \in Triggers : n \notin Updated(w)
  BY <1>2 DEF Updated
<1>4. CASE UpdateThrows(w, tk)
  <2>1. new = tk /\ ~(Defined(w) \subseteq DOMAIN tk)
    BY <1>4 DEF UpdateAllUpstreamNodes, UpdateThrows, Updated
  <2> QED BY <2>1
<1>5. CASE ~UpdateThrows(w, tk)
  <2>1. \A n \in DOMAIN tk :
          new[n].upstream = IF n \in Updated(w) THEN TokenNodeIds(w, n, {}) ELSE tk[n].upstream
    <3>1. new = [n \in DOMAIN tk |-> IF n \in Updated(w)
                                     THEN [tk[n] EXCEPT !.upstream = TokenNodeIds(w, n, {})]
                                     ELSE tk[n]]
      BY <1>5 DEF UpdateAllUpstreamNodes
    <3>2. \A n \in DOMAIN tk :
            [tk[n] EXCEPT !.upstream = TokenNodeIds(w, n, {})].upstream = TokenNodeIds(w, n, {})
      BY DEF IsTokens
    <3> HIDE DEF new
    <3> QED BY <3>1, <3>2
  <2>2. \A n \in Defined(w) \cap Triggers : TokenNodeIds(w, n, {}) = {}
    BY FlatTokenNodes
  <2> HIDE DEF new
  <2>3. BareTriggers(new)
    BY <1>1, <1>3, <2>1 DEF BareTriggers
  <2>4. Defined(w) \subseteq DOMAIN tk => UpToDate(w, new)
    BY <1>1, <1>2, <2>1, <2>2 DEF UpToDate, BareTriggers
  <2> QED BY <1>1, <2>3, <2>4 DEF IsTokens, new
<1> QED BY <1>4, <1>5

-----------------------------------------------------------------------------
(* The invariant.                                                          *)

(* The tokens of n are still to come, or are lost. *)
Awaited(n) ==
  n \in failed \/ \E l \in Loads : RunsFor(l, n) /\ loads[l].waitsFor = "manifest"

Covered == \A n \in Defined(wf) : n \in DOMAIN tokens \/ Awaited(n)

(* An operation there is has lost a fetch, or will update all when its     *)
(* load ends.                                                              *)
Unsettled ==
  \/ Defined(wf) \cap failed # {}
  \/ \E l \in Loads : IsRunning(l) /\ loads[l].node \in Defined(wf)

LoadsAreBare ==
  \A l \in Loads : IsRunning(l) /\ loads[l].node \in Triggers => loads[l].upstream = {}

UpstreamInv ==
  /\ opening.waitsFor # "nothing" => opening.workflow = wf
  /\ BareTriggers(tokens) /\ LoadsAreBare
  /\ opening.waitsFor # "details" => Covered /\ (UpToDate(wf, tokens) \/ Unsettled)

(* A step that ends in an update: all is right then, or the operation that *)
(* made it throw has a load to end, or has failed.                         *)
LEMMA UpdatingKeeps ==
  ASSUME Scopes = {}, FlatState(wf'), opening'.waitsFor = "nothing",
         NEW tk, IsTokens(tk), BareTriggers(tk), tokens' = UpdateAllUpstreamNodes(wf', tk),
         LoadsAreBare', \A n \in Defined(wf') : n \in DOMAIN tk \/ Awaited(n)'
  PROVE  UpstreamInv'
<1> DEFINE new == UpdateAllUpstreamNodes(wf', tk)
<1>1. /\ DOMAIN new = DOMAIN tk /\ BareTriggers(new)
      /\ Defined(wf') \subseteq DOMAIN tk => UpToDate(wf', new)
  BY UpdateBringsUpToDate
<1>2. tokens' = new
  OBVIOUS
<1> HIDE DEF new
<1>3. Covered'
  BY <1>1, <1>2 DEF Covered
<1>4. UpToDate(wf', tokens') \/ Unsettled'
  <2>1. CASE Defined(wf') \subseteq DOMAIN tk
    BY <1>1, <1>2, <2>1
  <2>2. ASSUME NEW n \in Defined(wf'), n \notin DOMAIN tk PROVE Unsettled'
    <3>1. Awaited(n)'
      BY <2>2
    <3> QED BY <3>1 DEF Awaited, Unsettled, RunsFor
  <2> QED BY <2>1, <2>2
<1> QED BY <1>1, <1>2, <1>3, <1>4 DEF UpstreamInv

(* A step that leaves the tokens alone, and takes away neither what is     *)
(* awaited nor what will settle it.                                        *)
LEMMA WaitingKeeps ==
  ASSUME UpstreamInv, UNCHANGED <<wf, tokens>>,
         opening'.waitsFor = opening.waitsFor \/ opening'.waitsFor = "nothing",
         opening'.waitsFor # "nothing" => opening'.workflow = opening.workflow,
         opening.waitsFor # "details", LoadsAreBare',
         \A n : Awaited(n) => Awaited(n)', Unsettled => Unsettled'
  PROVE  UpstreamInv'
<1>1. Covered' /\ (UpToDate(wf', tokens') \/ Unsettled')
  BY DEF UpstreamInv, Covered
<1> QED BY <1>1 DEF UpstreamInv

-----------------------------------------------------------------------------
(* Every step keeps it.                                                    *)

(* The details of the definition arrive: all tokens at once.               *)
LEMMA OpeningKeepsUpstream ==
  ASSUME Scopes = {}, FlatState(wf), DetailsInv, UpstreamInv,
         NEW missing \in SUBSET Unreachable, OpenDetails(missing)
  PROVE  UpstreamInv'
<1> DEFINE there == Defined(wf) \ missing
<1>1. /\ opening.workflow = wf /\ opening' = [opening EXCEPT !.waitsFor = "connections"]
      /\ UNCHANGED <<wf, loads>>
      /\ opening = [waitsFor |-> opening.waitsFor, workflow |-> opening.workflow]
  BY DEF OpenDetails, UpstreamInv, DetailsInv, OpeningInv
<1>2. /\ DOMAIN tokens' = DOMAIN tokens \cup Defined(wf)
      /\ \A n \in Defined(wf) : tokens'[n].upstream = TokenNodeIds(wf, n, there)
      /\ \A n \in DOMAIN tokens \ Defined(wf) : tokens'[n] = tokens[n]
  <2>1. tokens' = [n \in DOMAIN tokens \cup Defined(wf) |->
                     IF n \in Defined(wf)
                     THEN [of |-> IF n \in missing THEN NoKind ELSE OpenedKind,
                           upstream |-> TokenNodeIds(wf, n, there)]
                     ELSE tokens[n]]
    BY <1>1 DEF OpenDetails
  <2> QED BY <2>1
<1>3. \A n \in Defined(wf) : /\ TokenNodeIds(wf, n, there) = TokenNodeIds(wf, n, {})
                             /\ n \in Triggers => TokenNodeIds(wf, n, there) = {}
  BY FlatTokenNodes
<1> HIDE DEF there
<1>4. UpToDate(wf', tokens') /\ BareTriggers(tokens')
  BY <1>1, <1>2, <1>3 DEF UpToDate, BareTriggers, UpstreamInv
<1>5. LoadsAreBare' /\ Covered'
  BY <1>1, <1>2 DEF UpstreamInv, LoadsAreBare, IsRunning, Covered
<1>6. opening'.waitsFor = "connections" /\ opening'.workflow = wf'
  BY <1>1
<1> QED BY <1>4, <1>5, <1>6 DEF UpstreamInv

(* An operation is added: its load will bring its tokens, and update all.  *)
LEMMA AddingKeepsUpstream ==
  ASSUME Scopes = {}, FlatState(wf'), DetailsInv, UpstreamInv, opening.waitsFor = "nothing",
         NEW n, Defined(wf') = Defined(wf) \cup {n},
         NEW kind, NEW l \in Loads, loads[l] = NotStarted, StartLoad(n, kind, l)
  PROVE  UpstreamInv'
<1>1. /\ loads' = [loads EXCEPT ![l] = [node |-> n, kind |-> kind, waitsFor |-> "manifest",
                                        upstream |-> TokenNodeIds(wf', n, {n})]]
      /\ UNCHANGED <<tokens, opening, failed>>
  BY DEF StartLoad
<1>2. /\ loads'[l].node = n /\ loads'[l].waitsFor = "manifest"
      /\ loads'[l].upstream = TokenNodeIds(wf', n, {n})
      /\ \A m \in Loads \ {l} : loads'[m] = loads[m]
  BY <1>1 DEF DetailsInv, LoadsInv
<1>3. ~IsRunning(l) /\ RunsFor(l, n)'
  BY <1>2 DEF IsRunning, RunsFor, NotStarted
<1>4. \A k : Awaited(k) => Awaited(k)'
  BY <1>1, <1>2, <1>3 DEF Awaited, RunsFor, IsRunning
<1>5. Awaited(n)' /\ Unsettled'
  BY <1>2, <1>3 DEF Awaited, Unsettled, RunsFor
<1>6. Covered'
  BY <1>1, <1>4, <1>5 DEF UpstreamInv, Covered
<1>7. n \in Triggers => TokenNodeIds(wf', n, {n}) = {}
  BY FlatTokenNodes
<1>8. LoadsAreBare'
  BY <1>2, <1>7 DEF UpstreamInv, LoadsAreBare, IsRunning
<1> QED BY <1>1, <1>5, <1>6, <1>8 DEF UpstreamInv

(* What a load takes with it when it goes on or ends.                      *)
LEMMA LoadsGoOn ==
  ASSUME DetailsInv, UpstreamInv, NEW l \in Loads, IsRunning(l),
         UNCHANGED <<wf, opening>>, failed \subseteq failed',
         NEW next, loads' = [loads EXCEPT ![l] = next],
         next = Ended \/ \E stage : next = [loads[l] EXCEPT !.waitsFor = stage]
  PROVE  /\ opening.waitsFor = "nothing" /\ LoadsAreBare'
         /\ \A n : n # loads[l].node /\ Awaited(n) => Awaited(n)'
         /\ \A m \in Loads \ {l} : loads'[m] = loads[m] /\ (IsRunning(m)' <=> IsRunning(m))
<1>1. opening.waitsFor = "nothing"
  BY DEF DetailsInv, OpeningInv
<1>2. /\ \A m \in Loads \ {l} : loads'[m] = loads[m] /\ (IsRunning(m)' <=> IsRunning(m))
      /\ loads'[l] = next
  BY DEF DetailsInv, LoadsInv, IsRunning
<1>3. \A n : n # loads[l].node /\ Awaited(n) => Awaited(n)'
  BY <1>2 DEF Awaited, RunsFor
<1>4. IsRunning(l)' => loads'[l].node = loads[l].node /\ loads'[l].upstream = loads[l].upstream
  <2>1. loads[l] = [node |-> loads[l].node, kind |-> loads[l].kind, waitsFor |-> loads[l].waitsFor,
                    upstream |-> loads[l].upstream]
    BY DEF DetailsInv, LoadsInv, IsLoad
  <2>2. next = Ended => ~IsRunning(l)'
    BY <1>2 DEF IsRunning, Ended
  <2> QED BY <1>2, <2>1, <2>2
<1>5. LoadsAreBare'
  BY <1>2, <1>4 DEF UpstreamInv, LoadsAreBare
<1> QED BY <1>1, <1>2, <1>3, <1>5

(* The tokens of one operation are written, as a load brings them.         *)
LEMMA TokensBrought ==
  ASSUME IsTokens(tokens), UpstreamInv, NEW l \in Loads, IsRunning(l),
         NEW tk, tk = With(tokens, loads[l].node, [of |-> loads[l].kind, upstream |-> loads[l].upstream])
  PROVE  /\ IsTokens(tk) /\ BareTriggers(tk)
         /\ DOMAIN tk = DOMAIN tokens \cup {loads[l].node}
         /\ \A n \in DOMAIN tokens \ {loads[l].node} : tk[n] = tokens[n]
<1> DEFINE node == loads[l].node
           new == [of |-> loads[l].kind, upstream |-> loads[l].upstream]
<1>1. /\ DOMAIN tk = DOMAIN tokens \cup {node} /\ tk[node] = new
      /\ \A n \in DOMAIN tokens \ {node} : tk[n] = tokens[n]
  BY DEF With
<1>2. new = [of |-> new.of, upstream |-> new.upstream] /\ new.upstream = loads[l].upstream
  OBVIOUS
<1>3. node \in Triggers => loads[l].upstream = {}
  BY DEF UpstreamInv, LoadsAreBare
<1> HIDE DEF new, node
<1>4. IsTokens(tk)
  BY <1>1, <1>2 DEF IsTokens
<1>5. BareTriggers(tk)
  BY <1>1, <1>2, <1>3 DEF BareTriggers, UpstreamInv
<1> QED BY <1>1, <1>4, <1>5 DEF node

(* The manifest of an added operation arrives: the load ends, with an      *)
(* update, or goes on to the connections and will update later.            *)
LEMMA ManifestKeepsUpstream ==
  ASSUME Scopes = {}, FlatState(wf), DetailsInv, UpstreamInv, NEW l \in Loads, ManifestArrives(l)
  PROVE  UpstreamInv'
<1> DEFINE node == loads[l].node
           tk == With(tokens, node, [of |-> loads[l].kind, upstream |-> loads[l].upstream])
<1>1. IsRunning(l) /\ UNCHANGED <<wf, opening, failed>> /\ IsTokens(tokens)
  BY DEF ManifestArrives, IsRunning, DetailsInv, TokensInv, IsTokens
<1>2. PICK next : /\ loads' = [loads EXCEPT ![l] = next]
                  /\ next = Ended \/ \E stage : next = [loads[l] EXCEPT !.waitsFor = stage]
  BY DEF ManifestArrives, FinishLoad
<1>3. /\ opening.waitsFor = "nothing" /\ LoadsAreBare'
      /\ \A n : n # node /\ Awaited(n) => Awaited(n)'
      /\ \A m \in Loads \ {l} : loads'[m] = loads[m] /\ (IsRunning(m)' <=> IsRunning(m))
  BY <1>1, <1>2, LoadsGoOn
<1>4. /\ IsTokens(tk) /\ BareTriggers(tk)
      /\ DOMAIN tk = DOMAIN tokens \cup {node}
      /\ \A n \in DOMAIN tokens \ {node} : tk[n] = tokens[n]
  BY <1>1, TokensBrought
<1>5. \A n \in Defined(wf) : n \in DOMAIN tk \/ Awaited(n)'
  BY <1>3, <1>4 DEF UpstreamInv, Covered
<1>6. CASE loads[l].kind \notin NeedConnection
  <2>1. tokens' = UpdateAllUpstreamNodes(wf', tk)
    BY <1>1, <1>6 DEF ManifestArrives, FinishLoad
  <2> HIDE DEF tk
  <2> QED BY <1>1, <1>3, <1>4, <1>5, <2>1, UpdatingKeeps
<1>7. CASE loads[l].kind \in NeedConnection
  <2>1. tokens' = tk /\ loads' = [loads EXCEPT ![l].waitsFor = "connections"]
    BY <1>7 DEF ManifestArrives
  <2>2. IsRunning(l)' /\ loads'[l].node = node
    BY <1>1, <2>1 DEF DetailsInv, LoadsInv, IsLoad, IsRunning
  <2> HIDE DEF tk
  <2>3. Covered'
    BY <1>1, <1>5, <2>1 DEF Covered
  <2>4. UpToDate(wf', tokens') \/ Unsettled'
    <3>1. CASE node \in Defined(wf)
      BY <1>1, <2>2, <3>1 DEF Unsettled
    <3>2. CASE node \notin Defined(wf) /\ UpToDate(wf, tokens)
      BY <1>1, <1>4, <2>1, <3>2 DEF UpToDate
    <3>3. CASE node \notin Defined(wf) /\ Unsettled
      BY <1>1, <1>3, <3>3 DEF Unsettled
    <3> QED BY <1>3, <3>1, <3>2, <3>3 DEF UpstreamInv
  <2>5. BareTriggers(tokens')
    BY <1>4, <2>1
  <2> QED BY <1>1, <1>3, <2>3, <2>4, <2>5 DEF UpstreamInv
<1> QED BY <1>6, <1>7

(* Its connections arrive: the load goes on.                               *)
LEMMA ConnectionsKeepUpstream ==
  ASSUME DetailsInv, UpstreamInv, NEW l \in Loads, NEW reference, ConnectionsArrive(l, reference)
  PROVE  UpstreamInv'
<1>1. /\ IsRunning(l) /\ loads[l].waitsFor = "connections"
      /\ UNCHANGED <<wf, tokens, opening, failed>>
      /\ loads' = [loads EXCEPT ![l].waitsFor = "finish"]
  BY DEF ConnectionsArrive, IsRunning
<1>2. loads' = [loads EXCEPT ![l] = [loads[l] EXCEPT !.waitsFor = "finish"]]
  BY <1>1
<1>3. /\ opening.waitsFor = "nothing" /\ LoadsAreBare'
      /\ \A m \in Loads \ {l} : loads'[m] = loads[m] /\ (IsRunning(m)' <=> IsRunning(m))
  BY <1>1, <1>2, LoadsGoOn
<1>4. IsRunning(l)' /\ loads'[l].node = loads[l].node
  BY <1>1 DEF DetailsInv, LoadsInv, IsLoad, IsRunning
<1>5. \A n : Awaited(n) => Awaited(n)'
  <2> SUFFICES ASSUME NEW n, n \notin failed, NEW m \in Loads, RunsFor(m, n),
                      loads[m].waitsFor = "manifest"
               PROVE  RunsFor(m, n)' /\ loads'[m].waitsFor = "manifest"
    BY <1>1 DEF Awaited
  <2> QED BY <1>1, <1>3 DEF RunsFor
<1>6. Unsettled => Unsettled'
  BY <1>1, <1>3, <1>4 DEF Unsettled
<1> QED BY <1>1, <1>3, <1>5, <1>6, WaitingKeeps

(* The load ends with an update.                                           *)
LEMMA LoadEndKeepsUpstream ==
  ASSUME Scopes = {}, FlatState(wf), DetailsInv, UpstreamInv, NEW l \in Loads, LoadEnds(l)
  PROVE  UpstreamInv'
<1>1. /\ IsRunning(l) /\ loads[l].waitsFor = "finish" /\ UNCHANGED <<wf, opening, failed>>
      /\ IsTokens(tokens) /\ BareTriggers(tokens)
      /\ loads' = [loads EXCEPT ![l] = Ended] /\ tokens' = UpdateAllUpstreamNodes(wf', tokens)
  BY DEF LoadEnds, FinishLoad, IsRunning, DetailsInv, TokensInv, IsTokens, UpstreamInv
<1>2. /\ opening.waitsFor = "nothing" /\ LoadsAreBare'
      /\ \A m \in Loads \ {l} : loads'[m] = loads[m] /\ (IsRunning(m)' <=> IsRunning(m))
  BY <1>1, LoadsGoOn
<1>3. \A n : Awaited(n) => Awaited(n)'
  BY <1>1, <1>2 DEF Awaited, RunsFor
<1>4. \A n \in Defined(wf') : n \in DOMAIN tokens \/ Awaited(n)'
  BY <1>1, <1>2, <1>3 DEF UpstreamInv, Covered
<1> QED BY <1>1, <1>2, <1>4, UpdatingKeeps

(* A fetch is rejected: what it was for is lost.                           *)
LEMMA FailureKeepsUpstream ==
  ASSUME DetailsInv, UpstreamInv, NEW l \in Loads, FetchFails(l)
  PROVE  UpstreamInv'
<1>1. /\ IsRunning(l) /\ UNCHANGED <<wf, tokens, opening>>
      /\ failed' = failed \cup {loads[l].node} /\ loads' = [loads EXCEPT ![l] = Ended]
  BY DEF FetchFails, IsRunning
<1>2. /\ opening.waitsFor = "nothing" /\ LoadsAreBare'
      /\ \A n : n # loads[l].node /\ Awaited(n) => Awaited(n)'
      /\ \A m \in Loads \ {l} : loads'[m] = loads[m] /\ (IsRunning(m)' <=> IsRunning(m))
  BY <1>1, LoadsGoOn
<1>3. \A n : n = loads[l].node => Awaited(n)'
  BY <1>1 DEF Awaited
<1>4. \A n : Awaited(n) => Awaited(n)'
  BY <1>2, <1>3
<1>5. Unsettled => Unsettled'
  <2>1. CASE Defined(wf) \cap failed # {}
    BY <1>1, <2>1 DEF Unsettled
  <2>2. ASSUME NEW m \in Loads, IsRunning(m), loads[m].node \in Defined(wf)
        PROVE  Unsettled'
    <3>1. CASE m = l
      BY <1>1, <2>2, <3>1 DEF Unsettled
    <3>2. CASE m # l
      BY <1>1, <1>2, <2>2, <3>2 DEF Unsettled
    <3> QED BY <3>1, <3>2
  <2> QED BY <2>1, <2>2 DEF Unsettled
<1> QED BY <1>1, <1>2, <1>4, <1>5, WaitingKeeps

(* An operation is deleted or moved, with an update, or a delete is        *)
(* rejected.                                                               *)
LEMMA EditingKeepsUpstream ==
  ASSUME Scopes = {}, FlatState(wf'), DetailsInv, UpstreamInv, opening.waitsFor = "nothing",
         Defined(wf') \subseteq Defined(wf), UNCHANGED <<opening, loads, failed>>,
         tokens' = UpdateAllUpstreamNodes(wf', tokens) \/ UNCHANGED <<wf, tokens>>
  PROVE  UpstreamInv'
<1>1. /\ LoadsAreBare' /\ \A n : Awaited(n) => Awaited(n)'
      /\ IsTokens(tokens) /\ BareTriggers(tokens)
  BY DEF UpstreamInv, LoadsAreBare, IsRunning, Awaited, RunsFor, DetailsInv, TokensInv, IsTokens
<1>2. \A n \in Defined(wf') : n \in DOMAIN tokens \/ Awaited(n)'
  BY <1>1 DEF UpstreamInv, Covered
<1>3. CASE tokens' = UpdateAllUpstreamNodes(wf', tokens)
  BY <1>1, <1>2, <1>3, UpdatingKeeps
<1>4. CASE UNCHANGED <<wf, tokens>>
  <2>1. Unsettled => Unsettled'
    BY <1>4 DEF Unsettled, IsRunning
  <2> QED BY <1>1, <1>4, <2>1, WaitingKeeps
<1> QED BY <1>3, <1>4

-----------------------------------------------------------------------------
(* Fetching details leaves the canvas as the edits made it.                *)
LEMMA FlatUnderDetails == FlatOnly => (DetailsSpec => []TreeInv)
<1> SUFFICES ASSUME FlatOnly PROVE DetailsSpec => []TreeInv
  OBVIOUS
<1>1. DetailsInit => TreeInv
  BY FlatKeeps, InitTree DEF DetailsInit
<1>2. TreeInv /\ [DetailsNext]_allVars => TreeInv'
  BY FlatKeeps, StepIsEdit, NextTree
<1> QED BY <1>1, <1>2, PTL DEF DetailsSpec

(* Nothing is awaited before the opening.                                  *)
LEMMA DetailsInitUpstream == DetailsInit => UpstreamInv
<1> SUFFICES ASSUME DetailsInit PROVE UpstreamInv
  OBVIOUS
<1>1. \A l \in Loads : ~IsRunning(l)
  BY DEF DetailsInit, IsRunning, NotStarted
<1>2. DOMAIN tokens = {} /\ opening = [waitsFor |-> "details", workflow |-> wf]
  BY DEF DetailsInit, NoDetails
<1> QED BY <1>1, <1>2 DEF UpstreamInv, BareTriggers, LoadsAreBare

(* Every step keeps the invariant.                                         *)
LEMMA NextUpstream ==
  ASSUME FlatOnly, "early" \notin Edits, TreeInv, TreeInv', DetailsInv, UpstreamInv,
         [DetailsNext]_allVars
  PROVE  UpstreamInv'
<1>1. /\ Scopes = {} /\ FlatState(wf) /\ FlatState(wf') /\ Inv /\ IsRendered
      /\ MayEdit => opening.waitsFor = "nothing"
  <2>1. FlatState(wf) /\ Inv /\ IsRendered
    BY FlatKeeps
  <2>2. FlatState(wf')
    BY DEF TreeInv, HomeInv, CanvasInv, FlatState
  <2> QED BY <2>1, <2>2 DEF FlatOnly, MayEdit
<1>2. CASE \E missing \in SUBSET Unreachable : OpenDetails(missing)
  BY <1>1, <1>2, OpeningKeepsUpstream
<1>3. CASE OpenConnections \/ ClickCard \/ UNCHANGED allVars
  <2>1. /\ UNCHANGED <<wf, tokens, loads, failed>>
        /\ OpenConnections \/ UNCHANGED opening
    BY <1>3 DEF OpenConnections, ClickCard, allVars, details
  <2>2. /\ \A n : Awaited(n) => Awaited(n)'
        /\ Unsettled => Unsettled'
        /\ UpstreamInv => LoadsAreBare'
    BY <2>1 DEF Awaited, Unsettled, LoadsAreBare, RunsFor, IsRunning, UpstreamInv
  <2>3. CASE opening.waitsFor # "details"
    <3>1. opening' = opening \/ opening'.waitsFor = "nothing"
      BY <2>1 DEF OpenConnections, Ended
    <3> QED BY <2>1, <2>2, <2>3, <3>1, WaitingKeeps
  <2>4. CASE opening.waitsFor = "details"
    <3>1. UNCHANGED opening
      BY <2>1, <2>4 DEF OpenConnections
    <3> QED BY <2>1, <2>2, <2>4, <3>1 DEF UpstreamInv
  <2> QED BY <2>3, <2>4
<1>4. ASSUME NEW n \in Actions, NEW site \in DOMAIN zones, NEW kind \in Kinds, NEW l \in Loads,
             AddWithDetails(n, site, kind, l) \/ AddParallelWithDetails(n, site, kind, l)
      PROVE  UpstreamInv'
  <2>1. /\ MayEdit /\ (AddOperation(n, site) \/ AddParallelBranch(n, site))
        /\ loads[l] = NotStarted /\ StartLoad(n, kind, l)
    BY <1>4 DEF AddWithDetails, AddParallelWithDetails, MayAdd
  <2>2. Defined(wf') = Defined(wf) \cup {n}
    BY <1>1, <2>1, AddDefines
  <2> QED BY <1>1, <2>1, <2>2, AddingKeepsUpstream
<1>5. ASSUME NEW t \in Triggers, NEW kind \in Kinds, NEW l \in Loads,
             AddTriggerWithDetails(t, kind, l)
      PROVE  UpstreamInv'
  <2>1. MayEdit /\ AddTrigger(t) /\ loads[l] = NotStarted /\ StartLoad(t, kind, l)
    BY <1>5 DEF AddTriggerWithDetails, MayAdd
  <2>2. Defined(wf') = Defined(wf) \cup {t}
    BY <1>1, <2>1, AddTriggerDefines
  <2> QED BY <1>1, <2>1, <2>2, AddingKeepsUpstream
<1>6. ASSUME NEW l \in Loads, ManifestArrives(l) PROVE UpstreamInv'
  BY <1>1, <1>6, ManifestKeepsUpstream
<1>7. ASSUME NEW l \in Loads, NEW reference \in {Connection, NoConnection},
             ConnectionsArrive(l, reference)
      PROVE  UpstreamInv'
  BY <1>7, ConnectionsKeepUpstream
<1>8. ASSUME NEW l \in Loads, LoadEnds(l) PROVE UpstreamInv'
  BY <1>1, <1>8, LoadEndKeepsUpstream
<1>9. ASSUME NEW l \in Loads, FetchFails(l) PROVE UpstreamInv'
  BY <1>9, FailureKeepsUpstream
<1>10. ASSUME NEW n, MayEdit, AfterDelete(n), wf' = wf \/ Defined(wf') = Defined(wf) \ {n}
       PROVE  UpstreamInv'
  <2>1. /\ UNCHANGED <<opening, loads, failed>>
        /\ tokens' = UpdateAllUpstreamNodes(wf', tokens) \/ UNCHANGED <<wf, tokens>>
    BY <1>10 DEF AfterDelete, DeleteDetails
  <2>2. Defined(wf') \subseteq Defined(wf)
    BY <1>10
  <2> QED BY <1>1, <1>10, <2>1, <2>2, EditingKeepsUpstream
<1>11. ASSUME NEW n \in Actions, DeleteActionWithDetails(n) PROVE UpstreamInv'
  BY <1>1, <1>10, <1>11, DeleteUndefines DEF DeleteActionWithDetails
<1>12. ASSUME NEW t \in Triggers, DeleteTriggerWithDetails(t) PROVE UpstreamInv'
  BY <1>1, <1>10, <1>12, DeleteTriggerUndefines DEF DeleteTriggerWithDetails
<1>13. ASSUME NEW n \in Actions, NEW site \in DOMAIN zones, MoveWithDetails(n, site)
       PROVE  UpstreamInv'
  <2>1. /\ MayEdit /\ MoveOperation(n, site) /\ UNCHANGED <<opening, loads, failed>>
        /\ tokens' = UpdateAllUpstreamNodes(wf', tokens)
    BY <1>13 DEF MoveWithDetails
  <2>2. Defined(wf') = Defined(wf)
    BY <1>1, <2>1, MoveDefines
  <2> QED BY <1>1, <2>1, <2>2, EditingKeepsUpstream
<1> QED BY <1>2, <1>3, <1>4, <1>5, <1>6, <1>7, <1>8, <1>9, <1>11, <1>12, <1>13 DEF DetailsNext

-----------------------------------------------------------------------------
(* However the loads of added operations overlap with one another and with *)
(* edits, which store what was upstream when they began: once nothing is   *)
(* on its way and no operation has lost a fetch, every operation is        *)
(* offered what comes before it, and nothing else.                         *)
THEOREM UpstreamAlwaysSettles ==
  FlatOnly /\ "early" \notin Edits => (DetailsSpec => []UpstreamSettles)
<1> SUFFICES ASSUME FlatOnly, "early" \notin Edits PROVE DetailsSpec => []UpstreamSettles
  OBVIOUS
<1>1. DetailsInit => UpstreamInv
  BY DetailsInitUpstream
<1>2. TreeInv /\ TreeInv' /\ DetailsInv /\ UpstreamInv /\ [DetailsNext]_allVars => UpstreamInv'
  BY NextUpstream
<1>3. TreeInv /\ UpstreamInv => UpstreamSettles
  <2> SUFFICES ASSUME TreeInv, UpstreamInv, Settled, Defined(wf) \cap failed = {},
                      NEW n \in Defined(wf)
               PROVE  n \in DOMAIN tokens /\ tokens[n].upstream = TokenNodeIds(wf, n, Defined(wf))
    BY DEF UpstreamSettles
  <2>1. UpToDate(wf, tokens)
    BY DEF UpstreamInv, Settled, Unsettled
  <2>2. Scopes = {} /\ FlatState(wf)
    BY FlatKeeps DEF FlatOnly
  <2>3. \A M : TokenNodeIds(wf, n, M) = AllSources(wf, Root, n)
    BY <2>2, FlatTokenNodes
  <2>4. TokenNodeIds(wf, n, Defined(wf)) = TokenNodeIds(wf, n, {})
    BY <2>3
  <2> QED BY <2>1, <2>4 DEF UpToDate
<1> QED BY <1>1, <1>2, <1>3, FlatUnderDetails, DetailsInvariant, PTL DEF DetailsSpec

-----------------------------------------------------------------------------
(* Shapes.                                                                 *)

Kept == [of : Kinds \cup {NoKind}, upstream : SUBSET (Operations \cup {Placeholder})]

(* Entries are written and taken away one by one.                          *)
LEMMA WithIsPartial ==
  ASSUME NEW f, NEW S, IsPartial(f, S), NEW n \in Operations, NEW v \in S
  PROVE  IsPartial(With(f, n, v), S)
BY DEF IsPartial, With

LEMMA WithoutIsPartial ==
  ASSUME NEW f, NEW S, IsPartial(f, S), NEW n
  PROVE  IsPartial(Without(f, n), S)
BY DEF IsPartial, Without

(* An update puts operations of the workflow in.                           *)
LEMMA UpdateIsPartial ==
  ASSUME Scopes = {}, NEW w, FlatState(w), NEW tk, IsPartial(tk, Kept)
  PROVE  IsPartial(UpdateAllUpstreamNodes(w, tk), Kept)
<1>1. CASE UpdateThrows(w, tk)
  BY <1>1 DEF UpdateAllUpstreamNodes
<1>2. CASE ~UpdateThrows(w, tk)
  <2> DEFINE after(n) == IF n \in Updated(w) THEN [tk[n] EXCEPT !.upstream = TokenNodeIds(w, n, {})]
                         ELSE tk[n]
  <2>1. UpdateAllUpstreamNodes(w, tk) = [n \in DOMAIN tk |-> after(n)]
    BY <1>2 DEF UpdateAllUpstreamNodes
  <2>2. \A n \in DOMAIN tk : after(n) \in Kept
    <3> SUFFICES ASSUME NEW n \in DOMAIN tk PROVE after(n) \in Kept
      OBVIOUS
    <3>1. tk[n] \in Kept
      BY DEF IsPartial
    <3>2. n \in Updated(w) => TokenNodeIds(w, n, {}) \subseteq Operations \cup {Placeholder}
      BY FlatTokenNodes DEF Updated
    <3> QED BY <3>1, <3>2 DEF Kept
  <2> HIDE DEF after
  <2> QED BY <2>1, <2>2 DEF IsPartial
<1> QED BY <1>1, <1>2

(* The types, with what is known of the workflow being opened.             *)
DetailsTyped ==
  /\ DetailsTypeOK
  /\ opening.waitsFor # "nothing" =>
       /\ opening = [waitsFor |-> opening.waitsFor, workflow |-> opening.workflow]
       /\ FlatState(opening.workflow)

(* At the start nothing is kept.                                           *)
LEMMA DetailsInitTyped == FlatOnly /\ DetailsInit => DetailsTyped
<1> SUFFICES ASSUME FlatOnly, DetailsInit PROVE DetailsTyped
  OBVIOUS
<1>1. FlatState(wf)
  BY FlatKeeps, InitTree DEF DetailsInit
<1>2. opening = [waitsFor |-> "details", workflow |-> wf]
  BY DEF DetailsInit
<1>3. \A S : IsPartial(NoDetails, S)
  BY DEF IsPartial, NoDetails
<1>4. /\ info = NoDetails /\ data = NoDetails /\ settings = NoDetails
      /\ tokens = NoDetails /\ mapping = NoDetails
      /\ loads = [l \in Loads |-> NotStarted]
      /\ tab = "default" /\ failed = {} /\ outlived = {}
  BY DEF DetailsInit
<1> QED BY <1>1, <1>2, <1>3, <1>4 DEF DetailsTyped, DetailsTypeOK

(* The details of a definition are of its operations.                      *)
LEMMA OpenDetailsKeepsTypes ==
  ASSUME Scopes = {}, DetailsTyped, NEW missing \in SUBSET Unreachable, OpenDetails(missing)
  PROVE  DetailsTyped'
<1> DEFINE w == opening.workflow
           there == Defined(w) \ missing
<1>1. /\ opening.waitsFor = "details" /\ missing \subseteq Defined(w)
      /\ opening = [waitsFor |-> opening.waitsFor, workflow |-> w] /\ FlatState(w)
  BY DEF OpenDetails, DetailsTyped
<1>2. Defined(w) \subseteq Operations /\ OpenedKind \in Kinds
  BY <1>1, FlatHasParts, KindsAreKnown
<1>3. \A f : IsPartial(f, Kinds) =>
        IsPartial([n \in DOMAIN f \cup there |-> IF n \in there THEN OpenedKind ELSE f[n]], Kinds)
  BY <1>2 DEF IsPartial
<1>4. IsPartial(info', Kinds) /\ IsPartial(data', Kinds) /\ IsPartial(settings', Kinds)
  <2>1. /\ IsPartial(info, Kinds) /\ IsPartial(data, Kinds) /\ IsPartial(settings, Kinds)
        /\ info' = [n \in DOMAIN info \cup there |-> IF n \in there THEN OpenedKind ELSE info[n]]
        /\ data' = [n \in DOMAIN data \cup there |-> IF n \in there THEN OpenedKind ELSE data[n]]
        /\ settings' = [n \in DOMAIN settings \cup there |->
                          IF n \in there THEN OpenedKind ELSE settings[n]]
    BY DEF OpenDetails, DetailsTyped, DetailsTypeOK
  <2> HIDE DEF there
  <2> QED BY <1>3, <2>1
<1>5. IsPartial(tokens', Kept)
  <2>1. tokens' = [n \in DOMAIN tokens \cup Defined(w) |->
                     IF n \in Defined(w)
                     THEN [of |-> IF n \in missing THEN NoKind ELSE OpenedKind,
                           upstream |-> TokenNodeIds(w, n, there)]
                     ELSE tokens[n]]
    BY DEF OpenDetails
  <2>2. \A n \in Defined(w) : TokenNodeIds(w, n, there) \subseteq Operations \cup {Placeholder}
    BY <1>1, FlatTokenNodes
  <2>3. IsPartial(tokens, Kept)
    BY DEF DetailsTyped, DetailsTypeOK, Kept
  <2> HIDE DEF w, there
  <2> QED BY <1>2, <2>1, <2>2, <2>3 DEF IsPartial, Kept
<1>6. /\ opening' = [opening EXCEPT !.waitsFor = "connections"]
      /\ failed' = failed \cup missing /\ failed' \subseteq Operations
      /\ UNCHANGED <<mapping, loads, tab, outlived>>
  BY <1>1, <1>2 DEF OpenDetails, DetailsTyped, DetailsTypeOK
<1>7. /\ opening'.waitsFor = "connections" /\ opening'.workflow = w
      /\ opening' = [waitsFor |-> opening'.waitsFor, workflow |-> opening'.workflow]
  BY <1>1, <1>6
<1>8. DetailsTypeOK'
  BY <1>4, <1>5, <1>6, <1>7 DEF DetailsTyped, DetailsTypeOK, Kept
<1> QED BY <1>1, <1>7, <1>8 DEF DetailsTyped

(* A load starts with what comes before the operation.                     *)
LEMMA StartLoadKeepsTypes ==
  ASSUME Scopes = {}, FlatState(wf'), DetailsTyped, NEW n \in Operations, n \in Defined(wf'),
         NEW kind \in Kinds, NEW l \in Loads, StartLoad(n, kind, l)
  PROVE  DetailsTyped'
<1> DEFINE new == [node |-> n, kind |-> kind, waitsFor |-> "manifest",
                   upstream |-> TokenNodeIds(wf', n, {n})]
<1>1. new \in Load
  <2>1. TokenNodeIds(wf', n, {n}) \subseteq Operations \cup {Placeholder}
    BY FlatTokenNodes
  <2> QED BY <2>1 DEF Load
<1>2. /\ info' = With(info, n, kind) /\ loads' = [loads EXCEPT ![l] = new] /\ tab' = "loading"
      /\ UNCHANGED <<data, settings, tokens, mapping, opening, failed, outlived>>
  BY DEF StartLoad
<1>3. IsPartial(info', Kinds)
  BY <1>2, WithIsPartial DEF DetailsTyped, DetailsTypeOK
<1> HIDE DEF new
<1>4. loads' \in [Loads -> Load \cup {NotStarted, Ended}]
  BY <1>1, <1>2 DEF DetailsTyped, DetailsTypeOK
<1> QED BY <1>2, <1>3, <1>4 DEF DetailsTyped, DetailsTypeOK

(* A load that runs is one.                                                *)
LEMMA RunningIsLoad ==
  ASSUME DetailsTypeOK, NEW l \in Loads, IsRunning(l)
  PROVE  loads[l] \in Load
<1>1. loads[l] \in Load \cup {NotStarted, Ended}
  BY DEF DetailsTypeOK
<1> QED BY <1>1 DEF IsRunning, NotStarted, Ended

(* Its end writes settings and tokens.                                     *)
LEMMA FinishKeepsTypes ==
  ASSUME Scopes = {}, FlatState(wf), DetailsTyped, NEW l \in Loads, IsRunning(l),
         NEW tk, IsPartial(tk, Kept), FinishLoad(l, tk), IsPartial(data', Kinds),
         UNCHANGED <<wf, info, mapping, opening, failed, outlived>>
  PROVE  DetailsTyped'
<1>1. loads[l] \in Load
  BY RunningIsLoad DEF DetailsTyped
<1>2. loads[l].node \in Operations /\ loads[l].kind \in Kinds
  BY <1>1 DEF Load
<1>3. IsPartial(settings', Kinds)
  BY <1>2, WithIsPartial DEF FinishLoad, DetailsTyped, DetailsTypeOK
<1>4. IsPartial(tokens', Kept)
  BY UpdateIsPartial DEF FinishLoad
<1>5. /\ loads' \in [Loads -> Load \cup {NotStarted, Ended}]
      /\ tab' \in {"default", "loading", "create connection"}
  BY DEF FinishLoad, DetailsTyped, DetailsTypeOK
<1> QED BY <1>3, <1>4, <1>5 DEF DetailsTyped, DetailsTypeOK, Kept

(* The manifest of an added operation arrives.                             *)
LEMMA ManifestKeepsTypes ==
  ASSUME Scopes = {}, FlatState(wf), DetailsTyped, NEW l \in Loads, ManifestArrives(l)
  PROVE  DetailsTyped'
<1> DEFINE node == loads[l].node
           kind == loads[l].kind
           tk == With(tokens, node, [of |-> kind, upstream |-> loads[l].upstream])
<1>1. IsRunning(l) /\ loads[l] \in Load
  BY RunningIsLoad DEF ManifestArrives, IsRunning, DetailsTyped
<1>2. /\ node \in Operations /\ kind \in Kinds
      /\ [of |-> kind, upstream |-> loads[l].upstream] \in Kept
  BY <1>1 DEF Load, Kept
<1>3. IsPartial(tk, Kept)
  BY <1>2, WithIsPartial DEF DetailsTyped, DetailsTypeOK, Kept
<1>4. /\ IsPartial(data', Kinds)
      /\ UNCHANGED <<wf, info, mapping, opening, failed, outlived>>
  BY <1>2, WithIsPartial DEF ManifestArrives, DetailsTyped, DetailsTypeOK
<1>5. CASE kind \notin NeedConnection
  <2>1. FinishLoad(l, tk)
    BY <1>5 DEF ManifestArrives
  <2> HIDE DEF tk
  <2> QED BY <1>1, <1>3, <1>4, <2>1, FinishKeepsTypes
<1>6. CASE kind \in NeedConnection
  <2>1. /\ settings' = With(settings, node, kind) /\ tokens' = tk
        /\ loads' = [loads EXCEPT ![l].waitsFor = "connections"] /\ tab' = tab
    BY <1>6 DEF ManifestArrives
  <2>2. IsPartial(settings', Kinds)
    BY <1>2, <2>1, WithIsPartial DEF DetailsTyped, DetailsTypeOK
  <2>3. loads' \in [Loads -> Load \cup {NotStarted, Ended}]
    BY <1>1, <2>1 DEF Load, DetailsTyped, DetailsTypeOK
  <2> HIDE DEF tk
  <2> QED BY <1>3, <1>4, <2>1, <2>2, <2>3 DEF DetailsTyped, DetailsTypeOK, Kept
<1> QED BY <1>5, <1>6

(* Its connections arrive.                                                 *)
LEMMA ConnectionsKeepTypes ==
  ASSUME DetailsTyped, NEW l \in Loads, NEW reference \in {Connection, NoConnection},
         ConnectionsArrive(l, reference)
  PROVE  DetailsTyped'
<1>1. IsRunning(l) /\ loads[l] \in Load
  BY RunningIsLoad DEF ConnectionsArrive, IsRunning, DetailsTyped
<1>2. loads[l].node \in Operations
  BY <1>1 DEF Load
<1>3. /\ mapping' = With(mapping, loads[l].node, reference)
      /\ tab' \in {"create connection", tab}
      /\ loads' = [loads EXCEPT ![l].waitsFor = "finish"]
      /\ UNCHANGED <<info, data, settings, tokens, opening, failed, outlived>>
  BY DEF ConnectionsArrive
<1>4. IsPartial(mapping', {Connection, NoConnection})
  BY <1>2, <1>3, WithIsPartial DEF DetailsTyped, DetailsTypeOK
<1>5. loads' \in [Loads -> Load \cup {NotStarted, Ended}]
  BY <1>1, <1>3 DEF Load, DetailsTyped, DetailsTypeOK
<1> QED BY <1>3, <1>4, <1>5 DEF DetailsTyped, DetailsTypeOK

(* A fetch is rejected.                                                    *)
LEMMA FailureKeepsTypes ==
  ASSUME DetailsTyped, NEW l \in Loads, FetchFails(l)
  PROVE  DetailsTyped'
<1>1. IsRunning(l) /\ loads[l] \in Load
  BY RunningIsLoad DEF FetchFails, IsRunning, DetailsTyped
<1>2. loads[l].node \in Operations
  BY <1>1 DEF Load
<1> QED BY <1>2 DEF FetchFails, DetailsTyped, DetailsTypeOK

(* An operation is deleted, or its delete is rejected.                     *)
LEMMA DeleteKeepsTypes ==
  ASSUME Scopes = {}, FlatState(wf'), DetailsTyped, NEW n \in Operations, AfterDelete(n)
  PROVE  DetailsTyped'
<1>1. /\ IsPartial(info', Kinds) /\ IsPartial(data', Kinds) /\ IsPartial(settings', Kinds)
      /\ IsPartial(mapping', {Connection, NoConnection})
  <2>1. /\ IsPartial(info, Kinds) /\ IsPartial(data, Kinds) /\ IsPartial(settings, Kinds)
        /\ IsPartial(mapping, {Connection, NoConnection})
    BY DEF DetailsTyped, DetailsTypeOK
  <2>2. \/ UNCHANGED <<info, data, settings, mapping>>
        \/ /\ mapping' = Without(mapping, n) /\ data' = Without(data, n)
           /\ settings' = Without(settings, n) /\ info' = Without(info, n)
    BY DEF AfterDelete, DeleteDetails
  <2>3. \A f, S : IsPartial(f, S) => IsPartial(Without(f, n), S)
    BY WithoutIsPartial
  <2> QED BY <2>1, <2>2, <2>3
<1>2. IsPartial(tokens', Kept)
  <2>1. IsPartial(tokens, Kept)
    BY DEF DetailsTyped, DetailsTypeOK, Kept
  <2> QED BY <2>1, UpdateIsPartial DEF AfterDelete, DeleteDetails
<1>3. outlived' \subseteq Operations /\ UNCHANGED <<opening, loads, tab, failed>>
  BY DEF AfterDelete, DetailsTyped, DetailsTypeOK
<1> QED BY <1>1, <1>2, <1>3 DEF DetailsTyped, DetailsTypeOK, Kept

(* Every step keeps the types.                                             *)
LEMMA NextTyped ==
  ASSUME FlatOnly, TreeInv, TreeInv', DetailsTyped, [DetailsNext]_allVars
  PROVE  DetailsTyped'
<1>1. /\ Scopes = {} /\ FlatState(wf) /\ FlatState(wf') /\ Inv /\ IsRendered
      /\ Actions \subseteq Operations /\ Triggers \subseteq Operations
  <2>1. FlatState(wf) /\ Inv /\ IsRendered
    BY FlatKeeps
  <2>2. FlatState(wf')
    BY DEF TreeInv, HomeInv, CanvasInv, FlatState
  <2> QED BY <2>1, <2>2, Ids DEF FlatOnly
<1>2. CASE \E missing \in SUBSET Unreachable : OpenDetails(missing)
  BY <1>1, <1>2, OpenDetailsKeepsTypes
<1>3. CASE OpenConnections
  <2>1. IsPartial(mapping', {Connection, NoConnection})
    <3>1. DOMAIN info \subseteq Operations
      BY DEF DetailsTyped, DetailsTypeOK, IsPartial
    <3> QED BY <1>3, <3>1 DEF OpenConnections, IsPartial
  <2>2. /\ opening'.waitsFor = "nothing"
        /\ UNCHANGED <<info, data, settings, tokens, loads, tab, failed, outlived>>
    BY <1>3 DEF OpenConnections, Ended
  <2> QED BY <2>1, <2>2 DEF DetailsTyped, DetailsTypeOK
<1>4. ASSUME NEW n \in Actions, NEW site \in DOMAIN zones, NEW kind \in Kinds, NEW l \in Loads,
             AddWithDetails(n, site, kind, l) \/ AddParallelWithDetails(n, site, kind, l)
      PROVE  DetailsTyped'
  <2>1. (AddOperation(n, site) \/ AddParallelBranch(n, site)) /\ StartLoad(n, kind, l)
    BY <1>4 DEF AddWithDetails, AddParallelWithDetails
  <2>2. n \in Defined(wf')
    BY <1>1, <2>1, AddDefines
  <2> QED BY <1>1, <2>1, <2>2, StartLoadKeepsTypes
<1>5. ASSUME NEW t \in Triggers, NEW kind \in Kinds, NEW l \in Loads,
             AddTriggerWithDetails(t, kind, l)
      PROVE  DetailsTyped'
  <2>1. AddTrigger(t) /\ StartLoad(t, kind, l)
    BY <1>5 DEF AddTriggerWithDetails
  <2>2. t \in Defined(wf')
    BY <1>1, <2>1, AddTriggerDefines
  <2> QED BY <1>1, <2>1, <2>2, StartLoadKeepsTypes
<1>6. ASSUME NEW l \in Loads, ManifestArrives(l) PROVE DetailsTyped'
  BY <1>1, <1>6, ManifestKeepsTypes
<1>7. ASSUME NEW l \in Loads, NEW reference \in {Connection, NoConnection},
             ConnectionsArrive(l, reference)
      PROVE  DetailsTyped'
  BY <1>7, ConnectionsKeepTypes
<1>8. ASSUME NEW l \in Loads, LoadEnds(l) PROVE DetailsTyped'
  <2>1. /\ IsRunning(l) /\ FinishLoad(l, tokens)
        /\ UNCHANGED <<wf, info, data, mapping, opening, failed, outlived>>
    BY <1>8 DEF LoadEnds, IsRunning
  <2>2. IsPartial(tokens, Kept) /\ IsPartial(data', Kinds)
    BY <2>1 DEF DetailsTyped, DetailsTypeOK, Kept
  <2> QED BY <1>1, <2>1, <2>2, FinishKeepsTypes
<1>9. ASSUME NEW l \in Loads, FetchFails(l) PROVE DetailsTyped'
  BY <1>9, FailureKeepsTypes
<1>10. ASSUME NEW n \in Actions, DeleteActionWithDetails(n) PROVE DetailsTyped'
  BY <1>1, <1>10, DeleteKeepsTypes DEF DeleteActionWithDetails
<1>11. ASSUME NEW t \in Triggers, DeleteTriggerWithDetails(t) PROVE DetailsTyped'
  BY <1>1, <1>11, DeleteKeepsTypes DEF DeleteTriggerWithDetails
<1>12. ASSUME NEW n \in Actions, NEW site \in DOMAIN zones, MoveWithDetails(n, site)
       PROVE  DetailsTyped'
  <2>1. /\ tokens' = UpdateAllUpstreamNodes(wf', tokens)
        /\ UNCHANGED <<info, data, settings, mapping, opening, loads, tab, failed, outlived>>
    BY <1>12 DEF MoveWithDetails
  <2>2. IsPartial(tokens, Kept)
    BY DEF DetailsTyped, DetailsTypeOK, Kept
  <2>3. IsPartial(tokens', Kept)
    BY <1>1, <2>1, <2>2, UpdateIsPartial
  <2> QED BY <2>1, <2>3 DEF DetailsTyped, DetailsTypeOK, Kept
<1>13. CASE ClickCard
  BY <1>13 DEF ClickCard, DetailsTyped, DetailsTypeOK
<1>14. CASE UNCHANGED allVars
  BY <1>14 DEF allVars, details, DetailsTyped, DetailsTypeOK
<1> QED BY <1>2, <1>3, <1>4, <1>5, <1>6, <1>7, <1>8, <1>9, <1>10, <1>11, <1>12, <1>13, <1>14
        DEF DetailsNext

(* All that is kept is kept under ids of operations, even when the canvas  *)
(* is edited while the definition is still being opened, and all that is   *)
(* offered are operations or the placeholder: no heading, no footer.       *)
THEOREM DetailsKeepTheirTypes == FlatOnly => (DetailsSpec => []DetailsTypeOK)
<1> SUFFICES ASSUME FlatOnly PROVE DetailsSpec => []DetailsTypeOK
  OBVIOUS
<1>1. DetailsInit => DetailsTyped
  BY DetailsInitTyped
<1>2. TreeInv /\ TreeInv' /\ DetailsTyped /\ [DetailsNext]_allVars => DetailsTyped'
  BY NextTyped
<1>3. DetailsTyped => DetailsTypeOK
  BY DEF DetailsTyped
<1> QED BY <1>1, <1>2, <1>3, FlatUnderDetails, PTL DEF DetailsSpec

=============================================================================
