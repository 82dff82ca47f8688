--------------------------- MODULE MapConnections ---------------------------
(***************************************************************************)
(* The connections of a data map and the helpers that rewrite them         *)
(* (data-mapper: utils/Connection.Utils.ts, utils/DataMap.Utils.ts and the *)
(* lower half of core/state/DataMapSlice.ts).                              *)
(*                                                                         *)
(* A dictionary C maps the key of a schema node or function to its entry:  *)
(* its inputs, a sequence of slots that are sequences of values, and the   *)
(* keys its outputs name.  So a connection is written down twice.          *)
(***************************************************************************)
EXTENDS Integers, Sequences, FiniteSets

CONSTANTS
  SourceNodes, TargetNodes,  \* the nodes of the two schemas
  FunctionNodes,             \* bound: the keys that function cards may get
  ParentOf,                  \* schema node -> its parent, or NoNode
  Repeating,                 \* the schema nodes that are arrays
  Arity,                     \* function -> maxNumberOfInputs
  NoNode, Custom, Empty      \* undefined; a custom value; an open field

SchemaNodes == SourceNodes \cup TargetNodes
Nodes == SchemaNodes \cup FunctionNodes
Unbounded == -1

ASSUME NodesAreDistinct ==
  /\ SourceNodes \cap TargetNodes = {} /\ SchemaNodes \cap FunctionNodes = {}
  /\ {NoNode, Custom, Empty} \cap Nodes = {} /\ Custom # Empty

(* No schema node is around itself or a node of the other schema.          *)
ASSUME SchemasAreTrees ==
  /\ IsFiniteSet(SchemaNodes)
  /\ ParentOf \in [SchemaNodes -> SchemaNodes \cup {NoNode}]
  /\ \A S \in {SourceNodes, TargetNodes} : \A n \in S : ParentOf[n] \in S \cup {NoNode}
  /\ \A S \in SUBSET SchemaNodes : S # {} => \E n \in S : ParentOf[n] \notin S
  /\ Repeating \subseteq {n \in SchemaNodes : ParentOf[n] # NoNode}

ASSUME FunctionsAreFew ==
  IsFiniteSet(FunctionNodes) /\ Arity \in [FunctionNodes -> Nat \cup {Unbounded}]

(* isFunctionUnboundedInputOrRepeatingSchemaNode: all values in one slot *)
Manifold(n) == n \in Repeating \/ (n \in FunctionNodes /\ Arity[n] = Unbounded)

-----------------------------------------------------------------------------
(* Reading a dictionary.                                                   *)

(* The nodes that the inputs of n name. *)
Named(C, n) ==
  IF n \in DOMAIN C
  THEN {v \in Nodes : \E i \in DOMAIN C[n].inputs : \E j \in DOMAIN C[n].inputs[i] :
                        C[n].inputs[i][j] = v}
  ELSE {}

OutputsOf(C, n) == IF n \in DOMAIN C THEN C[n].outputs ELSE {}

(* What can be reached from S in as many steps as there are nodes.         *)
ReachableBy(Step(_), S) ==
  LET reach[i \in 0..Cardinality(Nodes)] ==
        IF i = 0 THEN S
        ELSE LET before == reach[i - 1] IN before \cup UNION {Step(n) : n \in before}
  IN  reach[Cardinality(Nodes)]

(* collectSourceNodesForConnectionChain, collectTargetNodesForConnectionChain *)
Upstream(C, S) == LET Inputs(n) == Named(C, n) IN ReachableBy(Inputs, S)
Downstream(C, S) == LET Outputs(n) == OutputsOf(C, n) IN ReachableBy(Outputs, S)

(* Both throw at a node without an entry, and never return from a cycle.   *)
UpstreamEnds(C, S) ==
  \A n \in Upstream(C, S) : n \in DOMAIN C /\ n \notin Upstream(C, Named(C, n))
DownstreamEnds(C, S) ==
  \A n \in Downstream(C, S) : n \in DOMAIN C /\ n \notin Downstream(C, OutputsOf(C, n))

(* Faulty: looks the other way. *)
CircularBackwards(C, t, s) == t \in Downstream(C, {s})

(* newConnectionWillHaveCircularLogic: it follows the outputs only. *)
Circular(C, t, s) == s \in Downstream(C, {t})

Values(C, t) == {i \in DOMAIN C[t].inputs : C[t].inputs[i] # <<>>}

(* isFunctionInputSlotAvailable *)
SlotAvailable(C, t) ==
  Arity[t] # Unbounded /\ t \in DOMAIN C => Cardinality(Values(C, t)) # Arity[t]

Children(l) == {n \in SchemaNodes : l # NoNode /\ ParentOf[n] = l}

(* Faulty: forgets the parent that the level is named for. *)
LevelRootsBelow(C, l) == {n \in Children(l) : n \in DOMAIN C /\ Values(C, n) # {}}

(* getTargetSchemaNodeConnections *)
LevelRoots(C, l) ==
  {n \in Children(l) \cup ({l} \ {NoNode}) : n \in DOMAIN C /\ Values(C, n) # {}}

-----------------------------------------------------------------------------
(* Entries and single values.                                              *)

(* createConnectionEntryIfNeeded *)
NewInputs(n) ==
  IF n \in SchemaNodes THEN <<<<>>>>
  ELSE IF Arity[n] = Unbounded THEN <<<<Empty, Empty>>>>
  ELSE [i \in 1..Arity[n] |-> <<>>]

WithEntry(C, n) ==
  [m \in DOMAIN C \cup {n} |->
     IF m \in DOMAIN C THEN C[m] ELSE [inputs |-> NewInputs(m), outputs |-> {}]]

WithoutOutput(C, s, t) == [C EXCEPT ![s].outputs = @ \ {t}]

WithOutput(C, s, t) == [WithEntry(C, s) EXCEPT ![s].outputs = @ \cup {t}]

(* The fields of t that the properties pane and the expanded card show. *)
Fields(C, t) == IF Manifold(t) THEN DOMAIN C[t].inputs[1] ELSE DOMAIN C[t].inputs

(* What field i of t holds now. *)
Held(C, t, i) ==
  IF t \notin DOMAIN C \/ i \notin Fields(C, t) THEN Empty
  ELSE IF Manifold(t) THEN C[t].inputs[1][i]
  ELSE IF C[t].inputs[i] = <<>> THEN Empty ELSE C[t].inputs[i][1]

(* The field that findInputSlot picks; one past the end appends. *)
OpenField(C, t) ==
  LET inputs == C[t].inputs
      Least(S, other) == IF S = {} THEN other ELSE CHOOSE i \in S : \A j \in S : i <= j
  IN  IF t \in Repeating THEN Len(inputs[1]) + 1
      ELSE IF t \in SchemaNodes THEN 1
      ELSE IF Arity[t] = Unbounded
           THEN Least({i \in DOMAIN inputs[1] : inputs[1][i] = Empty}, Len(inputs[1]) + 1)
      ELSE Least({i \in DOMAIN inputs : inputs[i] = <<>>}, 0)

(* Faulty: adds to the field instead of replacing what it holds. *)
PutBehind(seq, i, v) == Append(seq, v)

(* Past the end of an array the fields in between are open. *)
Put(seq, i, v) ==
  [j \in DOMAIN seq \cup (1..i) |-> IF j = i THEN v ELSE IF j \in DOMAIN seq THEN seq[j] ELSE Empty]

WithoutField(seq, i) == SubSeq(seq, 1, i - 1) \o SubSeq(seq, i + 1, Len(seq))

(* Value v goes into field i of t; without a free field it joins the first. *)
WithValue(C, t, i, v) ==
  LET slots == C[t].inputs
  IN  [C EXCEPT ![t].inputs =
         IF Manifold(t) THEN [slots EXCEPT ![1] = Put(slots[1], i, v)]
         ELSE IF v = Empty THEN [slots EXCEPT ![i] = <<>>]
         ELSE IF i = 0 THEN [slots EXCEPT ![1] = Append(slots[1], v)]
         ELSE [slots EXCEPT ![i] = Put(slots[i], 1, v)]]

(* applyConnectionValue with findInputSlot *)
Connect(C, s, t) ==
  LET entered == WithEntry(C, t)
  IN  WithOutput(WithValue(entered, t, OpenField(entered, t), s), s, t)

(* applyConnectionValue with an inputIndex *)
SetValue(C, t, i, v) ==
  LET old == Held(C, t, i)
      freed == IF old \in Nodes THEN WithoutOutput(C, old, t) ELSE C
      set == WithValue(WithEntry(freed, t), t, i, v)
  IN  IF v \in Nodes THEN WithOutput(set, v, t) ELSE set

(* applyConnectionValue with null: field i of an unbounded function goes. *)
RemoveField(C, t, i) ==
  LET old == Held(C, t, i)
      freed == IF old \in Nodes THEN WithoutOutput(C, old, t) ELSE C
  IN  [freed EXCEPT ![t].inputs[1] = WithoutField(@, i)]

-----------------------------------------------------------------------------
(* Deleting.                                                               *)

(* What filter leaves of the values of a slot when v goes. *)
AllBut(seq, v) ==
  LET kept[i \in 0..Len(seq)] ==
        IF i = 0 THEN <<>>
        ELSE IF seq[i] = v THEN kept[i - 1] ELSE Append(kept[i - 1], seq[i])
  IN  kept[Len(seq)]

(* Faulty: forgets the inputs. *)
DisconnectOutput(C, s, t, i) == WithoutOutput(C, s, t)

(* deleteConnectionFromConnections; field i matters to unbounded functions. *)
Disconnect(C, s, t, i) ==
  LET cut == WithoutOutput(C, s, t)
  IN  IF t \in FunctionNodes /\ Arity[t] = Unbounded
      THEN [cut EXCEPT ![t].inputs[1] =
              [j \in DOMAIN @ |-> IF @[j] = s /\ i \in {0, j} THEN Empty ELSE @[j]]]
      ELSE [cut EXCEPT ![t].inputs = [j \in DOMAIN @ |-> AllBut(@[j], s)]]

(* deleteNodeFromConnections: follows both ends of n as its entry has them. *)
Without(C, n) ==
  LET Left(m) == [inputs |-> IF m \in C[n].outputs
                             THEN [j \in DOMAIN C[m].inputs |-> AllBut(C[m].inputs[j], n)]
                             ELSE C[m].inputs,
                  outputs |-> IF m \in Named(C, n) THEN C[m].outputs \ {n} ELSE C[m].outputs]
  IN  IF n \in DOMAIN C THEN [m \in DOMAIN C \ {n} |-> Left(m)] ELSE C

-----------------------------------------------------------------------------
(* Arrays.                                                                 *)

(* n and its ancestors, n first *)
PathUp[n \in SchemaNodes \cup {NoNode}] ==
  IF n = NoNode THEN <<>> ELSE <<n>> \o PathUp[ParentOf[n]]

Ancestors(n) == {PathUp[n][i] : i \in 2..Len(PathUp[n])}

(* findLast(pathToRoot, repeating): the innermost array around n, or n *)
ArrayOf(n) ==
  LET arrays == {i \in DOMAIN PathUp[n] : PathUp[n][i] \in Repeating}
  IN  IF arrays = {} THEN NoNode ELSE PathUp[n][CHOOSE i \in arrays : \A j \in arrays : i <= j]

(* The arrays to connect, innermost first, when s is connected to t. *)
ArrayPairs[p \in SourceNodes \X TargetNodes] ==
  LET s == ArrayOf(p[1])
      t == ArrayOf(p[2])
      above == IF ArrayOf(ParentOf[t]) = NoNode THEN t ELSE ParentOf[t]
  IN  IF ParentOf[p[1]] = NoNode \/ s = NoNode \/ t = NoNode THEN <<>>
      ELSE <<<<s, t>>>> \o ArrayPairs[<<ParentOf[s], above>>]

(* Faulty: takes an array that is connected for one that needs nothing. *)
WithFirstArrays(C, s, t) ==
  LET pairs == ArrayPairs[<<s, t>>]
      added[i \in 0..Len(pairs)] ==
        IF i = 0 THEN C
        ELSE LET before == added[i - 1]
                 outer == pairs[i]
             IN  IF outer[2] \in DOMAIN before /\ Values(before, outer[2]) # {}
                 THEN before ELSE Connect(before, outer[1], outer[2])
  IN  added[Len(pairs)]

(* addParentConnectionForRepeatingElementsNested *)
WithArrays(C, s, t) ==
  LET pairs == ArrayPairs[<<s, t>>]
      added[i \in 0..Len(pairs)] ==
        IF i = 0 THEN C
        ELSE LET before == added[i - 1]
                 outer == pairs[i]
             IN  IF outer[2] \in DOMAIN before /\ outer[1] \in Upstream(before, {outer[2]})
                 THEN before ELSE Connect(before, outer[1], outer[2])
  IN  added[Len(pairs)]

(* The same for each of the sources S, whatever their order. *)
WithAllArrays(C, S, t) ==
  LET more[T \in SUBSET S] ==
        IF T = {} THEN C
        ELSE LET s == CHOOSE x \in T : TRUE IN WithArrays(more[T \ {s}], s, t)
  IN  more[S]

(* deleteParentRepeatingConnections: the dictionaries that may be left when *)
(* nothing inside the arrays around s reaches the target schema any more.   *)
(* For each output to a target, whatever output comes first is deleted.     *)
(* At an array that is connected it walks down from every entry, or from    *)
(* those before the first that is in use: a walk that throws leaves none.   *)
DeletedArrays(C, s) ==
  LET Cut(D, p, T) == [m \in DOMAIN D |->
                         IF m \in T THEN Disconnect(D, p, m, 0)[m]
                         ELSE IF m = p THEN [D[p] EXCEPT !.outputs = @ \ T] ELSE D[m]]
      InUse(D, p) == \E m \in DOMAIN D : /\ m \in SourceNodes /\ p \in Ancestors(m)
                                         /\ DownstreamEnds(D, {m})
                                         /\ Downstream(D, {m}) \cap TargetNodes # {}
      Next(D, p) == {Cut(D, p, T) : T \in {U \in SUBSET OutputsOf(D, p) :
                       /\ DownstreamEnds(D, DOMAIN D)
                       /\ Cardinality(U) = Cardinality(OutputsOf(D, p) \cap TargetNodes)}}
      up == PathUp[s]
      left[i \in 1..Len(up)] ==
        IF i = 1 THEN {[map |-> C, done |-> FALSE]}
        ELSE UNION {LET p == up[i] IN
                    IF d.done \/ p \notin DOMAIN d.map THEN {d}
                    ELSE IF p \notin Repeating \/ InUse(d.map, p) THEN {[d EXCEPT !.done = TRUE]}
                    ELSE {[d EXCEPT !.map = e] : e \in Next(d.map, p)}
                    : d \in left[i - 1]}
  IN  {d.map : d \in left[Len(up)]}
=============================================================================
