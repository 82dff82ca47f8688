------------------------------ MODULE RunAfter ------------------------------
(***************************************************************************)
(* The two representations the designer keeps of "b runs after a": an edge *)
(* of the canvas graph and a key of operations[b].runAfter.  This module   *)
(* holds the pure helpers of core/parsers/restructuringHelpers.ts that     *)
(* rewrite both at once.  A `links' record is the pair they work on:       *)
(*                                                                         *)
(*   links.edges     the edges of ONE graph, pairs <<source, target>>      *)
(*   links.runAfter  a function from the ids that have an entry in         *)
(*                   state.operations to their runAfter property           *)
(*                                                                         *)
(* A runAfter property is Absent (undefined in the code) or a function     *)
(* from the ids it names to a status.  A status is Succeeded (what every   *)
(* helper writes), Custom (anything the user ticked instead), or Undefined *)
(* (the key is present and holds the JavaScript value undefined).          *)
(***************************************************************************)

CONSTANTS
  Absent,     \* an operation with no runAfter property
  Succeeded,  \* the status list [ 'Succeeded' ]
  Custom,     \* any other status list
  Undefined   \* a key whose value is undefined

ASSUME StatusesDistinct ==
  /\ Succeeded # Custom
  /\ Succeeded # Undefined
  /\ Custom # Undefined

Status == {Succeeded, Custom, Undefined}

(* The runAfter object with no key at all. *)
NoKeys == [k \in {} |-> Succeeded]

(* Object.keys(runAfter ?? {}) *)
Keys(r) == IF r = Absent THEN {} ELSE DOMAIN r

(* { ...runAfter, [source]: status } *)
WithKey(r, source, status) ==
  [k \in Keys(r) \cup {source} |-> IF k = source THEN status ELSE r[k]]

(* delete runAfter?.[source] *)
WithoutKey(r, source) ==
  IF r = Absent THEN Absent ELSE [k \in DOMAIN r \ {source} |-> r[k]]

(* runAfter[source], undefined when there is no such key *)
StatusOf(r, source) == IF source \in Keys(r) THEN r[source] ELSE Undefined

(* state.operations[n]?.runAfter *)
RunAfterOf(runAfter, n) == IF n \in DOMAIN runAfter THEN runAfter[n] ELSE Absent

Targets(links, source) == {e[2] : e \in {x \in links.edges : x[1] = source}}
Sources(links, target) == {e[1] : e \in {x \in links.edges : x[2] = target}}

-----------------------------------------------------------------------------
AddNewEdge(links, source, target, addRunAfter) ==
  [edges    |-> links.edges \cup {<<source, target>>},
   runAfter |-> IF addRunAfter /\ target \in DOMAIN links.runAfter
                THEN [links.runAfter EXCEPT ![target] = WithKey(@, source, Succeeded)]
                ELSE links.runAfter]

RemoveEdge(links, source, target) ==
  [edges    |-> links.edges \ {<<source, target>>},
   runAfter |-> IF target \in DOMAIN links.runAfter
                THEN [links.runAfter EXCEPT ![target] = WithoutKey(@, source)]
                ELSE links.runAfter]

(* Faulty: the key of the old source stays. *)
MoveRunAfterSourceKeepingOld(r, old, new, isOldSourceTrigger, isNewSourceTrigger) ==
  IF r = Absent \/ isNewSourceTrigger THEN r ELSE WithKey(r, new, Succeeded)

(* Faulty: the status is looked up under the new source. *)
MoveRunAfterSourceReadingNew(r, old, new, isOldSourceTrigger, isNewSourceTrigger) ==
  IF r = Absent THEN Absent
  ELSE WithoutKey(IF isNewSourceTrigger THEN r ELSE WithKey(r, new, StatusOf(r, new)), old)

(* What moveRunAfterSource makes of one node's runAfter.  When the property *)
(* is absent the code fills a fresh object that it never stores.           *)
MoveRunAfterSource(r, old, new, isOldSourceTrigger, isNewSourceTrigger) ==
  LET moved == IF isOldSourceTrigger THEN Succeeded ELSE StatusOf(r, old)
      keep  == isNewSourceTrigger \/ StatusOf(r, new) # Undefined
  IN  IF r = Absent THEN Absent
      ELSE WithoutKey(IF keep THEN r ELSE WithKey(r, new, moved), old)

(* The children of `old' become children of `new'.  An edge that `new'     *)
(* already has is not doubled: the code removes it first, and with it the  *)
(* child's key for `old'.                                                  *)
ReassignEdgeSources(links, old, new, isOldSourceTrigger, isNewSourceTrigger) ==
  LET children == Targets(links, old)
      doubled  == {c \in children : <<new, c>> \in links.edges}
      Before(c) == IF c \in doubled THEN WithoutKey(links.runAfter[c], old)
                                    ELSE links.runAfter[c]
  IN  [edges    |-> {IF e[1] = old THEN <<new, e[2]>> ELSE e : e \in links.edges},
       runAfter |-> [n \in DOMAIN links.runAfter |->
                       IF n \in children
                       THEN MoveRunAfterSource(Before(n), old, new,
                                               isOldSourceTrigger, isNewSourceTrigger)
                       ELSE links.runAfter[n]]]

(* moveRunAfterTarget: `new' takes over the whole runAfter of `old', its   *)
(* own is overwritten, and `old' is left with {}.                          *)
MoveRunAfterTarget(runAfter, old, new) ==
  IF RunAfterOf(runAfter, old) # Absent
  THEN [runAfter EXCEPT ![new] = runAfter[old], ![old] = NoKeys]
  ELSE runAfter

(* moveRunAfterTarget assigns to a property of state.operations[new]: with *)
(* no such operation it throws, and the reducer's changes are discarded.   *)
MoveRunAfterTargetThrows(runAfter, old, new) ==
  /\ RunAfterOf(runAfter, old) # Absent
  /\ new \notin DOMAIN runAfter

(* The parents of `old' become parents of `new'. *)
ReassignEdgeTargets(links, old, new) ==
  [edges    |-> {IF e[2] = old THEN <<e[1], new>> ELSE e : e \in links.edges},
   runAfter |-> MoveRunAfterTarget(links.runAfter, old, new)]
=============================================================================
