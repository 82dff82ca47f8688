-------------------------- MODULE MCWorkflowGraph --------------------------
(* Instances of WorkflowGraph for TLC: the definitions that are opened.    *)
EXTENDS WorkflowGraph, TLC

CONSTANTS t, a, b, c, d, e, s, f, u

Definition(trigger, graphOf, runAfter) ==
  [trigger |-> trigger, graphOf |-> graphOf, runAfter |-> runAfter]
After(S) == [k \in S |-> Succeeded]
InRoot(S) == [x \in S |-> Root]

(* Nothing at all, and a trigger alone. *)
Blank == {Definition(NoNode, InRoot({}), InRoot({}))}
TriggerOnly == {Definition(t, InRoot({}), InRoot({}))}

(* a, then b, then c. *)
Chain == {Definition(t, InRoot({a, b, c}), (a :> Absent @@ b :> After({a}) @@ c :> After({b})))}

(* a and b side by side, c after both. *)
Join == {Definition(t, InRoot({a, b, c}), (a :> Absent @@ b :> Absent @@ c :> After({a, b})))}

ChainOrJoin == Chain \cup Join

(* Nothing at all, and the join under any choice of names. *)
BlankOrJoin ==
  Blank \cup
  {Definition(t, InRoot({x, y, z}), (x :> Absent @@ y :> Absent @@ z :> After({x, y}))) :
     <<x, y, z>> \in {p \in Actions \X Actions \X Actions : Cardinality({p[1], p[2], p[3]}) = 3}}

(* A scope with a, then b. *)
Scope == {Definition(t, (s :> Root @@ a :> s @@ b :> s),
                     (s :> Absent @@ a :> Absent @@ b :> After({a})))}

(* An until loop with a, then b; and with c after both a and b. *)
Until == {Definition(t, (u :> Root @@ a :> u @@ b :> u),
                     (u :> Absent @@ a :> Absent @@ b :> After({a})))}
UntilJoin == {Definition(t, (u :> Root @@ a :> u @@ b :> u @@ c :> u),
                         (u :> Absent @@ a :> Absent @@ b :> Absent @@ c :> After({a, b})))}

AnyAction == Permutations(Actions)
AnyOperation == {pa @@ ps : pa \in Permutations(Actions), ps \in Permutations(Scopes)}
=============================================================================
