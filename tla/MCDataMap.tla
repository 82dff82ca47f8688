----------------------------- MODULE MCDataMap -----------------------------
(* Instances of DataMap for TLC.                                           *)
EXTENDS DataMap, TLC

CONSTANTS x, y, z, l, u, q, f, g, h

(* A source of one node, a target root l with a child u. *)
FlatSchemas == x :> NoNode @@ l :> NoNode @@ u :> l

(* An array z in source x holds y; an array q in target l holds u. *)
ArraySchemas == x :> NoNode @@ z :> x @@ y :> z @@ l :> NoNode @@ q :> l @@ u :> q

TwoThenNone == f :> 2 @@ h :> 0
OneOpen == g :> Unbounded
OneEach == f :> 1 @@ h :> 1
ManyThenOne == g :> Unbounded @@ h :> 1

NoConnections == [n \in {} |-> {}]
BlankMap == {NoConnections}

(* A loaded map that connects x to u. *)
WiredMap == {[n \in {x, u} |-> IF n = x THEN [inputs |-> <<<<>>>>, outputs |-> {u}]
                               ELSE [inputs |-> <<<<x>>>>, outputs |-> {}]]}
=============================================================================
