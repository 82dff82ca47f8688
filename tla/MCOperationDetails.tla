------------------------- MODULE MCOperationDetails -------------------------
(* Instances of OperationDetails for TLC.                                  *)
EXTENDS MCWorkflowGraph, OperationDetails

(* a after the trigger. *)
One == {Definition(t, InRoot({a}), (a :> Absent))}

AnyLoad == Permutations(Loads)
=============================================================================
