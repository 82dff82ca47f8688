----------------------------- MODULE MapHistory -----------------------------
(***************************************************************************)
(* What the undo and redo buttons promise: a bounded past, a present and a *)
(* future.  An edit ends the future; the oldest past is forgotten.         *)
(***************************************************************************)
EXTENDS Integers, Sequences

CONSTANT Depth
VARIABLES past, present, future

Forget(seq, n) == IF Len(seq) <= n THEN seq ELSE SubSeq(seq, Len(seq) - n + 1, Len(seq))

Edit == past' = Append(Forget(past, Depth - 1), present) /\ future' = <<>>

Undo ==
  /\ past # <<>>
  /\ present' = past[Len(past)]
  /\ past' = SubSeq(past, 1, Len(past) - 1)
  /\ future' = Append(future, present)

Redo ==
  /\ future # <<>>
  /\ present' = future[Len(future)]
  /\ future' = SubSeq(future, 1, Len(future) - 1)
  /\ past' = Append(past, present)

(* The map is given up for the one saved last. *)
Restart == past' = <<>> /\ future' = <<>>

Init == past = <<>> /\ future = <<>>
Next == Edit \/ Undo \/ Redo \/ Restart
Spec == Init /\ [][Next]_<<past, present, future>>
=============================================================================
