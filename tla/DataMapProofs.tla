--------------------------- MODULE DataMapProofs ---------------------------
(***************************************************************************)
(* Theorems about DataMap.  The undo and redo stacks never hold more maps  *)
(* than the limit and keep the promise of MapHistory: both follow from     *)
(* what every reducer that edits the map has in common, that it ends in    *)
(* Commit with an old map that shows what the current one does (Recorded   *)
(* below), however much of the rest it shares with the new one.            *)
(*                                                                         *)
(* The maps are typed, a field holds one value at most, and each function  *)
(* card has an entry.  That needs DataInv: all maps of the slice are sound *)
(* and what onFunctionItemClick has still to dispatch fits the map.  Every *)
(* helper of MapConnections is shown to turn sound dictionaries into sound *)
(* ones; those that are recursive functions rest on RecursionHasSolution.  *)
(*                                                                         *)
(* No circle is closed.  What each helper makes a node name is settled     *)
(* first, then what Upstream computes, then that an edit names less than   *)
(* before or adds one input, which makeConnection follows.                 *)
(***************************************************************************)
EXTENDS DataMap, FiniteSetTheorems, WellFoundedInduction, TLAPS

(* A map has the fields of LoadedMap and no other. *)
IsMapRecord(m) ==
  m = [conns |-> m.conns, canvas |-> m.canvas, functions |-> m.functions,
       level |-> m.level, inline |-> m.inline]

Elements(seq) == {seq[i] : i \in DOMAIN seq}
IsSeq(seq) == seq \in Seq(Elements(seq))
AllMaps(seq) == \A i \in DOMAIN seq : IsMapRecord(seq[i])

(* The inductive invariant of the stacks. *)
StacksOK ==
  /\ IsMapRecord(cur) /\ IsMapRecord(pristine)
  /\ IsSeq(undoStack) /\ AllMaps(undoStack)
  /\ IsSeq(redoStack) /\ AllMaps(redoStack)
  /\ HistoryIsBounded

(* An edit is committed. *)
Recorded ==
  \E new, old : /\ Commit(new, old)
                /\ IsMapRecord(new) /\ IsMapRecord(old)
                /\ Shown(old) = Shown(cur)

-----------------------------------------------------------------------------
(* Sequences.                                                              *)

LEMMA SeqOfAny ==
  ASSUME NEW S, NEW seq \in Seq(S)
  PROVE  IsSeq(seq)
  BY DEF IsSeq, Elements

LEMMA AppendIsSeq ==
  ASSUME NEW seq, NEW e, IsSeq(seq)
  PROVE  /\ IsSeq(Append(seq, e))
         /\ Len(Append(seq, e)) = Len(seq) + 1
         /\ DOMAIN Append(seq, e) = 1..(Len(seq) + 1)
         /\ \A i \in 1..Len(seq) : Append(seq, e)[i] = seq[i]
         /\ Append(seq, e)[Len(seq) + 1] = e
<1> DEFINE S == Elements(seq) \cup {e}
<1>1. seq \in Seq(S) BY DEF IsSeq
<1>2. Append(seq, e) \in Seq(S) BY <1>1
<1>3. IsSeq(Append(seq, e)) BY <1>2, SeqOfAny
<1> QED BY <1>1, <1>3

LEMMA SubSeqIsSeq ==
  ASSUME NEW seq, IsSeq(seq), NEW a \in Nat \ {0}, NEW b \in Nat, a <= b + 1, b <= Len(seq)
  PROVE  /\ IsSeq(SubSeq(seq, a, b))
         /\ Len(SubSeq(seq, a, b)) = b - a + 1
         /\ DOMAIN SubSeq(seq, a, b) = 1..(b - a + 1)
         /\ \A i \in 1..(b - a + 1) : SubSeq(seq, a, b)[i] = seq[a + i - 1]
<1> DEFINE S == Elements(seq)
<1>1. seq \in Seq(S) BY DEF IsSeq
<1>2. SubSeq(seq, a, b) \in Seq(S) BY <1>1
<1>3. IsSeq(SubSeq(seq, a, b)) BY <1>2, SeqOfAny
<1> QED BY <1>1, <1>3

LEMMA EmptyIsSeq == IsSeq(<<>>) /\ AllMaps(<<>>)
  BY DEF IsSeq, Elements, AllMaps

LEMMA LenIsNat ==
  ASSUME NEW seq, IsSeq(seq)
  PROVE  Len(seq) \in Nat /\ DOMAIN seq = 1..Len(seq)
  BY DEF IsSeq

(* What doDataMapOperation keeps of the past. *)
LEMMA KeepLastIsSeq ==
  ASSUME NEW seq, IsSeq(seq), NEW n \in Nat
  PROVE  /\ IsSeq(KeepLast(seq, n))
         /\ Len(KeepLast(seq, n)) <= n
         /\ Len(KeepLast(seq, n)) <= Len(seq)
         /\ AllMaps(seq) => AllMaps(KeepLast(seq, n))
<1>1. Len(seq) \in Nat /\ DOMAIN seq = 1..Len(seq) BY LenIsNat
<1>2. CASE Len(seq) <= n BY <1>1, <1>2 DEF KeepLast
<1>3. CASE Len(seq) > n
  <2> DEFINE a == Len(seq) - n + 1
  <2>1. a \in Nat \ {0} /\ a <= Len(seq) + 1 /\ Len(seq) - a + 1 = n BY <1>1, <1>3
  <2>2. KeepLast(seq, n) = SubSeq(seq, a, Len(seq)) BY <1>1, <1>3 DEF KeepLast
  <2> HIDE DEF a
  <2>3. /\ IsSeq(SubSeq(seq, a, Len(seq)))
        /\ Len(SubSeq(seq, a, Len(seq))) = n
        /\ DOMAIN SubSeq(seq, a, Len(seq)) = 1..n
        /\ \A i \in 1..n : SubSeq(seq, a, Len(seq))[i] = seq[a + i - 1]
    BY <1>1, <2>1, SubSeqIsSeq
  <2>4. \A i \in 1..n : a + i - 1 \in 1..Len(seq) BY <1>1, <2>1
  <2>5. AllMaps(seq) => AllMaps(SubSeq(seq, a, Len(seq))) BY <1>1, <2>3, <2>4 DEF AllMaps
  <2> QED BY <1>1, <1>3, <2>2, <2>3, <2>5
<1> QED BY <1>1, <1>2, <1>3

LEMMA AppendKeepsMaps ==
  ASSUME NEW seq, NEW e, IsSeq(seq), AllMaps(seq), IsMapRecord(e)
  PROVE  AllMaps(Append(seq, e))
<1>1. Len(seq) \in Nat /\ DOMAIN seq = 1..Len(seq) BY LenIsNat
<1> QED BY <1>1, AppendIsSeq DEF AllMaps

(* A stack without its top. *)
LEMMA Popped ==
  ASSUME NEW seq, IsSeq(seq), seq # <<>>
  PROVE  /\ Len(seq) \in 1..Len(seq)
         /\ IsSeq(SubSeq(seq, 1, Len(seq) - 1))
         /\ Len(SubSeq(seq, 1, Len(seq) - 1)) = Len(seq) - 1
         /\ AllMaps(seq) => /\ AllMaps(SubSeq(seq, 1, Len(seq) - 1))
                            /\ IsMapRecord(seq[Len(seq)])
<1>1. Len(seq) \in Nat /\ DOMAIN seq = 1..Len(seq) BY LenIsNat
<1>2. Len(seq) > 0 BY <1>1 DEF IsSeq
<1> DEFINE b == Len(seq) - 1
<1>3. b \in Nat /\ 1 <= b + 1 /\ b <= Len(seq) /\ b - 1 + 1 = b BY <1>1, <1>2
<1>4. /\ IsSeq(SubSeq(seq, 1, b)) /\ Len(SubSeq(seq, 1, b)) = b
      /\ DOMAIN SubSeq(seq, 1, b) = 1..b
      /\ \A i \in 1..b : SubSeq(seq, 1, b)[i] = seq[1 + i - 1]
  <2> HIDE DEF b
  <2> QED BY <1>3, SubSeqIsSeq
<1>5. \A i \in 1..b : 1 + i - 1 = i /\ i \in 1..Len(seq) BY <1>1, <1>3
<1>6. AllMaps(seq) => AllMaps(SubSeq(seq, 1, b)) BY <1>1, <1>4, <1>5 DEF AllMaps
<1> QED BY <1>1, <1>2, <1>3, <1>4, <1>6 DEF AllMaps

-----------------------------------------------------------------------------
(* Maps.                                                                   *)

(* Writing to a map leaves it one; what it shows is not in its entries. *)
LEMMA MapExcept ==
  ASSUME NEW m, IsMapRecord(m), NEW C, NEW S
  PROVE  /\ IsMapRecord([m EXCEPT !.conns = C]) /\ Shown([m EXCEPT !.conns = C]) = Shown(m)
         /\ IsMapRecord([m EXCEPT !.canvas = S]) /\ Shown([m EXCEPT !.canvas = S]) = Shown(m)
         /\ IsMapRecord([m EXCEPT !.functions = S])
         /\ IsMapRecord([m EXCEPT !.level = S])
         /\ IsMapRecord([m EXCEPT !.inline = S])
         /\ [m EXCEPT !.conns = C].canvas = m.canvas
<1> DEFINE R(co, ca, fu, le, in) ==
      [conns |-> co, canvas |-> ca, functions |-> fu, level |-> le, inline |-> in]
<1>1. m = R(m.conns, m.canvas, m.functions, m.level, m.inline) BY DEF IsMapRecord
<1>2. [m EXCEPT !.conns = C] = R(C, m.canvas, m.functions, m.level, m.inline) BY <1>1
<1>3. [m EXCEPT !.canvas = S] = R(m.conns, S, m.functions, m.level, m.inline) BY <1>1
<1>4. [m EXCEPT !.functions = S] = R(m.conns, m.canvas, S, m.level, m.inline) BY <1>1
<1>5. [m EXCEPT !.level = S] = R(m.conns, m.canvas, m.functions, S, m.inline) BY <1>1
<1>6. [m EXCEPT !.inline = S] = R(m.conns, m.canvas, m.functions, m.level, S) BY <1>1
<1> QED BY <1>2, <1>3, <1>4, <1>5, <1>6 DEF IsMapRecord, Shown

LEMMA MapExceptTwo ==
  ASSUME NEW m, IsMapRecord(m), NEW C, NEW S, NEW F
  PROVE  /\ IsMapRecord([m EXCEPT !.functions = F, !.conns = C])
         /\ IsMapRecord([m EXCEPT !.conns = C, !.canvas = S])
<1>1. [m EXCEPT !.functions = F, !.conns = C] = [[m EXCEPT !.functions = F] EXCEPT !.conns = C]
  OBVIOUS
<1>2. [m EXCEPT !.conns = C, !.canvas = S] = [[m EXCEPT !.conns = C] EXCEPT !.canvas = S]
  OBVIOUS
<1> DEFINE f == [m EXCEPT !.functions = F]
           c == [m EXCEPT !.conns = C]
<1>3. IsMapRecord(f) /\ IsMapRecord(c) BY MapExcept
<1>4. IsMapRecord([f EXCEPT !.conns = C]) /\ IsMapRecord([c EXCEPT !.canvas = S])
  <2> HIDE DEF f, c
  <2> QED BY <1>3, MapExcept
<1> QED BY <1>1, <1>2, <1>4

LEMMA MapExceptFour ==
  ASSUME NEW m, IsMapRecord(m), NEW C, NEW S, NEW F, NEW l
  PROVE  IsMapRecord([m EXCEPT !.level = l, !.conns = C, !.canvas = S, !.functions = F])
<1> DEFINE a == [m EXCEPT !.level = l]
           b == [a EXCEPT !.conns = C, !.canvas = S]
           c == [b EXCEPT !.functions = F]
<1>1. [m EXCEPT !.level = l, !.conns = C, !.canvas = S, !.functions = F] = c OBVIOUS
<1>2. IsMapRecord(a) BY MapExcept
<1>3. IsMapRecord(b)
  <2> HIDE DEF a
  <2> QED BY <1>2, MapExceptTwo
<1>4. IsMapRecord(c)
  <2> HIDE DEF b
  <2> QED BY <1>3, MapExcept
<1> QED BY <1>1, <1>4

(* What a reducer shares with the old map is not shown. *)
LEMMA SharingShowsTheSame ==
  ASSUME IsMapRecord(cur), NEW C, NEW S
  PROVE  /\ IsMapRecord(SharingAll(C)) /\ Shown(SharingAll(C)) = Shown(cur)
         /\ IsMapRecord(SharingEntries(C)) /\ Shown(SharingEntries(C)) = Shown(cur)
         /\ IsMapRecord([SharingEntries(C) EXCEPT !.canvas = S])
         /\ Shown([SharingEntries(C) EXCEPT !.canvas = S]) = Shown(cur)
<1>1. IsMapRecord(SharingAll(C)) /\ Shown(SharingAll(C)) = Shown(cur) BY MapExcept DEF SharingAll
<1>2. IsMapRecord(SharingEntries(C)) /\ Shown(SharingEntries(C)) = Shown(cur)
  BY MapExcept DEF SharingEntries
<1>3. /\ IsMapRecord([SharingEntries(C) EXCEPT !.canvas = S])
      /\ Shown([SharingEntries(C) EXCEPT !.canvas = S]) = Shown(SharingEntries(C))
  BY <1>2, MapExcept
<1> QED BY <1>1, <1>2, <1>3

-----------------------------------------------------------------------------
(* Every edit is recorded.                                                 *)

LEMMA AddSourceRecords ==
  ASSUME IsMapRecord(cur), NEW x, AddSource(x)
  PROVE  Recorded
<1> DEFINE new == [cur EXCEPT !.canvas = WithAncestors(cur.canvas, x)]
<1>1. IsMapRecord(new) BY MapExcept
<1>2. Commit(new, cur) BY DEF AddSource
<1> HIDE DEF new
<1> QED BY <1>1, <1>2 DEF Recorded

LEMMA RemoveSourceRecords ==
  ASSUME IsMapRecord(cur), NEW x, RemoveSource(x)
  PROVE  Recorded
<1> DEFINE new == [cur EXCEPT !.canvas = cur.canvas \ {x}]
<1>1. IsMapRecord(new) BY MapExcept
<1>2. Commit(new, cur) BY DEF RemoveSource
<1> HIDE DEF new
<1> QED BY <1>1, <1>2 DEF Recorded

LEMMA SetLevelRecords ==
  ASSUME IsMapRecord(cur), NEW l, SetLevel(l)
  PROVE  Recorded
<1> DEFINE drawn == Upstream(cur.conns, LevelRoots(cur.conns, cur.level))
           clean == [n \in DOMAIN cur.conns \ (cur.functions \ drawn) |-> cur.conns[n]]
           shown == Upstream(clean, LevelRoots(clean, l))
           new == [cur EXCEPT !.level = l, !.conns = clean, !.canvas = shown \cap SourceNodes,
                              !.functions = shown \cap FunctionNodes]
<1>1. Commit(new, cur) BY DEF SetLevel
<1>2. IsMapRecord(new)
  <2> HIDE DEF clean, shown
  <2> QED BY MapExceptFour
<1> HIDE DEF new
<1> QED BY <1>1, <1>2 DEF Recorded

LEMMA CommitRecords ==
  ASSUME IsMapRecord(cur), NEW C, NEW S, NEW F,
         NEW old \in {SharingAll(C), SharingEntries(C), [SharingEntries(C) EXCEPT !.canvas = S]},
         NEW new \in {[cur EXCEPT !.conns = C], [cur EXCEPT !.functions = F, !.conns = C],
                      [cur EXCEPT !.conns = C, !.canvas = S]},
         Commit(new, old)
  PROVE  Recorded
<1>1. IsMapRecord(old) /\ Shown(old) = Shown(cur)
  <2> DEFINE shared == [SharingEntries(C) EXCEPT !.canvas = S]
  <2>1. IsMapRecord(shared) /\ Shown(shared) = Shown(cur) BY SharingShowsTheSame
  <2>2. old \in {SharingAll(C), SharingEntries(C), shared} OBVIOUS
  <2> HIDE DEF shared
  <2> QED BY <2>1, <2>2, SharingShowsTheSame
<1>2. IsMapRecord(new)
  <2> DEFINE a == [cur EXCEPT !.conns = C]
             b == [cur EXCEPT !.functions = F, !.conns = C]
             c == [cur EXCEPT !.conns = C, !.canvas = S]
  <2>1. IsMapRecord(a) BY MapExcept
  <2>2. IsMapRecord(b) /\ IsMapRecord(c) BY MapExceptTwo
  <2>3. new \in {a, b, c} OBVIOUS
  <2> HIDE DEF a, b, c
  <2> QED BY <2>1, <2>2, <2>3
<1> QED BY <1>1, <1>2 DEF Recorded

LEMMA AddFunctionRecords ==
  ASSUME IsMapRecord(cur), NEW f, AddFunction(f)
  PROVE  Recorded
<1> DEFINE C == WithEntry(cur.conns, f)
<1>1. Commit([cur EXCEPT !.functions = cur.functions \cup {f}, !.conns = C], SharingAll(C))
  BY DEF AddFunction
<1> QED BY <1>1, CommitRecords

LEMMA DeleteFunctionRecords ==
  ASSUME IsMapRecord(cur), NEW f, DeleteFunction(f)
  PROVE  Recorded
<1> DEFINE C == Without(cur.conns, f)
<1>1. Commit([cur EXCEPT !.functions = cur.functions \ {f}, !.conns = C], SharingAll(C))
  BY DEF DeleteFunction
<1> QED BY <1>1, CommitRecords

LEMMA MakeConnectionRecords ==
  ASSUME IsMapRecord(cur), NEW s, NEW t, NEW i, MakeConnection(s, t, i)
  PROVE  Recorded
<1>1. PICK C, S : Commit([cur EXCEPT !.conns = C, !.canvas = S], [SharingEntries(C) EXCEPT !.canvas = S])
  BY DEF MakeConnection
<1> QED BY <1>1, CommitRecords

LEMMA SetConnectionInputRecords ==
  ASSUME IsMapRecord(cur), NEW t, NEW i, NEW v, SetConnectionInput(t, i, v)
  PROVE  Recorded
<1>1. PICK C : Commit([cur EXCEPT !.conns = C], SharingEntries(C)) BY DEF SetConnectionInput
<1> QED BY <1>1, CommitRecords

LEMMA ChangeFieldsRecords ==
  ASSUME IsMapRecord(cur), NEW f, ChangeFields(f)
  PROVE  Recorded
<1>1. PICK C : Commit([cur EXCEPT !.conns = C], SharingEntries(C)) BY DEF ChangeFields
<1> QED BY <1>1, CommitRecords

LEMMA DeleteEdgeRecords ==
  ASSUME IsMapRecord(cur), NEW e, DeleteEdge(e)
  PROVE  Recorded
<1>1. PICK C : Commit([cur EXCEPT !.conns = C], SharingEntries(C)) BY DEF DeleteEdge
<1> QED BY <1>1, CommitRecords

LEMMA SetInlineRecords ==
  ASSUME IsMapRecord(cur), NEW keys, SetInline(keys)
  PROVE  Recorded
<1> DEFINE new == [cur EXCEPT !.inline = keys]
<1>1. IsMapRecord(new) BY MapExcept
<1>2. Commit(new, cur) BY DEF SetInline
<1> HIDE DEF new
<1> QED BY <1>1, <1>2 DEF Recorded

LEMMA InlineDisconnectRecords ==
  ASSUME IsMapRecord(cur), InlineDisconnect
  PROVE  Recorded
<1>1. PICK C : Commit([cur EXCEPT !.conns = C], SharingAll(C)) BY DEF InlineDisconnect
<1> QED BY <1>1, CommitRecords

(* A step edits the map, goes back or forth, saves, or gives up. *)
LEMMA StepKinds ==
  ASSUME IsMapRecord(cur), [MapNext]_mapVars
  PROVE  \/ Recorded \/ Undo \/ Redo \/ DiscardDataMap
         \/ UNCHANGED <<cur, undoStack, redoStack>> /\ pristine' \in {pristine, cur}
<1>1. CASE CanvasEdit
  BY <1>1, AddSourceRecords, RemoveSourceRecords, AddFunctionRecords, MakeConnectionRecords,
     SetConnectionInputRecords, ChangeFieldsRecords, DeleteEdgeRecords, DeleteFunctionRecords,
     SetInlineRecords DEF CanvasEdit, Drag
<1>2. CASE \E f \in FreshFunctions : PickInline(f) BY <1>2, AddFunctionRecords DEF PickInline
<1>3. CASE InlineDisconnect BY <1>3, InlineDisconnectRecords
<1>4. CASE InlineInput BY <1>4, MakeConnectionRecords DEF InlineInput
<1>5. CASE InlineOutput BY <1>5, MakeConnectionRecords DEF InlineOutput
<1>6. CASE InlineEnds BY <1>6, SetInlineRecords DEF InlineEnds
<1>7. CASE InlineThrows BY <1>7 DEF InlineThrows
<1>8. CASE \E l \in TargetNodes \cup {NoNode} : SetLevel(l) BY <1>8, SetLevelRecords
<1>9. CASE SaveDataMap BY <1>9 DEF SaveDataMap
<1>10. CASE UNCHANGED mapVars BY <1>10 DEF mapVars
<1> QED BY <1>1, <1>2, <1>3, <1>4, <1>5, <1>6, <1>7, <1>8, <1>9, <1>10 DEF MapNext

-----------------------------------------------------------------------------
(* The stacks are bounded.                                                 *)

LEMMA InitStacks == MapInit => StacksOK
<1> SUFFICES ASSUME MapInit PROVE StacksOK OBVIOUS
<1>1. IsMapRecord(cur) /\ pristine = cur BY DEF MapInit, LoadedMap, IsMapRecord
<1>2. undoStack = <<>> /\ redoStack = <<>> BY DEF MapInit
<1>3. HistoryIsBounded BY <1>2, MapEditsAreKnown DEF HistoryIsBounded
<1> QED BY <1>1, <1>2, <1>3, EmptyIsSeq DEF StacksOK

LEMMA RecordedKeepsStacks ==
  ASSUME StacksOK, Recorded
  PROVE  StacksOK'
<1>1. PICK new, old : Commit(new, old) /\ IsMapRecord(new) /\ IsMapRecord(old) BY DEF Recorded
<1>2. IsMapRecord(cur') /\ IsMapRecord(pristine') BY <1>1 DEF Commit, StacksOK
<1>3. CASE "undo" \notin MapEdits
  BY <1>1, <1>2, <1>3 DEF Commit, StacksOK, HistoryIsBounded
<1>4. CASE "undo" \in MapEdits
  <2> DEFINE kept == KeepLast(undoStack, UndoDepth - 1)
  <2>1. UndoDepth - 1 \in Nat BY MapEditsAreKnown
  <2>2. IsSeq(kept) /\ AllMaps(kept) /\ Len(kept) <= UndoDepth - 1
    BY <2>1, KeepLastIsSeq DEF StacksOK
  <2>3. undoStack' = Append(kept, old) /\ redoStack' = <<>> BY <1>1, <1>4 DEF Commit
  <2> HIDE DEF kept
  <2>4. IsSeq(undoStack') /\ AllMaps(undoStack') /\ Len(undoStack') = Len(kept) + 1
    BY <1>1, <2>2, <2>3, AppendIsSeq, AppendKeepsMaps
  <2>5. Len(kept) \in Nat BY <2>2, LenIsNat
  <2>6. HistoryIsBounded' BY <2>2, <2>3, <2>4, <2>5, MapEditsAreKnown DEF HistoryIsBounded
  <2> QED BY <1>2, <2>3, <2>4, <2>6, EmptyIsSeq DEF StacksOK
<1> QED BY <1>3, <1>4

LEMMA UndoKeepsStacks ==
  ASSUME StacksOK, Undo
  PROVE  StacksOK'
<1>1. undoStack # <<>> /\ IsSeq(undoStack) /\ IsSeq(redoStack) BY DEF Undo, StacksOK
<1>2. /\ IsSeq(undoStack') /\ AllMaps(undoStack') /\ Len(undoStack') = Len(undoStack) - 1
      /\ IsMapRecord(cur')
  BY <1>1, Popped DEF Undo, StacksOK
<1>3. IsSeq(redoStack') /\ AllMaps(redoStack') /\ Len(redoStack') = Len(redoStack) + 1
  BY <1>1, AppendIsSeq, AppendKeepsMaps DEF Undo, StacksOK
<1>4. HistoryIsBounded'
  <2>1. Len(undoStack) \in Nat /\ Len(redoStack) \in Nat BY <1>1, LenIsNat
  <2> QED BY <1>2, <1>3, <2>1 DEF HistoryIsBounded, StacksOK
<1> QED BY <1>2, <1>3, <1>4 DEF StacksOK, Undo

LEMMA RedoKeepsStacks ==
  ASSUME StacksOK, Redo
  PROVE  StacksOK'
<1>1. redoStack # <<>> /\ IsSeq(undoStack) /\ IsSeq(redoStack) BY DEF Redo, StacksOK
<1>2. /\ IsSeq(redoStack') /\ AllMaps(redoStack') /\ Len(redoStack') = Len(redoStack) - 1
      /\ IsMapRecord(cur')
  BY <1>1, Popped DEF Redo, StacksOK
<1>3. IsSeq(undoStack') /\ AllMaps(undoStack') /\ Len(undoStack') = Len(undoStack) + 1
  BY <1>1, AppendIsSeq, AppendKeepsMaps DEF Redo, StacksOK
<1>4. HistoryIsBounded'
  <2>1. Len(undoStack) \in Nat /\ Len(redoStack) \in Nat BY <1>1, LenIsNat
  <2> QED BY <1>2, <1>3, <2>1 DEF HistoryIsBounded, StacksOK
<1> QED BY <1>2, <1>3, <1>4 DEF StacksOK, Redo

LEMMA DiscardKeepsStacks ==
  ASSUME StacksOK, DiscardDataMap
  PROVE  StacksOK'
<1>1. undoStack' = <<>> /\ redoStack' = <<>> BY DEF DiscardDataMap
<1>2. HistoryIsBounded' BY <1>1, MapEditsAreKnown DEF HistoryIsBounded
<1> QED BY <1>1, <1>2, EmptyIsSeq DEF StacksOK, DiscardDataMap

LEMMA NextStacks ==
  ASSUME StacksOK, [MapNext]_mapVars
  PROVE  StacksOK'
<1>1. IsMapRecord(cur) BY DEF StacksOK
<1>2. CASE UNCHANGED <<cur, undoStack, redoStack>> /\ pristine' \in {pristine, cur}
  BY <1>2 DEF StacksOK, HistoryIsBounded
<1> QED BY <1>1, <1>2, StepKinds, RecordedKeepsStacks, UndoKeepsStacks, RedoKeepsStacks,
           DiscardKeepsStacks

(* In every reachable state the two stacks together hold at most UndoDepth *)
(* maps, though redo pushes without looking at the limit.                  *)
THEOREM BoundedHistory == MapSpec => []HistoryIsBounded
<1>1. MapInit => StacksOK BY InitStacks
<1>2. StacksOK /\ [MapNext]_mapVars => StacksOK' BY NextStacks
<1>3. StacksOK => HistoryIsBounded BY DEF StacksOK
<1> QED BY <1>1, <1>2, <1>3, PTL DEF MapSpec

-----------------------------------------------------------------------------
(* Undo and redo restore what is shown.                                    *)

(* The refinement mapping of History on a stack. *)
Shows(seq) == [i \in DOMAIN seq |-> Shown(seq[i])]

LEMMA SameSeq ==
  ASSUME NEW r, NEW s, IsSeq(r), IsSeq(s), Len(r) = Len(s),
         \A i \in 1..Len(r) : r[i] = s[i]
  PROVE  r = s
<1> DEFINE S == Elements(r) \cup Elements(s)
<1>1. r \in Seq(S) /\ s \in Seq(S) BY DEF IsSeq
<1> HIDE DEF S
<1> QED BY <1>1

LEMMA ShowsIsSeq ==
  ASSUME NEW seq, IsSeq(seq)
  PROVE  /\ IsSeq(Shows(seq)) /\ Len(Shows(seq)) = Len(seq)
         /\ \A i \in 1..Len(seq) : Shows(seq)[i] = Shown(seq[i])
<1>1. Len(seq) \in Nat /\ DOMAIN seq = 1..Len(seq) BY LenIsNat
<1> DEFINE S == {Shown(seq[i]) : i \in 1..Len(seq)}
<1>2. Shows(seq) \in [1..Len(seq) -> S] BY <1>1 DEF Shows
<1>3. Shows(seq) \in Seq(S) /\ Len(Shows(seq)) = Len(seq) BY <1>1, <1>2
<1> QED BY <1>1, <1>3, SeqOfAny DEF Shows

LEMMA ShowsAppend ==
  ASSUME NEW seq, NEW e, IsSeq(seq)
  PROVE  Shows(Append(seq, e)) = Append(Shows(seq), Shown(e))
<1> DEFINE l == Append(seq, e)
           r == Append(Shows(seq), Shown(e))
<1>1. Len(seq) \in Nat BY LenIsNat
<1>2. /\ IsSeq(l) /\ Len(l) = Len(seq) + 1 /\ l[Len(seq) + 1] = e
      /\ \A i \in 1..Len(seq) : l[i] = seq[i]
  BY AppendIsSeq
<1>3. /\ IsSeq(Shows(seq)) /\ Len(Shows(seq)) = Len(seq)
      /\ \A i \in 1..Len(seq) : Shows(seq)[i] = Shown(seq[i])
  BY ShowsIsSeq
<1>4. /\ IsSeq(r) /\ Len(r) = Len(seq) + 1 /\ r[Len(seq) + 1] = Shown(e)
      /\ \A i \in 1..Len(seq) : r[i] = Shows(seq)[i]
  BY <1>3, AppendIsSeq
<1> HIDE DEF l, r
<1>5. /\ IsSeq(Shows(l)) /\ Len(Shows(l)) = Len(l)
      /\ \A i \in 1..Len(l) : Shows(l)[i] = Shown(l[i])
  BY <1>2, ShowsIsSeq
<1>6. \A i \in 1..(Len(seq) + 1) : Shows(l)[i] = r[i]
  <2> TAKE i \in 1..(Len(seq) + 1)
  <2>1. CASE i = Len(seq) + 1 BY <1>2, <1>4, <1>5, <2>1
  <2>2. CASE i # Len(seq) + 1
    <3>1. i \in 1..Len(seq) BY <1>1, <2>2
    <3> QED BY <1>2, <1>3, <1>4, <1>5, <3>1
  <2> QED BY <2>1, <2>2
<1>7. Shows(l) = r BY <1>2, <1>4, <1>5, <1>6, SameSeq
<1> QED BY <1>7 DEF l, r

LEMMA ShowsSubSeq ==
  ASSUME NEW seq, IsSeq(seq), NEW a \in Nat \ {0}, NEW b \in Nat, a <= b + 1, b <= Len(seq)
  PROVE  Shows(SubSeq(seq, a, b)) = SubSeq(Shows(seq), a, b)
<1> DEFINE l == SubSeq(seq, a, b)
           r == SubSeq(Shows(seq), a, b)
<1>1. Len(seq) \in Nat BY LenIsNat
<1>2. /\ IsSeq(l) /\ Len(l) = b - a + 1
      /\ \A i \in 1..(b - a + 1) : l[i] = seq[a + i - 1]
  BY SubSeqIsSeq
<1>3. /\ IsSeq(Shows(seq)) /\ Len(Shows(seq)) = Len(seq)
      /\ \A i \in 1..Len(seq) : Shows(seq)[i] = Shown(seq[i])
  BY ShowsIsSeq
<1>4. /\ IsSeq(r) /\ Len(r) = b - a + 1
      /\ \A i \in 1..(b - a + 1) : r[i] = Shows(seq)[a + i - 1]
  BY <1>3, SubSeqIsSeq
<1> HIDE DEF l, r
<1>5. /\ IsSeq(Shows(l)) /\ Len(Shows(l)) = Len(l)
      /\ \A i \in 1..Len(l) : Shows(l)[i] = Shown(l[i])
  BY <1>2, ShowsIsSeq
<1>6. \A i \in 1..(b - a + 1) : a + i - 1 \in 1..Len(seq) BY <1>1
<1>7. \A i \in 1..Len(Shows(l)) : Shows(l)[i] = r[i] BY <1>2, <1>3, <1>4, <1>5, <1>6
<1>8. Shows(l) = r BY <1>2, <1>4, <1>5, <1>7, SameSeq
<1> QED BY <1>8 DEF l, r

LEMMA ShowsKeepLast ==
  ASSUME NEW seq, IsSeq(seq), NEW n \in Nat
  PROVE  Shows(KeepLast(seq, n)) = History!Forget(Shows(seq), n)
<1>1. Len(seq) \in Nat BY LenIsNat
<1>2. Len(Shows(seq)) = Len(seq) BY ShowsIsSeq
<1>3. CASE Len(seq) <= n BY <1>2, <1>3 DEF KeepLast, History!Forget
<1>4. CASE Len(seq) > n
  <2> DEFINE a == Len(seq) - n + 1
  <2>1. a \in Nat \ {0} /\ a <= Len(seq) + 1 BY <1>1, <1>4
  <2>2. KeepLast(seq, n) = SubSeq(seq, a, Len(seq)) BY <1>1, <1>4 DEF KeepLast
  <2>3. History!Forget(Shows(seq), n) = SubSeq(Shows(seq), a, Len(seq))
    BY <1>1, <1>2, <1>4 DEF History!Forget
  <2> HIDE DEF a
  <2> DEFINE b == Len(seq)
  <2>4. b \in Nat /\ a <= b + 1 /\ b <= Len(seq) BY <1>1, <2>1
  <2> HIDE DEF b
  <2>5. Shows(SubSeq(seq, a, b)) = SubSeq(Shows(seq), a, b) BY <2>1, <2>4, ShowsSubSeq
  <2> QED BY <2>2, <2>3, <2>5 DEF b
<1> QED BY <1>1, <1>3, <1>4

LEMMA ShowsPopped ==
  ASSUME NEW seq, IsSeq(seq), seq # <<>>
  PROVE  /\ Shows(SubSeq(seq, 1, Len(seq) - 1)) = SubSeq(Shows(seq), 1, Len(Shows(seq)) - 1)
         /\ Shows(seq) # <<>>
         /\ Shows(seq)[Len(Shows(seq))] = Shown(seq[Len(seq)])
<1>1. Len(seq) \in Nat /\ DOMAIN seq = 1..Len(seq) BY LenIsNat
<1>2. Len(seq) > 0 BY <1>1 DEF IsSeq
<1>3. /\ IsSeq(Shows(seq)) /\ Len(Shows(seq)) = Len(seq)
      /\ \A i \in 1..Len(seq) : Shows(seq)[i] = Shown(seq[i])
  BY ShowsIsSeq
<1>4. Shows(SubSeq(seq, 1, Len(seq) - 1)) = SubSeq(Shows(seq), 1, Len(seq) - 1)
  <2> DEFINE b == Len(seq) - 1
  <2>1. b \in Nat /\ 1 <= b + 1 /\ b <= Len(seq) BY <1>1, <1>2
  <2> HIDE DEF b
  <2>2. Shows(SubSeq(seq, 1, b)) = SubSeq(Shows(seq), 1, b) BY <2>1, ShowsSubSeq
  <2> QED BY <2>2 DEF b
<1> QED BY <1>1, <1>2, <1>3, <1>4

LEMMA ShowsEmpty == Shows(<<>>) = <<>>
  BY DEF Shows

-----------------------------------------------------------------------------
(* The four kinds of step, as MapHistory sees them.                        *)

LEMMA RecordedIsEdit ==
  ASSUME "undo" \in MapEdits, StacksOK, Recorded
  PROVE  History!Edit
<1>1. PICK new, old : Commit(new, old) /\ Shown(old) = Shown(cur) BY DEF Recorded
<1>2. /\ undoStack' = Append(KeepLast(undoStack, UndoDepth - 1), old)
      /\ redoStack' = <<>>
  BY <1>1 DEF Commit
<1>3. IsSeq(undoStack) /\ UndoDepth - 1 \in Nat BY MapEditsAreKnown DEF StacksOK
<1>4. IsSeq(KeepLast(undoStack, UndoDepth - 1)) BY <1>3, KeepLastIsSeq
<1>5. Shows(undoStack') = Append(Shows(KeepLast(undoStack, UndoDepth - 1)), Shown(old))
  BY <1>2, <1>4, ShowsAppend
<1>6. Shows(KeepLast(undoStack, UndoDepth - 1)) = History!Forget(Shows(undoStack), UndoDepth - 1)
  BY <1>3, ShowsKeepLast
<1>7. Shows(undoStack') = Append(History!Forget(Shows(undoStack), UndoDepth - 1), Shown(cur))
  BY <1>1, <1>5, <1>6
<1>8. Shows(redoStack') = <<>> BY <1>2, ShowsEmpty
<1> QED BY <1>7, <1>8 DEF History!Edit, Shows

LEMMA UndoIsUndo ==
  ASSUME StacksOK, Undo
  PROVE  History!Undo
<1>1. undoStack # <<>> /\ IsSeq(undoStack) /\ IsSeq(redoStack) BY DEF Undo, StacksOK
<1>2. /\ Shows(undoStack') = SubSeq(Shows(undoStack), 1, Len(Shows(undoStack)) - 1)
      /\ Shows(undoStack) # <<>>
      /\ Shows(undoStack)[Len(Shows(undoStack))] = Shown(cur')
  BY <1>1, ShowsPopped DEF Undo
<1>3. Shows(redoStack') = Append(Shows(redoStack), Shown(cur)) BY <1>1, ShowsAppend DEF Undo
<1> QED BY <1>2, <1>3 DEF History!Undo, Shows, Shown

LEMMA RedoIsRedo ==
  ASSUME StacksOK, Redo
  PROVE  History!Redo
<1>1. redoStack # <<>> /\ IsSeq(undoStack) /\ IsSeq(redoStack) BY DEF Redo, StacksOK
<1>2. /\ Shows(redoStack') = SubSeq(Shows(redoStack), 1, Len(Shows(redoStack)) - 1)
      /\ Shows(redoStack) # <<>>
      /\ Shows(redoStack)[Len(Shows(redoStack))] = Shown(cur')
  BY <1>1, ShowsPopped DEF Redo
<1>3. Shows(undoStack') = Append(Shows(undoStack), Shown(cur)) BY <1>1, ShowsAppend DEF Redo
<1> QED BY <1>2, <1>3 DEF History!Redo, Shows, Shown

LEMMA DiscardIsRestart ==
  ASSUME DiscardDataMap
  PROVE  History!Restart
<1>1. undoStack' = <<>> /\ redoStack' = <<>> BY DEF DiscardDataMap
<1>2. Shows(undoStack') = <<>> /\ Shows(redoStack') = <<>> BY <1>1, ShowsEmpty
<1> QED BY <1>2 DEF History!Restart, Shows

LEMMA HistoryStep ==
  ASSUME "undo" \in MapEdits, StacksOK, [MapNext]_mapVars
  PROVE  \/ History!Next
         \/ UNCHANGED <<cur, undoStack, redoStack>>
<1>1. IsMapRecord(cur) BY DEF StacksOK
<1> QED BY <1>1, StepKinds, RecordedIsEdit, UndoIsUndo, RedoIsRedo, DiscardIsRestart
        DEF History!Next

(* When edits are recorded, the function cards, the level and the edge     *)
(* chosen for a function behave as MapHistory says: undo brings back what  *)
(* the last edit replaced, redo what the last undo did, for every schema,  *)
(* every set of functions and every limit.                                 *)
THEOREM UndoRefinesHistory ==
  ASSUME "undo" \in MapEdits
  PROVE  MapSpec => UndoRestoresCards
<1>1. MapInit => StacksOK BY InitStacks
<1>2. StacksOK /\ [MapNext]_mapVars => StacksOK' BY NextStacks
<1>3. MapInit => History!Init
  BY ShowsEmpty DEF MapInit, History!Init, Shows
<1>4. StacksOK /\ [MapNext]_mapVars
      => [History!Next]_<<[i \in DOMAIN undoStack |-> Shown(undoStack[i])], Shown(cur),
                          [i \in DOMAIN redoStack |-> Shown(redoStack[i])]>>
  BY HistoryStep DEF Shown
<1> QED BY <1>1, <1>2, <1>3, <1>4, PTL DEF MapSpec, UndoRestoresCards, History!Spec

-----------------------------------------------------------------------------
(***************************************************************************)
(* Recursion.  A recursive function takes the base at its last arguments   *)
(* and follows next elsewhere.                                             *)
(***************************************************************************)
Descends(D, last, next) ==
  /\ \A x \in D \ last : next[x] \in D
  /\ \A T \in SUBSET D : T # {} => \E x \in T : x \in last \/ next[x] \notin T

Solves(f, D, last, base, next, step) ==
  f = [x \in D |-> IF x \in last THEN base ELSE step[<<x, f[next[x]]>>]]

(* What holds at the last arguments and is handed on holds everywhere. *)
LEMMA Inherited ==
  ASSUME NEW D, NEW last, NEW next, Descends(D, last, next), NEW f, NEW V,
         \A x \in D \cap last : f[x] \in V[x],
         \A x \in D \ last : f[next[x]] \in V[next[x]] => f[x] \in V[x]
  PROVE  \A x \in D : f[x] \in V[x]
<1> DEFINE T == {x \in D : f[x] \notin V[x]}
<1>1. ASSUME T # {} PROVE FALSE
  <2>1. PICK x \in T : x \in last \/ next[x] \notin T BY <1>1 DEF Descends
  <2>2. x \in D \ last BY <2>1
  <2>3. next[x] \in D BY <2>2 DEF Descends
  <2> QED BY <2>1, <2>2, <2>3
<1> QED BY <1>1

(* There is such a function: the least relation that the equation closes. *)
LEMMA RecursionHasSolution ==
  ASSUME NEW D, NEW last, NEW base, NEW next, NEW step, Descends(D, last, next), NEW V,
         \A x \in D \cap last : base \in V[x],
         \A x \in D \ last : \A v \in V[next[x]] : step[<<x, v>>] \in V[x]
  PROVE  \E f : Solves(f, D, last, base, next, step) /\ \A x \in D : f[x] \in V[x]
<1> DEFINE G == {p \in D \X UNION {V[x] : x \in D} : p[2] \in V[p[1]]}
           Closed(R) == /\ \A x \in D \cap last : <<x, base>> \in R
                        /\ \A x \in D \ last : \A v \in V[next[x]] :
                             <<next[x], v>> \in R => <<x, step[<<x, v>>]>> \in R
           L == {p \in G : \A R \in SUBSET G : Closed(R) => p \in R}
<1>1. \A x \in D : \A v \in V[x] : <<x, v>> \in G OBVIOUS
<1>2. \A x, v : <<x, v>> \in G => x \in D /\ v \in V[x] OBVIOUS
<1>3. \A x \in D \ last : next[x] \in D BY DEF Descends
<1>4. Closed(G)
  <2> HIDE DEF G
  <2> QED BY <1>1, <1>2, <1>3
<1>5. Closed(L)
  <2>1. L \subseteq G OBVIOUS
  <2>2. \A p \in G : p \in L <=> \A R \in SUBSET G : Closed(R) => p \in R OBVIOUS
  <2> HIDE DEF L, G
  <2>3. ASSUME NEW x \in D \cap last PROVE <<x, base>> \in L
    <3>1. <<x, base>> \in G BY <1>4
    <3> QED BY <2>2, <2>3, <3>1
  <2>4. ASSUME NEW x \in D \ last, NEW v \in V[next[x]], <<next[x], v>> \in L
        PROVE  <<x, step[<<x, v>>]>> \in L
    <3>1. <<x, step[<<x, v>>]>> \in G BY <1>4, <2>1, <2>4
    <3>2. ASSUME NEW R \in SUBSET G, Closed(R) PROVE <<x, step[<<x, v>>]>> \in R
      <4>1. <<next[x], v>> \in R BY <2>1, <2>2, <2>4, <3>2
      <4> QED BY <3>2, <4>1
    <3> QED BY <2>2, <3>1, <3>2
  <2> QED BY <2>3, <2>4
<1>6. \A p \in L : p \in G /\ \A R \in SUBSET G : Closed(R) => p \in R OBVIOUS
<1> DEFINE Out(x) == IF x \in last THEN {base} ELSE {step[<<x, v>>] : v \in {w \in V[next[x]] : <<next[x], w>> \in L}}
<1>7. ASSUME NEW x, NEW v, <<x, v>> \in L PROVE v \in Out(x)
  <2> DEFINE R == L \ {<<x, v>>}
  <2>1. SUFFICES ASSUME v \notin Out(x) PROVE FALSE OBVIOUS
  <2>2. Closed(R)
    <3> HIDE DEF L
    <3>1. \A y \in D \cap last : <<y, base>> # <<x, v>> BY <2>1
    <3>2. ASSUME NEW y \in D \ last, NEW w \in V[next[y]], <<next[y], w>> \in L
          PROVE <<y, step[<<y, w>>]>> # <<x, v>>
      BY <2>1, <3>2
    <3> QED BY <1>5, <3>1, <3>2
  <2>3. R \in SUBSET G /\ <<x, v>> \notin R BY <1>6
  <2> HIDE DEF R, L
  <2> QED BY <1>6, <1>7, <2>2, <2>3
<1> DEFINE One(x) == \E v : <<x, v>> \in L /\ \A w : <<x, w>> \in L => w = v
<1>8. \A x \in D : One(x)
  <2> DEFINE T == {x \in D : ~One(x)}
  <2>1. ASSUME T # {} PROVE FALSE
    <3>1. PICK x \in T : x \in last \/ next[x] \notin T BY <2>1 DEF Descends
    <3> HIDE DEF L
    <3>2. CASE x \in last
      <4>1. <<x, base>> \in L BY <1>5, <3>2
      <4>2. \A w : <<x, w>> \in L => w = base BY <1>7, <3>2
      <4> QED BY <4>1, <4>2
    <3>3. CASE x \notin last
      <4>1. x \in D \ last /\ next[x] \in D BY <1>3, <3>3
      <4>2. PICK u : <<next[x], u>> \in L /\ \A w : <<next[x], w>> \in L => w = u BY <3>1, <3>3, <4>1
      <4>3. u \in V[next[x]] BY <1>2, <1>6, <4>2
      <4>4. <<x, step[<<x, u>>]>> \in L BY <1>5, <4>1, <4>2, <4>3
      <4>5. ASSUME NEW w, <<x, w>> \in L PROVE w = step[<<x, u>>]
        <5>1. w \in Out(x) BY <1>7, <4>5
        <5>2. w \in {step[<<x, v>>] : v \in {z \in V[next[x]] : <<next[x], z>> \in L}} BY <3>3, <5>1
        <5>3. PICK z \in V[next[x]] : <<next[x], z>> \in L /\ w = step[<<x, z>>] BY <5>2
        <5> QED BY <4>2, <5>3
      <4> QED BY <4>4, <4>5
    <3> QED BY <3>2, <3>3
  <2> QED BY <2>1
<1> DEFINE Chosen(x) == CHOOSE v : <<x, v>> \in L
           f == [x \in D |-> Chosen(x)]
<1>9. \A x \in D : <<x, f[x]>> \in L /\ \A w : <<x, w>> \in L => w = f[x]
  <2> HIDE DEF L
  <2> QED BY <1>8
<1>10. \A x \in D : f[x] \in V[x]
  <2> HIDE DEF L, f
  <2> QED BY <1>2, <1>6, <1>9
<1>11. \A x \in D : f[x] = IF x \in last THEN base ELSE step[<<x, f[next[x]]>>]
  <2> HIDE DEF L, f
  <2> TAKE x \in D
  <2>1. CASE x \in last BY <1>5, <1>9, <2>1
  <2>2. CASE x \notin last
    <3>1. next[x] \in D BY <1>3, <2>2
    <3>2. <<x, step[<<x, f[next[x]]>>]>> \in L BY <1>5, <1>9, <1>10, <2>2, <3>1
    <3> QED BY <1>9, <2>2, <3>2
  <2> QED BY <2>1, <2>2
<1>12. Solves(f, D, last, base, next, step)
  <2> HIDE DEF Chosen
  <2>1. f = [x \in D |-> f[x]] OBVIOUS
  <2> HIDE DEF f
  <2>2. [x \in D |-> f[x]] = [x \in D |-> IF x \in last THEN base ELSE step[<<x, f[next[x]]>>]]
    BY <1>11
  <2> QED BY <2>1, <2>2 DEF Solves
<1> QED BY <1>10, <1>12

-----------------------------------------------------------------------------
(* Dictionaries.  Connections go from givers to takers.  The inputs of an  *)
(* entry fill the slots of its node; a slot takes one value at most, if    *)
(* the node does not have all its values in one, and none in a source.     *)
Givers == SourceNodes \cup FunctionNodes
Takers == TargetNodes \cup FunctionNodes
InputValues == Givers \cup {Custom, Empty}

Filled(n) ==
  {a \in [DOMAIN NewInputs(n) -> Seq(InputValues)] :
     /\ ~Manifold(n) => \A i \in DOMAIN NewInputs(n) : Len(a[i]) <= 1
     /\ n \in SourceNodes => \A i \in DOMAIN NewInputs(n) : a[i] = <<>>}

EntryOf(n) == [inputs : Filled(n), outputs : SUBSET Nodes]

IsDict(C) ==
  /\ C = [n \in DOMAIN C |-> C[n]]
  /\ DOMAIN C \subseteq Nodes
  /\ \A n \in DOMAIN C : C[n] \in EntryOf(n)

LessThan == OpToRel(<, Nat)

LEMMA LeastNumber ==
  ASSUME NEW S, S \subseteq Nat, S # {}
  PROVE  \E i \in S : \A j \in S : i <= j
<1>1. IsWellFoundedOn(LessThan, Nat)
  BY NatLessThanWellFounded DEF LessThan
<1>2. PICK i \in S : \A j \in S : ~ (<<j, i>> \in LessThan)
  <2> HIDE DEF LessThan
  <2>1. S \subseteq Nat /\ S # {}
    OBVIOUS
  <2> QED BY <1>1, <2>1, WFMin
<1>3. \A j \in S : ~ (j < i)
  <2> SUFFICES ASSUME NEW j \in S, j < i PROVE FALSE
    OBVIOUS
  <2>1. <<j, i>> \in Nat \X Nat /\ <<j, i>>[1] < <<j, i>>[2]
    OBVIOUS
  <2>2. <<j, i>> \in LessThan
    BY <2>1 DEF LessThan, OpToRel
  <2> QED BY <1>2, <2>2
<1> QED BY <1>3

LEMMA OneSlot ==
  ASSUME NEW S, NEW s \in S
  PROVE  <<s>> \in [1..1 -> S] /\ DOMAIN <<s>> = 1..1
  OBVIOUS

LEMMA Slots ==
  ASSUME NEW n \in Nodes
  PROVE  /\ NewInputs(n) \in Filled(n)
         /\ n \in SchemaNodes \/ Manifold(n) => DOMAIN NewInputs(n) = 1..1
         /\ n \in FunctionNodes /\ ~Manifold(n) =>
              Arity[n] \in Nat /\ NewInputs(n) = [i \in 1..Arity[n] |-> <<>>]
<1>1. <<>> \in Seq(InputValues) /\ Len(<<>>) = 0 OBVIOUS
<1>2. <<Empty, Empty>> \in Seq(InputValues) BY DEF InputValues
<1>3. CASE n \in SchemaNodes
  <2>1. n \notin FunctionNodes BY <1>3, NodesAreDistinct
  <2>2. NewInputs(n) = <<<<>>>> BY <1>3 DEF NewInputs
  <2>3. <<<<>>>> \in [1..1 -> Seq(InputValues)] /\ DOMAIN <<<<>>>> = 1..1
    BY <1>1, OneSlot, Zenon
  <2>4. \A i \in 1..1 : <<<<>>>>[i] = <<>> OBVIOUS
  <2> QED BY <1>1, <2>1, <2>2, <2>3, <2>4 DEF Filled
<1>4. CASE n \in FunctionNodes /\ Arity[n] = Unbounded
  <2>1. n \notin SchemaNodes BY <1>4, NodesAreDistinct
  <2>2. NewInputs(n) = <<<<Empty, Empty>>>> /\ Manifold(n) BY <1>4, <2>1 DEF NewInputs, Manifold
  <2>3. <<<<Empty, Empty>>>> \in [1..1 -> Seq(InputValues)] /\ DOMAIN <<<<Empty, Empty>>>> = 1..1
    BY <1>2, OneSlot, Zenon
  <2> QED BY <2>1, <2>2, <2>3 DEF Filled, SchemaNodes
<1>5. CASE n \in FunctionNodes /\ Arity[n] # Unbounded
  <2>1. n \notin SchemaNodes /\ Arity[n] \in Nat BY <1>5, NodesAreDistinct, FunctionsAreFew
  <2>2. n \notin Repeating BY <2>1, SchemasAreTrees
  <2>3. NewInputs(n) = [i \in 1..Arity[n] |-> <<>>] /\ ~Manifold(n)
    BY <1>5, <2>1, <2>2 DEF NewInputs, Manifold
  <2> QED BY <1>1, <2>1, <2>3 DEF Filled, SchemaNodes
<1> QED BY <1>3, <1>4, <1>5 DEF Nodes

LEMMA FilledIsTyped ==
  ASSUME NEW n \in Nodes, NEW a \in Filled(n)
  PROVE  /\ DOMAIN a = DOMAIN NewInputs(n)
         /\ \A i \in DOMAIN a : a[i] \in Seq(InputValues)
         /\ ~Manifold(n) => \A i \in DOMAIN a : Len(a[i]) <= 1
         /\ Manifold(n) => DOMAIN a = 1..1
         /\ n \in SourceNodes => \A i \in DOMAIN a : a[i] = <<>>
  BY Slots DEF Filled

(* A slot may take any values if it is the only one, one of them otherwise. *)
LEMMA SlotWritten ==
  ASSUME NEW n \in Takers, NEW a \in Filled(n), NEW i, NEW s \in Seq(InputValues),
         ~Manifold(n) => Len(s) <= 1
  PROVE  [a EXCEPT ![i] = s] \in Filled(n)
<1> DEFINE b == [a EXCEPT ![i] = s]
<1>1. a \in [DOMAIN NewInputs(n) -> Seq(InputValues)] BY DEF Filled
<1>2. b \in [DOMAIN NewInputs(n) -> Seq(InputValues)] BY <1>1
<1>3. \A j \in DOMAIN NewInputs(n) : b[j] = s \/ b[j] = a[j] BY <1>1
<1>4. ~Manifold(n) => \A j \in DOMAIN NewInputs(n) : Len(b[j]) <= 1 BY <1>3 DEF Filled
<1>5. n \notin SourceNodes BY NodesAreDistinct DEF Takers, SchemaNodes
<1> HIDE DEF b
<1>6. b \in Filled(n) BY <1>2, <1>4, <1>5 DEF Filled
<1> QED BY <1>6 DEF b

LEMMA EntryIsTyped ==
  ASSUME NEW n, NEW e \in EntryOf(n)
  PROVE  /\ e.inputs \in Filled(n) /\ e.outputs \subseteq Nodes
         /\ e = [inputs |-> e.inputs, outputs |-> e.outputs]
  BY DEF EntryOf

SetInputs(C, t, a) == [C EXCEPT ![t].inputs = a]
SetOutputs(C, s, o) == [C EXCEPT ![s].outputs = o]

LEMMA InputsWritten ==
  ASSUME NEW C, IsDict(C), NEW t, NEW a, t \in DOMAIN C => a \in Filled(t)
  PROVE  /\ IsDict(SetInputs(C, t, a)) /\ DOMAIN SetInputs(C, t, a) = DOMAIN C
         /\ \A n \in DOMAIN C : n # t => SetInputs(C, t, a)[n] = C[n]
<1> USE DEF SetInputs
<1> DEFINE D == SetInputs(C, t, a)
<1>1. C = [n \in DOMAIN C |-> C[n]] BY DEF IsDict
<1>2. DOMAIN D = DOMAIN C /\ D = [n \in DOMAIN D |-> D[n]] OBVIOUS
<1>3. \A n \in DOMAIN C : n # t => D[n] = C[n] OBVIOUS
<1>4. ASSUME t \in DOMAIN C PROVE D[t] \in EntryOf(t)
  <2>1. C[t] \in EntryOf(t) BY <1>4 DEF IsDict
  <2>2. D[t] = [C[t] EXCEPT !.inputs = a] BY <1>4
  <2> QED BY <1>4, <2>1, <2>2 DEF EntryOf
<1>5. IsDict(D)
  <2> HIDE DEF D
  <2> QED BY <1>2, <1>3, <1>4 DEF IsDict
<1> QED BY <1>2, <1>3, <1>5

LEMMA OutputsWritten ==
  ASSUME NEW C, IsDict(C), NEW s, NEW o, s \in DOMAIN C => o \subseteq Nodes
  PROVE  /\ IsDict(SetOutputs(C, s, o)) /\ DOMAIN SetOutputs(C, s, o) = DOMAIN C
         /\ \A n \in DOMAIN C : SetOutputs(C, s, o)[n].inputs = C[n].inputs
<1> USE DEF SetOutputs
<1> DEFINE D == SetOutputs(C, s, o)
<1>1. C = [n \in DOMAIN C |-> C[n]] BY DEF IsDict
<1>2. DOMAIN D = DOMAIN C /\ D = [n \in DOMAIN D |-> D[n]] OBVIOUS
<1>3. \A n \in DOMAIN C : n # s => D[n] = C[n] OBVIOUS
<1>4. ASSUME s \in DOMAIN C PROVE D[s] \in EntryOf(s) /\ D[s].inputs = C[s].inputs
  <2>1. C[s] \in EntryOf(s) BY <1>4 DEF IsDict
  <2>2. D[s] = [C[s] EXCEPT !.outputs = o] BY <1>4
  <2> QED BY <1>4, <2>1, <2>2 DEF EntryOf
<1>5. IsDict(D)
  <2> HIDE DEF D
  <2> QED BY <1>2, <1>3, <1>4 DEF IsDict
<1>6. \A n \in DOMAIN C : D[n].inputs = C[n].inputs
  <2> HIDE DEF D
  <2> QED BY <1>3, <1>4
<1> QED BY <1>2, <1>5, <1>6

-----------------------------------------------------------------------------
(* What the helpers of MapConnections do to a dictionary.                  *)

LEMMA WithEntryIsDict ==
  ASSUME NEW C, IsDict(C), NEW n \in Nodes
  PROVE  /\ IsDict(WithEntry(C, n)) /\ DOMAIN WithEntry(C, n) = DOMAIN C \cup {n}
         /\ \A m \in DOMAIN C : WithEntry(C, n)[m] = C[m]
         /\ n \notin DOMAIN C => WithEntry(C, n)[n].inputs = NewInputs(n)
<1> DEFINE D == WithEntry(C, n)
           e == [inputs |-> NewInputs(n), outputs |-> {}]
<1>1. DOMAIN D = DOMAIN C \cup {n} /\ D = [m \in DOMAIN D |-> D[m]] BY DEF WithEntry
<1>2. \A m \in DOMAIN C : D[m] = C[m] BY DEF WithEntry
<1>3. n \notin DOMAIN C => D[n] = e BY DEF WithEntry
<1>4. e \in EntryOf(n) BY Slots DEF EntryOf
<1>5. e.inputs = NewInputs(n) OBVIOUS
<1>6. IsDict(D)
  <2> HIDE DEF D, e
  <2> QED BY <1>1, <1>2, <1>3, <1>4 DEF IsDict
<1> QED
  <2> HIDE DEF e
  <2> QED BY <1>1, <1>2, <1>3, <1>5, <1>6

LEMMA WithoutOutputIsDict ==
  ASSUME NEW C, IsDict(C), NEW s, NEW t
  PROVE  /\ IsDict(WithoutOutput(C, s, t)) /\ DOMAIN WithoutOutput(C, s, t) = DOMAIN C
         /\ \A n \in DOMAIN C : WithoutOutput(C, s, t)[n].inputs = C[n].inputs
<1> DEFINE o == C[s].outputs \ {t}
<1>1. WithoutOutput(C, s, t) = SetOutputs(C, s, o) BY DEF WithoutOutput, SetOutputs
<1>2. s \in DOMAIN C => o \subseteq Nodes BY EntryIsTyped DEF IsDict
<1> HIDE DEF o
<1> QED BY <1>1, <1>2, OutputsWritten

LEMMA WithOutputIsDict ==
  ASSUME NEW C, IsDict(C), NEW s \in Nodes, NEW t \in Nodes
  PROVE  /\ IsDict(WithOutput(C, s, t)) /\ DOMAIN WithOutput(C, s, t) = DOMAIN C \cup {s}
<1> DEFINE E == WithEntry(C, s)
           o == E[s].outputs \cup {t}
<1>1. IsDict(E) /\ DOMAIN E = DOMAIN C \cup {s} BY WithEntryIsDict
<1>2. WithOutput(C, s, t) = SetOutputs(E, s, o) BY DEF WithOutput, SetOutputs
<1> HIDE DEF E
<1>3. o \subseteq Nodes BY <1>1, EntryIsTyped DEF IsDict
<1> HIDE DEF o
<1> QED BY <1>1, <1>2, <1>3, OutputsWritten

LEMMA PutIsSeq ==
  ASSUME NEW seq \in Seq(InputValues), NEW i \in Nat \ {0}, NEW v \in InputValues
  PROVE  /\ Put(seq, i, v) \in Seq(InputValues)
         /\ i = 1 /\ Len(seq) <= 1 => Len(Put(seq, i, v)) <= 1
<1> DEFINE n == IF i <= Len(seq) THEN Len(seq) ELSE i
<1>1. n \in Nat /\ DOMAIN seq \cup (1..i) = 1..n OBVIOUS
<1>2. Empty \in InputValues BY DEF InputValues
<1>3. Put(seq, i, v) \in [1..n -> InputValues] BY <1>1, <1>2 DEF Put
<1>4. i = 1 /\ Len(seq) <= 1 => n <= 1 OBVIOUS
<1> HIDE DEF n
<1>5. Put(seq, i, v) \in Seq(InputValues) /\ Len(Put(seq, i, v)) = n BY <1>1, <1>3
<1> QED BY <1>4, <1>5

LEMMA WithValueIsDict ==
  ASSUME NEW C, IsDict(C), NEW t \in DOMAIN C \cap Takers, NEW i \in Nat \ {0}, NEW v \in InputValues
  PROVE  /\ IsDict(WithValue(C, t, i, v)) /\ DOMAIN WithValue(C, t, i, v) = DOMAIN C
<1> DEFINE a == C[t].inputs
           b == IF Manifold(t) THEN [a EXCEPT ![1] = Put(a[1], i, v)]
                ELSE IF v = Empty THEN [a EXCEPT ![i] = <<>>]
                ELSE [a EXCEPT ![i] = Put(a[i], 1, v)]
<1>1. t \in Nodes /\ t \in Takers /\ a \in Filled(t) BY EntryIsTyped DEF IsDict
<1>2. WithValue(C, t, i, v) = SetInputs(C, t, b) BY DEF WithValue, SetInputs
<1>3. b \in Filled(t)
  <2> HIDE DEF a
  <2>1. CASE Manifold(t)
    <3> DEFINE s == Put(a[1], i, v)
    <3>1. a[1] \in Seq(InputValues) BY <1>1, <2>1, FilledIsTyped
    <3>2. s \in Seq(InputValues) BY <3>1, PutIsSeq
    <3> HIDE DEF s
    <3>3. [a EXCEPT ![1] = s] \in Filled(t) BY <1>1, <2>1, <3>2, SlotWritten
    <3> QED BY <2>1, <3>3 DEF s
  <2>2. CASE ~Manifold(t) /\ v = Empty
    <3>1. <<>> \in Seq(InputValues) /\ Len(<<>>) <= 1 OBVIOUS
    <3> DEFINE s == <<>>
    <3> HIDE DEF s
    <3>2. [a EXCEPT ![i] = s] \in Filled(t) BY <1>1, <3>1, SlotWritten DEF s
    <3> QED BY <2>2, <3>2 DEF s
  <2>3. CASE ~Manifold(t) /\ v # Empty
    <3> DEFINE s == Put(a[i], 1, v)
    <3>1. CASE i \in DOMAIN a
      <4>1. a[i] \in Seq(InputValues) /\ Len(a[i]) <= 1 BY <1>1, <2>3, <3>1, FilledIsTyped
      <4>2. s \in Seq(InputValues) /\ Len(s) <= 1 BY <4>1, PutIsSeq
      <4> HIDE DEF s
      <4>3. [a EXCEPT ![i] = s] \in Filled(t) BY <1>1, <2>3, <4>2, SlotWritten
      <4> QED BY <2>3, <4>3 DEF s
    <3>2. CASE i \notin DOMAIN a
      <4> HIDE DEF s
      <4>1. [a EXCEPT ![i] = s] = a BY <1>1, <3>2 DEF Filled
      <4> QED BY <1>1, <2>3, <4>1 DEF s
    <3> QED BY <3>1, <3>2
  <2> QED BY <2>1, <2>2, <2>3
<1> HIDE DEF b
<1> QED BY <1>2, <1>3, InputsWritten

-----------------------------------------------------------------------------
(* Writing and deleting values.                                            *)

(* A value finds a free slot, if t is a function with several.             *)
Roomy(C, t) ==
  t \in FunctionNodes /\ ~Manifold(t) =>
    LET E == WithEntry(C, t) IN \E i \in DOMAIN E[t].inputs : E[t].inputs[i] = <<>>

LEMMA LeastIsIn ==
  ASSUME NEW S, S \subseteq Nat \ {0}, S # {}
  PROVE  (CHOOSE i \in S : \A j \in S : i <= j) \in Nat \ {0}
  BY LeastNumber

LEMMA OpenFieldIsField ==
  ASSUME NEW C, IsDict(C), NEW t \in DOMAIN C,
         t \in FunctionNodes /\ ~Manifold(t) => \E i \in DOMAIN C[t].inputs : C[t].inputs[i] = <<>>
  PROVE  OpenField(C, t) \in Nat \ {0}
<1> DEFINE a == C[t].inputs
           free == {i \in DOMAIN a[1] : a[1][i] = Empty}
           open == {i \in DOMAIN a : a[i] = <<>>}
<1>1. t \in Nodes /\ a \in Filled(t) BY EntryIsTyped DEF IsDict
<1>2. Manifold(t) => a[1] \in Seq(InputValues) BY <1>1, FilledIsTyped
<1>3. CASE t \in Repeating
  <2>1. OpenField(C, t) = Len(a[1]) + 1 BY <1>3 DEF OpenField
  <2>2. Manifold(t) BY <1>3 DEF Manifold
  <2> QED BY <1>2, <2>1, <2>2
<1>4. CASE t \notin Repeating /\ t \in SchemaNodes
  BY <1>4 DEF OpenField
<1>5. CASE t \notin Repeating /\ t \notin SchemaNodes /\ Arity[t] = Unbounded
  <2>1. OpenField(C, t) = IF free = {} THEN Len(a[1]) + 1
                          ELSE CHOOSE i \in free : \A j \in free : i <= j
    BY <1>5 DEF OpenField
  <2>2. Manifold(t) BY <1>1, <1>5 DEF Manifold, Nodes
  <2>3. a[1] \in Seq(InputValues) BY <1>2, <2>2
  <2>4. free \subseteq Nat \ {0} /\ Len(a[1]) + 1 \in Nat \ {0} BY <2>3
  <2> HIDE DEF free, a
  <2> QED BY <2>1, <2>4, LeastIsIn
<1>6. CASE t \notin Repeating /\ t \notin SchemaNodes /\ Arity[t] # Unbounded
  <2>1. t \in FunctionNodes /\ ~Manifold(t) BY <1>1, <1>6 DEF Manifold, Nodes
  <2>2. open # {} BY <2>1
  <2>3. OpenField(C, t) = CHOOSE i \in open : \A j \in open : i <= j
    BY <1>6, <2>2 DEF OpenField
  <2>4. DOMAIN a = 1..Arity[t] /\ Arity[t] \in Nat BY <1>1, <2>1, FilledIsTyped, Slots
  <2>5. open \subseteq Nat \ {0} BY <2>4
  <2> HIDE DEF open, a
  <2> QED BY <2>2, <2>3, <2>5, LeastIsIn
<1> QED BY <1>3, <1>4, <1>5, <1>6

LEMMA ConnectIsDict ==
  ASSUME NEW C, IsDict(C), NEW s \in Givers, NEW t \in Takers, Roomy(C, t)
  PROVE  IsDict(Connect(C, s, t)) /\ DOMAIN C \subseteq DOMAIN Connect(C, s, t)
<1> DEFINE E == WithEntry(C, t)
           i == OpenField(E, t)
           W == WithValue(E, t, i, s)
<1>0. s \in Nodes /\ t \in Nodes BY DEF Givers, Takers, Nodes, SchemaNodes
<1>1. IsDict(E) /\ DOMAIN E = DOMAIN C \cup {t} BY <1>0, WithEntryIsDict
<1>2. i \in Nat \ {0}
  <2>1. t \in FunctionNodes /\ ~Manifold(t) => \E j \in DOMAIN E[t].inputs : E[t].inputs[j] = <<>>
    BY DEF Roomy
  <2> HIDE DEF E
  <2> QED BY <1>1, <2>1, OpenFieldIsField
<1>3. s \in InputValues BY DEF InputValues
<1>4. IsDict(W) /\ DOMAIN W = DOMAIN E
  <2> HIDE DEF E, i
  <2> QED BY <1>1, <1>2, <1>3, WithValueIsDict
<1>5. Connect(C, s, t) = WithOutput(W, s, t) BY DEF Connect
<1>6. IsDict(WithOutput(W, s, t)) /\ DOMAIN WithOutput(W, s, t) = DOMAIN W \cup {s}
  <2> HIDE DEF W
  <2> QED BY <1>0, <1>4, WithOutputIsDict
<1> HIDE DEF W, E
<1> QED BY <1>1, <1>4, <1>5, <1>6

LEMMA SetValueIsDict ==
  ASSUME NEW C, IsDict(C), NEW t \in Takers, NEW i \in Nat \ {0}, NEW v \in InputValues
  PROVE  IsDict(SetValue(C, t, i, v)) /\ DOMAIN C \subseteq DOMAIN SetValue(C, t, i, v)
<1> DEFINE old == Held(C, t, i)
           freed == IF old \in Nodes THEN WithoutOutput(C, old, t) ELSE C
           E == WithEntry(freed, t)
           W == WithValue(E, t, i, v)
<1>0. t \in Nodes BY DEF Takers, Nodes, SchemaNodes
<1>1. IsDict(freed) /\ DOMAIN freed = DOMAIN C
  <2> HIDE DEF old
  <2> QED BY WithoutOutputIsDict
<1>2. SetValue(C, t, i, v) = IF v \in Nodes THEN WithOutput(W, v, t) ELSE W BY DEF SetValue
<1>3. IsDict(E) /\ DOMAIN E = DOMAIN C \cup {t}
  <2> HIDE DEF freed
  <2> QED BY <1>0, <1>1, WithEntryIsDict
<1>4. IsDict(W) /\ DOMAIN W = DOMAIN E
  <2> HIDE DEF E
  <2> QED BY <1>3, WithValueIsDict
<1>5. v \in Nodes => IsDict(WithOutput(W, v, t)) /\ DOMAIN WithOutput(W, v, t) = DOMAIN W \cup {v}
  <2> HIDE DEF W
  <2> QED BY <1>0, <1>4, WithOutputIsDict
<1> HIDE DEF W, E
<1> QED BY <1>2, <1>3, <1>4, <1>5

LEMMA RemoveFieldIsDict ==
  ASSUME NEW C, IsDict(C), NEW t \in DOMAIN C \cap Takers, Manifold(t), NEW i \in Fields(C, t)
  PROVE  IsDict(RemoveField(C, t, i)) /\ DOMAIN RemoveField(C, t, i) = DOMAIN C
<1> DEFINE old == Held(C, t, i)
           freed == IF old \in Nodes THEN WithoutOutput(C, old, t) ELSE C
           a == freed[t].inputs
           s == WithoutField(a[1], i)
           b == [a EXCEPT ![1] = s]
<1>1. /\ IsDict(freed) /\ DOMAIN freed = DOMAIN C
      /\ \A n \in DOMAIN C : freed[n].inputs = C[n].inputs
  <2> HIDE DEF old
  <2> QED BY WithoutOutputIsDict
<1>2. RemoveField(C, t, i) = SetInputs(freed, t, b)
  <2>1. RemoveField(C, t, i) = [freed EXCEPT ![t].inputs[1] = WithoutField(@, i)] BY DEF RemoveField
  <2> HIDE DEF freed
  <2> QED BY <2>1 DEF SetInputs
<1>3. t \in Nodes /\ a \in Filled(t) /\ a = C[t].inputs
  <2> HIDE DEF freed
  <2> QED BY <1>1, EntryIsTyped DEF IsDict
<1>4. a[1] \in Seq(InputValues) BY <1>3, FilledIsTyped
<1>5. i \in DOMAIN a[1] BY <1>3 DEF Fields
<1>6. s \in Seq(InputValues)
  <2> DEFINE q == a[1]
  <2>1. q \in Seq(InputValues) /\ i \in 1..Len(q) BY <1>4, <1>5
  <2>2. s = SubSeq(q, 1, i - 1) \o SubSeq(q, i + 1, Len(q)) BY DEF WithoutField
  <2> HIDE DEF q, s
  <2>3. SubSeq(q, 1, i - 1) \in Seq(InputValues) /\ SubSeq(q, i + 1, Len(q)) \in Seq(InputValues)
    BY <2>1
  <2> QED BY <2>2, <2>3
<1> HIDE DEF s, a
<1>7. b \in Filled(t) BY <1>3, <1>6, SlotWritten
<1> HIDE DEF b, freed
<1> QED BY <1>1, <1>2, <1>7, InputsWritten

-----------------------------------------------------------------------------
(* Deleting.                                                               *)

(* Steps down to 0 end. *)
LEMMA CountingDescends ==
  ASSUME NEW n \in Nat
  PROVE  Descends(0..n, {0}, [i \in 1..n |-> i - 1])
<1> DEFINE down == [i \in 1..n |-> i - 1]
<1>1. \A x \in (0..n) \ {0} : down[x] \in 0..n OBVIOUS
<1>2. ASSUME NEW T \in SUBSET (0..n), T # {}
      PROVE  \E x \in T : x \in {0} \/ down[x] \notin T
  <2>1. T \subseteq Nat BY <1>2
  <2>2. PICK x \in T : \A y \in T : x <= y BY <1>2, <2>1, LeastNumber
  <2>3. x # 0 => down[x] = x - 1 BY <2>1
  <2>4. x # 0 => x - 1 < x BY <2>1
  <2> HIDE DEF down
  <2> QED BY <2>1, <2>2, <2>3, <2>4
<1> HIDE DEF down
<1>3. Descends(0..n, {0}, down) BY <1>1, <1>2 DEF Descends
<1> QED BY <1>3 DEF down

LEMMA AllButIsSeq ==
  ASSUME NEW S, NEW seq \in Seq(S), NEW v
  PROVE  AllBut(seq, v) \in Seq(S) /\ Len(AllBut(seq, v)) <= Len(seq)
<1> DEFINE n == Len(seq)
           D == 0..n
           down == [i \in 1..n |-> i - 1]
           step == [p \in D \X Seq(S) |-> IF seq[p[1]] = v THEN p[2] ELSE Append(p[2], seq[p[1]])]
           V == [i \in D |-> {s \in Seq(S) : Len(s) <= i}]
           IsIt(f) == f = [i \in D |-> IF i = 0 THEN <<>>
                             ELSE IF seq[i] = v THEN f[i - 1] ELSE Append(f[i - 1], seq[i])]
           r == CHOOSE f : IsIt(f)
<1>1. n \in Nat /\ \A i \in D \ {0} : i \in 1..n /\ seq[i] \in S /\ down[i] = i - 1 /\ i - 1 \in D OBVIOUS
<1>2. Descends(D, {0}, down) BY <1>1, CountingDescends
<1>3. \A x \in D \cap {0} : <<>> \in V[x] OBVIOUS
<1>4. ASSUME NEW x \in D \ {0}, NEW s \in V[down[x]] PROVE step[<<x, s>>] \in V[x]
  <2>1. s \in Seq(S) /\ Len(s) <= x - 1 BY <1>1
  <2>2. step[<<x, s>>] = IF seq[x] = v THEN s ELSE Append(s, seq[x]) BY <2>1
  <2>3. Append(s, seq[x]) \in Seq(S) /\ Len(Append(s, seq[x])) = Len(s) + 1 BY <1>1, <2>1
  <2> HIDE DEF step
  <2> QED BY <1>1, <2>1, <2>2, <2>3
<1>5. PICK f : Solves(f, D, {0}, <<>>, down, step) /\ \A x \in D : f[x] \in V[x]
  <2> HIDE DEF D, V, down, step
  <2> QED BY <1>2, <1>3, <1>4, RecursionHasSolution
<1>6. IsIt(f)
  <2>1. f = [i \in D |-> IF i \in {0} THEN <<>> ELSE step[<<i, f[down[i]]>>]] BY <1>5 DEF Solves
  <2>2. \A i \in D \ {0} : down[i] = i - 1 /\ f[i - 1] \in Seq(S) BY <1>1, <1>5
  <2>3. \A i \in D \ {0} : step[<<i, f[down[i]]>>]
                           = IF seq[i] = v THEN f[i - 1] ELSE Append(f[i - 1], seq[i])
    <3> TAKE i \in D \ {0}
    <3> HIDE DEF down
    <3>2. \A z \in Seq(S) : step[<<i, z>>] = IF seq[i] = v THEN z ELSE Append(z, seq[i]) OBVIOUS
    <3> HIDE DEF step
    <3> QED BY <2>2, <3>2
  <2> HIDE DEF D, V, down, step
  <2> QED BY <2>1, <2>3
<1>7. IsIt(r)
  <2> HIDE DEF IsIt
  <2> QED BY <1>6
<1>8. AllBut(seq, v) = r[n] BY DEF AllBut
<1> HIDE DEF r
<1>9. \A x \in D : r[x] \in V[x]
  <2>1. \A x \in D \cap {0} : r[x] \in V[x]
    <3>1. \A x \in D \cap {0} : r[x] = <<>> BY <1>7
    <3> QED BY <1>3, <3>1
  <2>2. ASSUME NEW x \in D \ {0}, r[down[x]] \in V[down[x]] PROVE r[x] \in V[x]
    <3>1. r[x] = IF seq[x] = v THEN r[x - 1] ELSE Append(r[x - 1], seq[x]) BY <1>7
    <3>2. r[x - 1] \in Seq(S) /\ Len(r[x - 1]) <= x - 1 BY <1>1, <2>2
    <3>3. Append(r[x - 1], seq[x]) \in Seq(S) /\ Len(Append(r[x - 1], seq[x])) = Len(r[x - 1]) + 1
      BY <1>1, <3>2
    <3> QED BY <1>1, <3>1, <3>2, <3>3
  <2> HIDE DEF D, V, down
  <2> QED BY <1>2, <2>1, <2>2, Inherited
<1>10. r[n] \in V[n] /\ n \in D BY <1>1, <1>9
<1> QED BY <1>8, <1>10

(* The slots of n without v. *)
LEMMA FilteredIsFilled ==
  ASSUME NEW n \in Nodes, NEW a \in Filled(n), NEW v
  PROVE  [j \in DOMAIN a |-> AllBut(a[j], v)] \in Filled(n)
<1> DEFINE b == [j \in DOMAIN a |-> AllBut(a[j], v)]
<1>1. DOMAIN a = DOMAIN NewInputs(n) /\ \A i \in DOMAIN a : a[i] \in Seq(InputValues)
  BY FilledIsTyped
<1>2. \A i \in DOMAIN a : b[i] \in Seq(InputValues) /\ Len(b[i]) <= Len(a[i]) BY <1>1, AllButIsSeq
<1>3. /\ ~Manifold(n) => \A i \in DOMAIN a : Len(b[i]) <= 1
      /\ n \in SourceNodes => \A i \in DOMAIN a : b[i] = <<>>
  <2>1. \A i \in DOMAIN a : Len(a[i]) \in Nat /\ Len(b[i]) \in Nat BY <1>1, <1>2
  <2>2. ~Manifold(n) => \A i \in DOMAIN a : Len(a[i]) <= 1 BY FilledIsTyped
  <2>3. n \in SourceNodes => \A i \in DOMAIN a : a[i] = <<>> BY FilledIsTyped
  <2> HIDE DEF b
  <2>4. n \in SourceNodes => \A i \in DOMAIN a : Len(b[i]) = 0 BY <1>2, <2>1, <2>3
  <2> QED BY <1>2, <2>1, <2>2, <2>4
<1>4. b \in [DOMAIN NewInputs(n) -> Seq(InputValues)] BY <1>1, <1>2
<1> HIDE DEF b
<1>5. b \in Filled(n) BY <1>1, <1>3, <1>4 DEF Filled
<1> QED BY <1>5 DEF b

LEMMA DisconnectIsDict ==
  ASSUME NEW C, IsDict(C), NEW s, NEW t, NEW i
  PROVE  /\ IsDict(Disconnect(C, s, t, i)) /\ DOMAIN Disconnect(C, s, t, i) = DOMAIN C
         /\ \A n \in DOMAIN C : n # t => Disconnect(C, s, t, i)[n].inputs = C[n].inputs
<1> DEFINE cut == WithoutOutput(C, s, t)
           a == cut[t].inputs
           q == [j \in DOMAIN a[1] |-> IF a[1][j] = s /\ i \in {0, j} THEN Empty ELSE a[1][j]]
           b == IF t \in FunctionNodes /\ Arity[t] = Unbounded THEN [a EXCEPT ![1] = q]
                ELSE [j \in DOMAIN a |-> AllBut(a[j], s)]
<1>1. /\ IsDict(cut) /\ DOMAIN cut = DOMAIN C
      /\ \A n \in DOMAIN C : cut[n].inputs = C[n].inputs
  BY WithoutOutputIsDict
<1>2. Disconnect(C, s, t, i) = SetInputs(cut, t, b)
  <2>1. Disconnect(C, s, t, i) =
          IF t \in FunctionNodes /\ Arity[t] = Unbounded
          THEN [cut EXCEPT ![t].inputs[1] = q]
          ELSE [cut EXCEPT ![t].inputs = [j \in DOMAIN a |-> AllBut(a[j], s)]]
    BY DEF Disconnect
  <2> HIDE DEF cut, q
  <2> QED BY <2>1 DEF SetInputs
<1>3. ASSUME t \in DOMAIN cut PROVE b \in Filled(t)
  <2> HIDE DEF cut
  <2>1. t \in Nodes /\ a \in Filled(t) BY <1>1, <1>3, EntryIsTyped DEF IsDict
  <2> HIDE DEF a
  <2>2. CASE t \in FunctionNodes /\ Arity[t] = Unbounded
    <3>1. Manifold(t) BY <2>2 DEF Manifold
    <3>2. a[1] \in Seq(InputValues) BY <2>1, <3>1, FilledIsTyped
    <3>3. Empty \in InputValues BY DEF InputValues
    <3>4. q \in Seq(InputValues) BY <3>2, <3>3
    <3> HIDE DEF q
    <3>5. t \in Takers BY <2>2 DEF Takers
    <3>6. [a EXCEPT ![1] = q] \in Filled(t) BY <2>1, <3>1, <3>4, <3>5, SlotWritten
    <3> QED BY <2>2, <3>6
  <2>3. CASE ~(t \in FunctionNodes /\ Arity[t] = Unbounded)
    <3>1. [j \in DOMAIN a |-> AllBut(a[j], s)] \in Filled(t) BY <2>1, FilteredIsFilled
    <3> QED BY <2>3, <3>1
  <2> QED BY <2>2, <2>3
<1> HIDE DEF b, cut
<1>4. IsDict(SetInputs(cut, t, b)) /\ DOMAIN SetInputs(cut, t, b) = DOMAIN cut
  BY <1>1, <1>3, InputsWritten
<1>5. \A n \in DOMAIN cut : n # t => SetInputs(cut, t, b)[n] = cut[n]
  BY <1>1, <1>3, InputsWritten
<1> QED BY <1>1, <1>2, <1>4, <1>5

LEMMA WithoutIsDict ==
  ASSUME NEW C, IsDict(C), NEW n
  PROVE  IsDict(Without(C, n)) /\ DOMAIN Without(C, n) = DOMAIN C \ {n}
<1> DEFINE Inputs(m) == IF m \in C[n].outputs
                        THEN [j \in DOMAIN C[m].inputs |-> AllBut(C[m].inputs[j], n)]
                        ELSE C[m].inputs
           Outputs(m) == IF m \in Named(C, n) THEN C[m].outputs \ {n} ELSE C[m].outputs
           W == [m \in DOMAIN C \ {n} |-> [inputs |-> Inputs(m), outputs |-> Outputs(m)]]
<1>1. Without(C, n) = IF n \in DOMAIN C THEN W ELSE C BY DEF Without
<1>2. ASSUME NEW m \in DOMAIN C PROVE Inputs(m) \in Filled(m) /\ Outputs(m) \subseteq Nodes
  <2>1. m \in Nodes /\ C[m].inputs \in Filled(m) /\ C[m].outputs \subseteq Nodes
    BY EntryIsTyped DEF IsDict
  <2> QED BY <2>1, FilteredIsFilled
<1> HIDE DEF Inputs, Outputs
<1>3. IsDict(W)
  <2>1. DOMAIN W = DOMAIN C \ {n} /\ W = [m \in DOMAIN W |-> W[m]] OBVIOUS
  <2>2. \A m \in DOMAIN W : W[m] \in EntryOf(m) BY <1>2 DEF EntryOf
  <2> HIDE DEF W
  <2> QED BY <2>1, <2>2 DEF IsDict
<1>4. DOMAIN W = DOMAIN C \ {n} OBVIOUS
<1> HIDE DEF W
<1> QED BY <1>1, <1>3, <1>4

-----------------------------------------------------------------------------
(* Paths in a schema.                                                      *)

(* What a path up from n is known for: it stays in the schema of n and     *)
(* holds the parents of what it holds.                                     *)
PathsFrom(n) ==
  {p \in Seq(SchemaNodes) :
     /\ IF n = NoNode THEN p = <<>> ELSE n \in Elements(p)
     /\ \A S \in {SourceNodes, TargetNodes} : n \in S => Elements(p) \subseteq S
     /\ \A m \in Elements(p) : ParentOf[m] \in Elements(p) \cup {NoNode}}

LEMMA ElementsOfPath ==
  ASSUME NEW S, NEW p \in Seq(S), NEW n \in S
  PROVE  /\ <<n>> \o p \in Seq(S) /\ Elements(<<n>> \o p) = {n} \cup Elements(p)
<1> DEFINE q == <<n>> \o p
<1>1. /\ q \in Seq(S) /\ Len(q) = Len(p) + 1 /\ q[1] = n
      /\ \A i \in 1..Len(p) : q[i + 1] = p[i]
  OBVIOUS
<1> HIDE DEF q
<1>2. DOMAIN q = 1..(Len(p) + 1) /\ DOMAIN p = 1..Len(p) /\ Len(p) \in Nat BY <1>1
<1>3. \A m : m \in Elements(q) <=> m = n \/ m \in Elements(p)
  <2> TAKE m
  <2>1. ASSUME NEW i \in DOMAIN q, q[i] = m PROVE m = n \/ m \in Elements(p)
    <3>1. CASE i = 1 BY <1>1, <2>1, <3>1
    <3>2. CASE i # 1
      <4>1. i - 1 \in 1..Len(p) /\ i = (i - 1) + 1 BY <1>2, <3>2
      <4> QED BY <1>1, <1>2, <2>1, <4>1 DEF Elements
    <3> QED BY <3>1, <3>2
  <2>2. n \in Elements(q) BY <1>1, <1>2 DEF Elements
  <2>3. ASSUME NEW i \in DOMAIN p, p[i] = m PROVE m \in Elements(q)
    <3>1. i + 1 \in DOMAIN q /\ q[i + 1] = m BY <1>1, <1>2, <2>3
    <3> QED BY <3>1 DEF Elements
  <2> QED BY <2>1, <2>2, <2>3 DEF Elements
<1>4. Elements(q) = {n} \cup Elements(p) BY <1>3
<1> QED BY <1>1, <1>4 DEF q

LEMMA ParentsDescend == Descends(SchemaNodes \cup {NoNode}, {NoNode}, ParentOf)
<1>1. NoNode \notin SchemaNodes BY NodesAreDistinct DEF Nodes
<1>2. \A n \in SchemaNodes : ParentOf[n] \in SchemaNodes \cup {NoNode} BY SchemasAreTrees
<1>3. ASSUME NEW T \in SUBSET (SchemaNodes \cup {NoNode}), T # {}, NoNode \notin T
      PROVE  \E n \in T : ParentOf[n] \notin T
  <2>1. T \in SUBSET SchemaNodes BY <1>3
  <2> QED BY <1>3, <2>1, SchemasAreTrees
<1> QED BY <1>1, <1>2, <1>3 DEF Descends

LEMMA PathUpEquation ==
  /\ PathUp[NoNode] = <<>>
  /\ \A n \in SchemaNodes : PathUp[n] = <<n>> \o PathUp[ParentOf[n]]
  /\ \A n \in SchemaNodes \cup {NoNode} : PathUp[n] \in PathsFrom(n)
<1> DEFINE D == SchemaNodes \cup {NoNode}
           step == [p \in D \X Seq(SchemaNodes) |-> <<p[1]>> \o p[2]]
           V == [n \in D |-> PathsFrom(n)]
           IsIt(f) == f = [n \in D |-> IF n = NoNode THEN <<>> ELSE <<n>> \o f[ParentOf[n]]]
           r == CHOOSE f : IsIt(f)
<1>1. NoNode \notin SchemaNodes /\ \A n \in D \ {NoNode} : n \in SchemaNodes /\ ParentOf[n] \in D
  BY NodesAreDistinct, SchemasAreTrees DEF Nodes
<1>2. Descends(D, {NoNode}, ParentOf) BY ParentsDescend
<1>3. <<>> \in PathsFrom(NoNode)
  <2>1. <<>> \in Seq(SchemaNodes) /\ Elements(<<>>) = {} BY DEF Elements
  <2> QED BY <1>1, <2>1 DEF PathsFrom, SchemaNodes
<1>4. ASSUME NEW n \in D \ {NoNode}, NEW p \in PathsFrom(ParentOf[n])
      PROVE  <<n>> \o p \in PathsFrom(n)
  <2> DEFINE q == <<n>> \o p
  <2>1. n \in SchemaNodes /\ n # NoNode /\ p \in Seq(SchemaNodes) BY <1>1 DEF PathsFrom
  <2>2. q \in Seq(SchemaNodes) /\ Elements(q) = {n} \cup Elements(p) BY <2>1, ElementsOfPath
  <2>3. ParentOf[n] = NoNode => Elements(p) = {} BY DEF PathsFrom, Elements
  <2>4. ParentOf[n] # NoNode => ParentOf[n] \in Elements(p) BY DEF PathsFrom
  <2>5. \A S \in {SourceNodes, TargetNodes} : n \in S => Elements(p) \subseteq S
    <3>1. \A S \in {SourceNodes, TargetNodes} : n \in S => ParentOf[n] \in S \cup {NoNode}
      BY SchemasAreTrees
    <3> QED BY <2>3, <3>1 DEF PathsFrom
  <2>6. \A m \in Elements(p) : ParentOf[m] \in Elements(p) \cup {NoNode} BY DEF PathsFrom
  <2> HIDE DEF q
  <2>7. q \in PathsFrom(n) BY <2>1, <2>2, <2>4, <2>5, <2>6 DEF PathsFrom
  <2> QED BY <2>7 DEF q
<1>5. \A n \in D : V[n] = PathsFrom(n) /\ V[n] \subseteq Seq(SchemaNodes) BY DEF PathsFrom
<1>6. \A n \in D \ {NoNode}, p \in Seq(SchemaNodes) : step[<<n, p>>] = <<n>> \o p OBVIOUS
<1>7. PICK f : Solves(f, D, {NoNode}, <<>>, ParentOf, step) /\ \A n \in D : f[n] \in V[n]
  <2>1. \A n \in D \cap {NoNode} : <<>> \in V[n] BY <1>3, <1>5
  <2>2. \A n \in D \ {NoNode} : \A p \in V[ParentOf[n]] : step[<<n, p>>] \in V[n]
    <3> HIDE DEF D, V, step
    <3> TAKE n \in D \ {NoNode}
    <3> TAKE p \in V[ParentOf[n]]
    <3>1. ParentOf[n] \in D /\ n \in D BY <1>1
    <3>2. p \in PathsFrom(ParentOf[n]) /\ p \in Seq(SchemaNodes) BY <1>5, <3>1
    <3>3. <<n>> \o p \in PathsFrom(n) BY <1>4, <3>2
    <3> QED BY <1>5, <1>6, <3>1, <3>2, <3>3
  <2> HIDE DEF D, V, step
  <2> QED BY <1>2, <2>1, <2>2, RecursionHasSolution
<1>8. IsIt(f)
  <2>1. f = [n \in D |-> IF n \in {NoNode} THEN <<>> ELSE step[<<n, f[ParentOf[n]]>>]]
    BY <1>7 DEF Solves
  <2>2. \A n \in D \ {NoNode} : f[ParentOf[n]] \in Seq(SchemaNodes) BY <1>1, <1>5, <1>7
  <2> HIDE DEF step, V, D
  <2> QED BY <1>6, <2>1, <2>2
<1>9. IsIt(r)
  <2> HIDE DEF IsIt
  <2> QED BY <1>8
<1>10. PathUp = r BY DEF PathUp
<1> HIDE DEF r
<1>11. PathUp[NoNode] = <<>> /\ \A n \in D \ {NoNode} : PathUp[n] = <<n>> \o PathUp[ParentOf[n]]
  BY <1>9, <1>10
<1>12. \A n \in D : PathUp[n] \in V[n]
  <2>1. \A n \in D \cap {NoNode} : PathUp[n] \in V[n] BY <1>3, <1>5, <1>11
  <2>2. \A n \in D \ {NoNode} : PathUp[ParentOf[n]] \in V[ParentOf[n]] => PathUp[n] \in V[n]
    <3> HIDE DEF D, V
    <3> SUFFICES ASSUME NEW n \in D \ {NoNode}, PathUp[ParentOf[n]] \in V[ParentOf[n]]
                 PROVE  PathUp[n] \in V[n]
      OBVIOUS
    <3>1. ParentOf[n] \in D /\ n \in D BY <1>1
    <3>2. PathUp[ParentOf[n]] \in PathsFrom(ParentOf[n]) BY <1>5, <3>1
    <3>3. <<n>> \o PathUp[ParentOf[n]] \in PathsFrom(n) BY <1>4, <3>2
    <3> QED BY <1>5, <1>11, <3>1, <3>3
  <2> HIDE DEF D, V
  <2> QED BY <1>2, <2>1, <2>2, Inherited
<1>13. \A n \in SchemaNodes : n \in D \ {NoNode} BY <1>1
<1> QED BY <1>5, <1>11, <1>12, <1>13

(* n and its ancestors, as a set *)
On(n) == Elements(PathUp[n])

LEMMA PathIsClosed ==
  ASSUME NEW n \in SchemaNodes \cup {NoNode}
  PROVE  /\ PathUp[n] \in Seq(SchemaNodes)
         /\ \A S \in {SourceNodes, TargetNodes} : n \in S => On(n) \subseteq S
         /\ \A m \in On(n) : ParentOf[m] \in On(n) \cup {NoNode}
         /\ IF n = NoNode THEN On(n) = {} ELSE n \in On(n) /\ On(n) = {n} \cup On(ParentOf[n])
<1>1. PathUp[n] \in PathsFrom(n) BY PathUpEquation
<1>2. n = NoNode => On(n) = {} BY PathUpEquation DEF On, Elements
<1>3. ASSUME n # NoNode PROVE On(n) = {n} \cup On(ParentOf[n])
  <2>1. n \in SchemaNodes /\ ParentOf[n] \in SchemaNodes \cup {NoNode} BY <1>3, SchemasAreTrees
  <2>2. PathUp[ParentOf[n]] \in Seq(SchemaNodes) BY <2>1, PathUpEquation DEF PathsFrom
  <2>3. PathUp[n] = <<n>> \o PathUp[ParentOf[n]] BY <2>1, PathUpEquation
  <2> QED BY <2>1, <2>2, <2>3, ElementsOfPath DEF On
<1> QED BY <1>1, <1>2, <1>3 DEF PathsFrom, On

LEMMA AncestorsAreWithin ==
  ASSUME NEW S \in {SourceNodes, TargetNodes}, NEW n \in S
  PROVE  Ancestors(n) \subseteq S
<1>1. n \in SchemaNodes BY DEF SchemaNodes
<1>2. PathUp[n] \in Seq(SchemaNodes) /\ On(n) \subseteq S BY <1>1, PathIsClosed
<1>3. \A i \in 2..Len(PathUp[n]) : i \in DOMAIN PathUp[n] BY <1>2
<1> QED BY <1>2, <1>3 DEF Ancestors, On, Elements

LEMMA ArrayIsOnPath ==
  ASSUME NEW n \in SchemaNodes \cup {NoNode}
  PROVE  ArrayOf(n) = NoNode \/ ArrayOf(n) \in On(n) \cap Repeating
<1> DEFINE arrays == {i \in DOMAIN PathUp[n] : PathUp[n][i] \in Repeating}
           i == CHOOSE i \in arrays : \A j \in arrays : i <= j
<1>1. ArrayOf(n) = IF arrays = {} THEN NoNode ELSE PathUp[n][i] BY DEF ArrayOf
<1>2. PathUp[n] \in Seq(SchemaNodes) BY PathIsClosed
<1>3. arrays \subseteq Nat BY <1>2
<1>4. arrays # {} => i \in arrays
  <2> HIDE DEF arrays
  <2> QED BY <1>3, LeastNumber
<1> HIDE DEF i
<1> QED BY <1>1, <1>4 DEF On, Elements

-----------------------------------------------------------------------------
(* The arrays around both ends of a connection.                            *)

Pairs == SourceNodes \X TargetNodes
ArrayEnds == (SourceNodes \cap Repeating) \X TargetNodes
NoOuter == {p \in Pairs : ParentOf[p[1]] = NoNode \/ ArrayOf(p[1]) = NoNode \/ ArrayOf(p[2]) = NoNode}
Above(t) == IF ArrayOf(ParentOf[t]) = NoNode THEN t ELSE ParentOf[t]
Outer == [p \in Pairs |-> <<ParentOf[ArrayOf(p[1])], Above(ArrayOf(p[2]))>>]

LEMMA ArraysOfPair ==
  ASSUME NEW s \in SourceNodes, NEW t \in TargetNodes
  PROVE  /\ s \in SchemaNodes /\ t \in SchemaNodes
         /\ ArrayOf(s) # NoNode => /\ ArrayOf(s) \in SourceNodes \cap On(s) /\ ArrayOf(s) \in Repeating
                                   /\ ParentOf[ArrayOf(s)] \in SourceNodes \cap On(s)
                                   /\ ParentOf[ArrayOf(s)] # NoNode
         /\ ArrayOf(t) # NoNode => ArrayOf(t) \in TargetNodes /\ Above(ArrayOf(t)) \in TargetNodes
<1>1. s \in SchemaNodes /\ t \in SchemaNodes BY DEF SchemaNodes
<1>2. /\ On(s) \subseteq SourceNodes /\ On(t) \subseteq TargetNodes
      /\ \A m \in On(s) : ParentOf[m] \in On(s) \cup {NoNode}
  BY <1>1, PathIsClosed
<1>3. /\ ArrayOf(s) # NoNode => ArrayOf(s) \in On(s) \cap Repeating
      /\ ArrayOf(t) # NoNode => ArrayOf(t) \in On(t) \cap Repeating
  BY <1>1, ArrayIsOnPath
<1>4. \A n \in Repeating : ParentOf[n] # NoNode BY SchemasAreTrees
<1>5. \A n \in TargetNodes : ParentOf[n] \in TargetNodes \cup {NoNode} BY SchemasAreTrees
<1> QED BY <1>1, <1>2, <1>3, <1>4, <1>5 DEF Above

LEMMA OuterDescends == Descends(Pairs, NoOuter, Outer)
<1>1. ASSUME NEW p \in Pairs \ NoOuter PROVE Outer[p] \in Pairs
  <2>1. p[1] \in SourceNodes /\ p[2] \in TargetNodes BY DEF Pairs
  <2>2. ArrayOf(p[1]) # NoNode /\ ArrayOf(p[2]) # NoNode BY <1>1 DEF NoOuter
  <2>3. Outer[p] = <<ParentOf[ArrayOf(p[1])], Above(ArrayOf(p[2]))>> BY DEF Outer
  <2> QED BY <2>1, <2>2, <2>3, ArraysOfPair DEF Pairs
<1>2. ASSUME NEW T \in SUBSET Pairs, T # {}
      PROVE  \E p \in T : p \in NoOuter \/ Outer[p] \notin T
  <2> DEFINE Q == {n \in SchemaNodes : \E p \in T : p[1] \in On(n)}
  <2>1. \A p \in T : p[1] \in SourceNodes /\ p[2] \in TargetNodes BY DEF Pairs
  <2>2. \A n \in SchemaNodes : n # NoNode BY NodesAreDistinct DEF Nodes
  <2>3. Q # {}
    <3>1. PICK p \in T : TRUE BY <1>2
    <3>2. p[1] \in SchemaNodes BY <2>1 DEF SchemaNodes
    <3>3. p[1] \in On(p[1]) BY <2>2, <3>2, PathIsClosed
    <3> QED BY <3>2, <3>3
  <2>4. PICK n \in Q : ParentOf[n] \notin Q BY <2>3, SchemasAreTrees
  <2>5. n \in SchemaNodes /\ ParentOf[n] \in SchemaNodes \cup {NoNode} BY SchemasAreTrees
  <2>6. On(n) = {n} \cup On(ParentOf[n]) BY <2>2, <2>5, PathIsClosed
  <2>7. \A p \in T : p[1] \notin On(ParentOf[n])
    <3>1. ParentOf[n] = NoNode => On(ParentOf[n]) = {} BY PathIsClosed
    <3> QED BY <2>4, <2>5, <3>1
  <2>8. PICK p \in T : p[1] = n BY <2>6, <2>7
  <2>9. SUFFICES ASSUME p \notin NoOuter PROVE Outer[p] \notin T OBVIOUS
  <2>10. /\ ArrayOf(n) # NoNode /\ ParentOf[n] # NoNode
         /\ Outer[p][1] = ParentOf[ArrayOf(n)] /\ n \in SourceNodes
    BY <2>1, <2>8, <2>9 DEF NoOuter, Outer, Pairs
  <2>11. ArrayOf(n) \in On(n) /\ ParentOf[ArrayOf(n)] # NoNode
    <3>1. ArrayOf(n) \in On(n) \cap Repeating BY <2>5, <2>10, ArrayIsOnPath
    <3> QED BY <3>1, SchemasAreTrees
  <2>12. ParentOf[ArrayOf(n)] \in On(ParentOf[n])
    <3>1. CASE ArrayOf(n) = n
      <4>1. ParentOf[n] \in SchemaNodes BY <2>5, <2>10
      <4> QED BY <2>10, <3>1, <4>1, PathIsClosed
    <3>2. CASE ArrayOf(n) # n
      <4>1. ArrayOf(n) \in On(ParentOf[n]) BY <2>6, <2>11, <3>2
      <4> QED BY <2>5, <2>11, <4>1, PathIsClosed
    <3> QED BY <3>1, <3>2
  <2> QED BY <2>7, <2>10, <2>12
<1> QED BY <1>1, <1>2 DEF Descends

LEMMA ArrayPairsAreTyped ==
  ASSUME NEW p \in Pairs
  PROVE  ArrayPairs[p] \in Seq(ArrayEnds)
<1> DEFINE step == [q \in Pairs \X Seq(ArrayEnds) |-> <<<<ArrayOf(q[1][1]), ArrayOf(q[1][2])>>>> \o q[2]]
           V == [q \in Pairs |-> Seq(ArrayEnds)]
           IsIt(f) ==
             f = [q \in SourceNodes \X TargetNodes |->
                    LET s == ArrayOf(q[1])
                        t == ArrayOf(q[2])
                        above == IF ArrayOf(ParentOf[t]) = NoNode THEN t ELSE ParentOf[t]
                    IN  IF ParentOf[q[1]] = NoNode \/ s = NoNode \/ t = NoNode THEN <<>>
                        ELSE <<<<s, t>>>> \o f[<<ParentOf[s], above>>]]
           IsPlain(f) ==
             f = [q \in Pairs |-> IF q \in NoOuter THEN <<>>
                                  ELSE <<<<ArrayOf(q[1]), ArrayOf(q[2])>>>> \o f[Outer[q]]]
           r == CHOOSE f : IsIt(f)
<1>1. \A f : IsIt(f) <=> IsPlain(f)
  <2> TAKE f
  <2> DEFINE a == [q \in SourceNodes \X TargetNodes |->
                    LET s == ArrayOf(q[1])
                        t == ArrayOf(q[2])
                        above == IF ArrayOf(ParentOf[t]) = NoNode THEN t ELSE ParentOf[t]
                    IN  IF ParentOf[q[1]] = NoNode \/ s = NoNode \/ t = NoNode THEN <<>>
                        ELSE <<<<s, t>>>> \o f[<<ParentOf[s], above>>]]
             b == [q \in Pairs |-> IF q \in NoOuter THEN <<>>
                                  ELSE <<<<ArrayOf(q[1]), ArrayOf(q[2])>>>> \o f[Outer[q]]]
  <2>1. \A q \in Pairs : a[q] = b[q] BY DEF Pairs, NoOuter, Outer, Above
  <2>2. a = [q \in Pairs |-> a[q]] /\ b = [q \in Pairs |-> b[q]] BY DEF Pairs
  <2>3. a = b
    <3> HIDE DEF a, b
    <3> QED BY <2>1, <2>2
  <2>4. (IsIt(f) <=> f = a) /\ (IsPlain(f) <=> f = b) OBVIOUS
  <2> HIDE DEF a, b, IsIt, IsPlain
  <2> QED BY <2>3, <2>4
<1>2. ASSUME NEW q \in Pairs \ NoOuter, NEW z \in Seq(ArrayEnds)
      PROVE  step[<<q, z>>] = <<<<ArrayOf(q[1]), ArrayOf(q[2])>>>> \o z /\ step[<<q, z>>] \in Seq(ArrayEnds)
  <2> DEFINE e == <<ArrayOf(q[1]), ArrayOf(q[2])>>
  <2>1. q[1] \in SourceNodes /\ q[2] \in TargetNodes BY DEF Pairs
  <2>2. ArrayOf(q[1]) # NoNode /\ ArrayOf(q[2]) # NoNode BY <1>2 DEF NoOuter
  <2>3. e \in ArrayEnds BY <2>1, <2>2, ArraysOfPair DEF ArrayEnds
  <2>4. step[<<q, z>>] = <<e>> \o z OBVIOUS
  <2> HIDE DEF e
  <2>5. <<e>> \o z \in Seq(ArrayEnds) BY <2>3
  <2> HIDE DEF step
  <2> QED BY <2>4, <2>5 DEF e
<1>3. PICK f : Solves(f, Pairs, NoOuter, <<>>, Outer, step) /\ \A q \in Pairs : f[q] \in V[q]
  <2>1. \A q \in Pairs \cap NoOuter : <<>> \in V[q] OBVIOUS
  <2>2. \A q \in Pairs \ NoOuter : V[Outer[q]] = Seq(ArrayEnds) BY OuterDescends DEF Descends
  <2>3. \A q \in Pairs \ NoOuter : \A z \in V[Outer[q]] : step[<<q, z>>] \in V[q]
    BY <1>2, <2>2
  <2> HIDE DEF V, step
  <2> QED BY <2>1, <2>3, OuterDescends, RecursionHasSolution
<1>4. IsPlain(f)
  <2>1. f = [q \in Pairs |-> IF q \in NoOuter THEN <<>> ELSE step[<<q, f[Outer[q]]>>]]
    BY <1>3 DEF Solves
  <2>2. \A q \in Pairs \ NoOuter : f[Outer[q]] \in Seq(ArrayEnds)
    <3>1. \A q \in Pairs : f[q] \in Seq(ArrayEnds) BY <1>3
    <3> QED BY <3>1, OuterDescends DEF Descends
  <2>3. \A q \in Pairs \ NoOuter :
          step[<<q, f[Outer[q]]>>] = <<<<ArrayOf(q[1]), ArrayOf(q[2])>>>> \o f[Outer[q]]
    BY <1>2, <2>2
  <2> HIDE DEF step, V
  <2> QED BY <2>1, <2>3
<1>5. IsPlain(r)
  <2> HIDE DEF IsIt, IsPlain
  <2> QED BY <1>1, <1>4
<1>6. ArrayPairs = r BY DEF ArrayPairs
<1> HIDE DEF r
<1>7. \A q \in Pairs : ArrayPairs[q] \in V[q]
  <2>1. \A q \in Pairs \cap NoOuter : ArrayPairs[q] \in V[q] BY <1>5, <1>6
  <2>2. ASSUME NEW q \in Pairs \ NoOuter, ArrayPairs[Outer[q]] \in V[Outer[q]]
        PROVE  ArrayPairs[q] \in V[q]
    <3>1. ArrayPairs[q] = <<<<ArrayOf(q[1]), ArrayOf(q[2])>>>> \o ArrayPairs[Outer[q]] BY <1>5, <1>6
    <3>2. Outer[q] \in Pairs BY OuterDescends DEF Descends
    <3>3. ArrayPairs[Outer[q]] \in Seq(ArrayEnds) BY <2>2, <3>2
    <3>4. step[<<q, ArrayPairs[Outer[q]]>>] = ArrayPairs[q] BY <1>2, <3>1, <3>3
    <3> HIDE DEF step
    <3> QED BY <1>2, <3>3, <3>4
  <2> HIDE DEF V
  <2> QED BY <2>1, <2>2, OuterDescends, Inherited
<1> QED BY <1>7

-----------------------------------------------------------------------------
(* The arrays around a connection are connected.                           *)

(* The dictionaries that have an entry for all that C has one for, as a set. *)
Extensions(C) ==
  {D \in UNION {[S -> UNION {EntryOf(n) : n \in Nodes}] : S \in SUBSET Nodes} :
     IsDict(D) /\ DOMAIN C \subseteq DOMAIN D}

LEMMA ExtensionsAreDicts ==
  ASSUME NEW C, NEW D
  PROVE  D \in Extensions(C) <=> IsDict(D) /\ DOMAIN C \subseteq DOMAIN D
<1>1. ASSUME IsDict(D) PROVE D \in UNION {[S -> UNION {EntryOf(n) : n \in Nodes}] : S \in SUBSET Nodes}
  <2>1. DOMAIN D \in SUBSET Nodes /\ D = [n \in DOMAIN D |-> D[n]] BY <1>1 DEF IsDict
  <2>2. \A n \in DOMAIN D : D[n] \in UNION {EntryOf(m) : m \in Nodes} BY <1>1 DEF IsDict
  <2>3. D \in [DOMAIN D -> UNION {EntryOf(n) : n \in Nodes}] BY <2>1, <2>2
  <2> QED BY <2>1, <2>3
<1> QED BY <1>1 DEF Extensions

(* Schema nodes need no free slot. *)
LEMMA SchemaNodesAreRoomy ==
  ASSUME NEW C, NEW t \in SchemaNodes
  PROVE  Roomy(C, t)
  BY NodesAreDistinct DEF Roomy

(* What has the dictionary and is closed under connecting arrays has what  *)
(* comes out.                                                              *)
ArraysConnectWithin(E) == \A B \in E : \A o \in ArrayEnds : Connect(B, o[1], o[2]) \in E

LEMMA WithArraysIsWithin ==
  ASSUME NEW E, ArraysConnectWithin(E), NEW C \in E, NEW s \in SourceNodes, NEW t \in TargetNodes
  PROVE  WithArrays(C, s, t) \in E
<1> DEFINE pairs == ArrayPairs[<<s, t>>]
           n == Len(pairs)
           D == 0..n
           down == [i \in 1..n |-> i - 1]
           Joined(before, outer) ==
             IF outer[2] \in DOMAIN before /\ outer[1] \in Upstream(before, {outer[2]})
             THEN before ELSE Connect(before, outer[1], outer[2])
           step == [q \in D \X E |-> Joined(q[2], pairs[q[1]])]
           V == [i \in D |-> E]
           IsIt(f) == f = [i \in 0..Len(pairs) |->
                             IF i = 0 THEN C
                             ELSE LET before == f[i - 1]
                                      outer == pairs[i]
                                  IN  IF outer[2] \in DOMAIN before /\ outer[1] \in Upstream(before, {outer[2]})
                                      THEN before ELSE Connect(before, outer[1], outer[2])]
           r == CHOOSE f : IsIt(f)
<1>1. n \in Nat /\ \A i \in D \ {0} : i \in 1..n /\ down[i] = i - 1 /\ i - 1 \in D /\ pairs[i] \in ArrayEnds
  <2>1. <<s, t>> \in Pairs BY DEF Pairs
  <2>2. pairs \in Seq(ArrayEnds) BY <2>1, ArrayPairsAreTyped
  <2> HIDE DEF pairs
  <2> QED BY <2>2
<1>2. Descends(D, {0}, down) BY <1>1, CountingDescends
<1>3. ASSUME NEW B \in E, NEW o \in ArrayEnds PROVE Joined(B, o) \in E BY DEF ArraysConnectWithin
<1> HIDE DEF Joined
<1>5. \A i \in D \ {0} : \A B \in E : step[<<i, B>>] = Joined(B, pairs[i]) OBVIOUS
<1>6. PICK f : Solves(f, D, {0}, C, down, step) /\ \A i \in D : f[i] \in V[i]
  <2>1. \A i \in D \cap {0} : C \in V[i] OBVIOUS
  <2>2. \A i \in D : V[i] = E OBVIOUS
  <2> HIDE DEF D, V, down, step, pairs
  <2>3. \A i \in D \ {0} : \A B \in V[down[i]] : step[<<i, B>>] \in V[i]
    <3> TAKE i \in D \ {0}
    <3>1. down[i] \in D /\ i \in D /\ pairs[i] \in ArrayEnds BY <1>1
    <3> QED BY <1>3, <1>5, <2>2, <3>1
  <2> QED BY <1>2, <2>1, <2>3, RecursionHasSolution
<1>7. IsIt(f)
  <2>1. f = [i \in D |-> IF i \in {0} THEN C ELSE step[<<i, f[down[i]]>>]] BY <1>6 DEF Solves
  <2>2. \A i \in D : f[i] \in E BY <1>6
  <2>3. \A i \in D \ {0} : step[<<i, f[down[i]]>>] = Joined(f[i - 1], pairs[i])
    <3> HIDE DEF D, V, down, step, pairs
    <3> QED BY <1>1, <1>5, <2>2
  <2>4. f = [i \in D |-> IF i = 0 THEN C ELSE Joined(f[i - 1], pairs[i])]
    <3> HIDE DEF D, V, down, step, pairs
    <3> QED BY <2>1, <2>3
  <2> HIDE DEF V, down, step, pairs
  <2> QED BY <2>4 DEF Joined
<1>8. IsIt(r)
  <2> HIDE DEF IsIt
  <2> QED BY <1>7
<1>9. WithArrays(C, s, t) = r[n] BY DEF WithArrays
<1>10. r = [i \in D |-> IF i = 0 THEN C ELSE Joined(r[i - 1], pairs[i])]
  <2> HIDE DEF r, pairs
  <2> QED BY <1>8 DEF Joined
<1> HIDE DEF r, IsIt
<1>11. \A i \in D : r[i] \in V[i]
  <2>1. \A i \in D : V[i] = E OBVIOUS
  <2> HIDE DEF V, down, pairs
  <2>2. \A i \in D \cap {0} : r[i] \in V[i]
    <3>1. \A i \in D \cap {0} : r[i] = C BY <1>10
    <3> QED BY <2>1, <3>1
  <2>3. ASSUME NEW i \in D \ {0}, r[down[i]] \in V[down[i]] PROVE r[i] \in V[i]
    <3>1. r[i] = Joined(r[i - 1], pairs[i]) BY <1>10
    <3>2. r[i - 1] \in E /\ pairs[i] \in ArrayEnds BY <1>1, <2>1, <2>3
    <3> QED BY <1>3, <2>1, <3>1, <3>2
  <2> HIDE DEF D
  <2> QED BY <1>2, <2>2, <2>3, Inherited
<1>12. r[n] \in E BY <1>1, <1>11
<1> QED BY <1>9, <1>12

LEMMA SmallerDescend ==
  ASSUME NEW S, IsFiniteSet(S)
  PROVE  Descends(SUBSET S, {{}}, [T \in SUBSET S |-> T \ {CHOOSE x \in T : TRUE}])
<1> DEFINE less == [T \in SUBSET S |-> T \ {CHOOSE x \in T : TRUE}]
<1>1. ASSUME NEW F \in SUBSET SUBSET S, F # {}
      PROVE  \E T \in F : T \in {{}} \/ less[T] \notin F
  <2> DEFINE sizes == {Cardinality(T) : T \in F}
  <2>1. \A T \in F : IsFiniteSet(T) /\ Cardinality(T) \in Nat BY FS_Subset, FS_CardinalityType
  <2>2. sizes \subseteq Nat /\ sizes # {} BY <1>1, <2>1
  <2>3. PICK k \in sizes : \A j \in sizes : k <= j
    <3> HIDE DEF sizes
    <3> QED BY <2>2, LeastNumber
  <2>4. PICK T \in F : Cardinality(T) = k OBVIOUS
  <2>5. ASSUME T # {} PROVE less[T] \notin F
    <3> DEFINE x == CHOOSE y \in T : TRUE
    <3>1. x \in T BY <2>5
    <3>2. less[T] = T \ {x} OBVIOUS
    <3> HIDE DEF x
    <3>3. Cardinality(T \ {x}) = Cardinality(T) - 1 BY <2>1, <3>1, FS_RemoveElement
    <3> HIDE DEF less
    <3>4. ASSUME less[T] \in F PROVE FALSE
      <4>1. Cardinality(T \ {x}) \in sizes BY <3>2, <3>4
      <4>2. k <= Cardinality(T \ {x}) BY <2>3, <4>1
      <4> QED BY <2>1, <2>4, <3>3, <4>2
    <3> QED BY <3>4
  <2> QED BY <2>5
<1>2. \A T \in (SUBSET S) \ {{}} : less[T] \in SUBSET S OBVIOUS
<1> HIDE DEF less
<1>3. Descends(SUBSET S, {{}}, less) BY <1>1, <1>2 DEF Descends
<1> QED BY <1>3 DEF less

LEMMA WithAllArraysIsWithin ==
  ASSUME NEW E, ArraysConnectWithin(E), NEW C \in E, NEW S \in SUBSET SourceNodes,
         NEW t \in TargetNodes
  PROVE  WithAllArrays(C, S, t) \in E
<1> DEFINE D == SUBSET S
           less == [T \in D |-> T \ {CHOOSE x \in T : TRUE}]
           One(T) == CHOOSE x \in T : TRUE
           step == [q \in D \X E |-> WithArrays(q[2], One(q[1]), t)]
           V == [T \in D |-> E]
           IsIt(f) == f = [T \in SUBSET S |->
                             IF T = {} THEN C
                             ELSE LET s == CHOOSE x \in T : TRUE IN WithArrays(f[T \ {s}], s, t)]
           r == CHOOSE f : IsIt(f)
<1>1. \A T \in D \ {{}} : less[T] = T \ {One(T)} /\ less[T] \in D /\ One(T) \in SourceNodes OBVIOUS
<1>2. Descends(D, {{}}, less)
  <2>1. IsFiniteSet(SchemaNodes) /\ S \subseteq SchemaNodes BY SchemasAreTrees DEF SchemaNodes
  <2>2. IsFiniteSet(S) BY <2>1, FS_Subset
  <2> QED BY <2>2, SmallerDescend
<1>3. \A B \in E : \A s \in SourceNodes : WithArrays(B, s, t) \in E BY WithArraysIsWithin
<1> HIDE DEF One
<1>5. \A T \in D \ {{}} : \A B \in E : step[<<T, B>>] = WithArrays(B, One(T), t) OBVIOUS
<1>6. PICK f : Solves(f, D, {{}}, C, less, step) /\ \A T \in D : f[T] \in V[T]
  <2>1. \A T \in D \cap {{}} : C \in V[T] OBVIOUS
  <2>2. \A T \in D : V[T] = E OBVIOUS
  <2> HIDE DEF D, V, less, step
  <2>3. \A T \in D \ {{}} : \A B \in V[less[T]] : step[<<T, B>>] \in V[T]
    <3> TAKE T \in D \ {{}}
    <3>1. less[T] \in D /\ T \in D /\ One(T) \in SourceNodes BY <1>1
    <3> QED BY <1>3, <1>5, <2>2, <3>1
  <2> QED BY <1>2, <2>1, <2>3, RecursionHasSolution
<1>7. IsIt(f)
  <2>1. f = [T \in D |-> IF T \in {{}} THEN C ELSE step[<<T, f[less[T]]>>]] BY <1>6 DEF Solves
  <2>2. \A T \in D : f[T] \in E BY <1>6
  <2>3. \A T \in D \ {{}} : step[<<T, f[less[T]]>>] = WithArrays(f[T \ {One(T)}], One(T), t)
    <3> HIDE DEF D, V, less, step
    <3> QED BY <1>1, <1>5, <2>2
  <2>4. f = [T \in D |-> IF T = {} THEN C ELSE WithArrays(f[T \ {One(T)}], One(T), t)]
    <3> HIDE DEF D, V, less, step
    <3> QED BY <2>1, <2>3
  <2> HIDE DEF V, less, step
  <2> QED BY <2>4 DEF One
<1>8. IsIt(r)
  <2> HIDE DEF IsIt
  <2> QED BY <1>7
<1>9. WithAllArrays(C, S, t) = r[S] BY DEF WithAllArrays
<1>10. r = [T \in D |-> IF T = {} THEN C ELSE WithArrays(r[T \ {One(T)}], One(T), t)]
  <2> HIDE DEF r
  <2> QED BY <1>8 DEF One
<1> HIDE DEF r, IsIt
<1>11. \A T \in D : r[T] \in V[T]
  <2>1. \A T \in D : V[T] = E OBVIOUS
  <2> HIDE DEF V, less
  <2>2. \A T \in D \cap {{}} : r[T] \in V[T]
    <3>1. \A T \in D \cap {{}} : r[T] = C BY <1>10
    <3> QED BY <2>1, <3>1
  <2>3. ASSUME NEW T \in D \ {{}}, r[less[T]] \in V[less[T]] PROVE r[T] \in V[T]
    <3> HIDE DEF D
    <3>1. r[T] = WithArrays(r[T \ {One(T)}], One(T), t) BY <1>10
    <3>2. r[T \ {One(T)}] \in E /\ One(T) \in SourceNodes BY <1>1, <2>1, <2>3
    <3> QED BY <1>3, <2>1, <3>1, <3>2
  <2> HIDE DEF D
  <2> QED BY <1>2, <2>2, <2>3, Inherited
<1>12. r[S] \in E BY <1>11
<1> QED BY <1>9, <1>12

LEMMA ConnectedExtensions ==
  ASSUME NEW C
  PROVE  ArraysConnectWithin(Extensions(C))
<1> SUFFICES ASSUME NEW B \in Extensions(C), NEW o \in ArrayEnds
             PROVE  Connect(B, o[1], o[2]) \in Extensions(C)
  BY DEF ArraysConnectWithin
<1>1. o[1] \in Givers /\ o[2] \in Takers /\ o[2] \in SchemaNodes
  BY DEF ArrayEnds, Givers, Takers, SchemaNodes
<1>2. IsDict(B) /\ DOMAIN C \subseteq DOMAIN B BY ExtensionsAreDicts
<1>3. IsDict(Connect(B, o[1], o[2])) /\ DOMAIN B \subseteq DOMAIN Connect(B, o[1], o[2])
  BY <1>1, <1>2, SchemaNodesAreRoomy, ConnectIsDict
<1> QED BY <1>2, <1>3, ExtensionsAreDicts

LEMMA WithAllArraysIsDict ==
  ASSUME NEW C, IsDict(C), NEW S \in SUBSET SourceNodes, NEW t \in TargetNodes
  PROVE  IsDict(WithAllArrays(C, S, t)) /\ DOMAIN C \subseteq DOMAIN WithAllArrays(C, S, t)
<1> DEFINE E == Extensions(C)
<1>1. C \in E /\ ArraysConnectWithin(E) BY ExtensionsAreDicts, ConnectedExtensions
<1>2. \A D : D \in E <=> IsDict(D) /\ DOMAIN C \subseteq DOMAIN D BY ExtensionsAreDicts
<1> HIDE DEF E
<1>3. WithAllArrays(C, S, t) \in E BY <1>1, WithAllArraysIsWithin
<1> QED BY <1>2, <1>3

-----------------------------------------------------------------------------
(* Arrays that serve nothing are deleted.                                  *)

(* p is disconnected from the nodes of T. *)
Cut(C, p, T) ==
  [m \in DOMAIN C |-> IF m \in T THEN Disconnect(C, p, m, 0)[m]
                      ELSE IF m = p THEN [C[p] EXCEPT !.outputs = @ \ T] ELSE C[m]]

LEMMA CutIsDict ==
  ASSUME NEW C, IsDict(C), NEW p, NEW T
  PROVE  IsDict(Cut(C, p, T)) /\ DOMAIN Cut(C, p, T) = DOMAIN C
<1> DEFINE D == [m \in DOMAIN C |->
                   IF m \in T THEN Disconnect(C, p, m, 0)[m]
                   ELSE IF m = p THEN [C[p] EXCEPT !.outputs = @ \ T] ELSE C[m]]
<1>1. \A m \in DOMAIN C : Disconnect(C, p, m, 0)[m] \in EntryOf(m)
  BY DisconnectIsDict DEF IsDict
<1>2. ASSUME p \in DOMAIN C PROVE [C[p] EXCEPT !.outputs = @ \ T] \in EntryOf(p)
  <2>1. C[p] \in EntryOf(p) BY <1>2 DEF IsDict
  <2> QED BY <2>1 DEF EntryOf
<1>3. \A m \in DOMAIN C : C[m] \in EntryOf(m) /\ m \in Nodes BY DEF IsDict
<1>4. \A m \in DOMAIN D : D[m] \in EntryOf(m)
  <2> DEFINE e == [C[p] EXCEPT !.outputs = @ \ T]
  <2>1. \A m \in DOMAIN C : D[m] = IF m \in T THEN Disconnect(C, p, m, 0)[m]
                                   ELSE IF m = p THEN e ELSE C[m]
    OBVIOUS
  <2>2. p \in DOMAIN C => e \in EntryOf(p) BY <1>2
  <2> HIDE DEF e
  <2>3. DOMAIN D = DOMAIN C OBVIOUS
  <2> HIDE DEF D
  <2> QED BY <1>1, <1>3, <2>1, <2>2, <2>3
<1>5. DOMAIN D = DOMAIN C /\ D = [m \in DOMAIN D |-> D[m]] OBVIOUS
<1>6. IsDict(D)
  <2> HIDE DEF D
  <2> QED BY <1>3, <1>4, <1>5 DEF IsDict
<1> HIDE DEF D
<1>7. D = Cut(C, p, T) BY DEF D, Cut
<1> QED BY <1>5, <1>6, <1>7

LEMMA CountingFromOneDescends ==
  ASSUME NEW n \in Nat
  PROVE  Descends(1..n, {1}, [i \in 2..n |-> i - 1])
<1> DEFINE down == [i \in 2..n |-> i - 1]
<1>1. \A x \in (1..n) \ {1} : down[x] \in 1..n OBVIOUS
<1>2. ASSUME NEW T \in SUBSET (1..n), T # {}
      PROVE  \E x \in T : x \in {1} \/ down[x] \notin T
  <2>1. T \subseteq Nat BY <1>2
  <2>2. PICK x \in T : \A y \in T : x <= y BY <1>2, <2>1, LeastNumber
  <2>3. x # 1 => down[x] = x - 1 OBVIOUS
  <2>4. x - 1 < x BY <2>1
  <2> HIDE DEF down
  <2> QED BY <2>1, <2>2, <2>3, <2>4
<1> HIDE DEF down
<1>3. Descends(1..n, {1}, down) BY <1>1, <1>2 DEF Descends
<1> QED BY <1>3 DEF down

LEMMA DeletedArraysAreWithin ==
  ASSUME NEW E, \A B \in E : \A p, T : Cut(B, p, T) \in E,
         NEW C \in E, NEW s \in SourceNodes, NEW D \in DeletedArrays(C, s)
  PROVE  D \in E
<1> DEFINE InUse(B, p) == \E m \in DOMAIN B : /\ m \in SourceNodes /\ p \in Ancestors(m)
                                              /\ DownstreamEnds(B, {m})
                                              /\ Downstream(B, {m}) \cap TargetNodes # {}
           Following(B, p) == {Cut(B, p, T) : T \in {U \in SUBSET OutputsOf(B, p) :
                       /\ DownstreamEnds(B, DOMAIN B)
                       /\ Cardinality(U) = Cardinality(OutputsOf(B, p) \cap TargetNodes)}}
           up == PathUp[s]
           n == Len(up)
           I == 1..n
           down == [i \in 2..n |-> i - 1]
           first == {[map |-> C, done |-> FALSE]}
           After(d, p) ==
             IF d.done \/ p \notin DOMAIN d.map THEN {d}
             ELSE IF p \notin Repeating \/ InUse(d.map, p) THEN {[d EXCEPT !.done = TRUE]}
             ELSE {[d EXCEPT !.map = e] : e \in Following(d.map, p)}
           states == [map : E, done : BOOLEAN]
           step == [q \in I \X SUBSET states |-> UNION {After(d, up[q[1]]) : d \in q[2]}]
           V == [i \in I |-> SUBSET states]
           IsIt(f) == f = [i \in 1..Len(up) |->
                             IF i = 1 THEN {[map |-> C, done |-> FALSE]}
                             ELSE UNION {LET p == up[i] IN
                                         IF d.done \/ p \notin DOMAIN d.map THEN {d}
                                         ELSE IF p \notin Repeating \/ InUse(d.map, p) THEN {[d EXCEPT !.done = TRUE]}
                                         ELSE {[d EXCEPT !.map = e] : e \in Following(d.map, p)}
                                         : d \in f[i - 1]}]
           r == CHOOSE f : IsIt(f)
<1>1. DeletedArrays(C, s) = {d.map : d \in r[Len(up)]} BY DEF DeletedArrays, Cut
<1>2. n \in Nat \ {0}
  <2>1. s \in SchemaNodes /\ s # NoNode BY NodesAreDistinct DEF Nodes, SchemaNodes
  <2>2. up \in Seq(SchemaNodes) /\ On(s) # {} BY <2>1, PathIsClosed
  <2>3. DOMAIN up # {} BY <2>2 DEF On, Elements
  <2> HIDE DEF up
  <2> QED BY <2>2, <2>3
<1>3. Descends(I, {1}, down) BY <1>2, CountingFromOneDescends
<1>4. \A i \in I \ {1} : down[i] = i - 1 /\ down[i] \in I BY <1>2
<1>5. first \in SUBSET states OBVIOUS
<1>6. ASSUME NEW d \in states, NEW p PROVE After(d, p) \in SUBSET states
  <2>1. d.map \in E /\ d.done \in BOOLEAN OBVIOUS
  <2>5. \A e \in Following(d.map, p) : e \in E BY <2>1
  <2> HIDE DEF Following, InUse
  <2>6. [d EXCEPT !.done = TRUE] \in states BY <2>1
  <2>7. \A e \in Following(d.map, p) : [d EXCEPT !.map = e] \in states BY <2>1, <2>5
  <2> HIDE DEF states
  <2> QED BY <2>6, <2>7
<1> HIDE DEF After, states
<1>7. ASSUME NEW i \in I, NEW X \in SUBSET states
      PROVE  step[<<i, X>>] = UNION {After(d, up[i]) : d \in X} /\ step[<<i, X>>] \in SUBSET states
  <2>1. step[<<i, X>>] = UNION {After(d, up[i]) : d \in X} OBVIOUS
  <2> HIDE DEF step, up
  <2> QED BY <1>6, <2>1
<1>8. \A i \in I : V[i] = SUBSET states OBVIOUS
<1>9. PICK f : Solves(f, I, {1}, first, down, step) /\ \A i \in I : f[i] \in V[i]
  <2> HIDE DEF I, V, down, step, first
  <2>1. \A i \in I \cap {1} : first \in V[i] BY <1>5, <1>8
  <2>2. \A i \in I \ {1} : \A X \in V[down[i]] : step[<<i, X>>] \in V[i]
    <3> TAKE i \in I \ {1}
    <3>1. down[i] \in I /\ i \in I BY <1>4
    <3> QED BY <1>7, <1>8, <3>1
  <2> QED BY <1>3, <2>1, <2>2, RecursionHasSolution
<1> DEFINE IsPlain(g) == g = [i \in I |-> IF i = 1 THEN first ELSE UNION {After(d, up[i]) : d \in g[i - 1]}]
<1>10. \A g : IsIt(g) <=> IsPlain(g)
  BY DEF After
<1>11. IsPlain(f)
  <2> HIDE DEF I, V, down, step, up, first
  <2>1. f = [i \in I |-> IF i \in {1} THEN first ELSE step[<<i, f[down[i]]>>]] BY <1>9 DEF Solves
  <2>2. \A i \in I \ {1} : f[i - 1] \in SUBSET states BY <1>4, <1>8, <1>9
  <2>3. \A i \in I \ {1} : step[<<i, f[down[i]]>>] = UNION {After(d, up[i]) : d \in f[i - 1]}
    BY <1>4, <1>7, <2>2
  <2> QED BY <2>1, <2>3
<1>12. IsPlain(r)
  <2> HIDE DEF IsIt, IsPlain
  <2> QED BY <1>10, <1>11
<1> HIDE DEF r, IsIt
<1>13. \A i \in I : r[i] \in V[i]
  <2> HIDE DEF V, down, up, first, I
  <2>1. \A i \in I \cap {1} : r[i] \in V[i]
    <3>1. \A i \in I \cap {1} : r[i] = first BY <1>12
    <3> QED BY <1>5, <1>8, <3>1
  <2>2. ASSUME NEW i \in I \ {1}, r[down[i]] \in V[down[i]] PROVE r[i] \in V[i]
    <3>1. r[i - 1] \in SUBSET states BY <1>4, <1>8, <2>2
    <3>2. r[i] = UNION {After(d, up[i]) : d \in r[i - 1]} BY <1>12
    <3>3. step[<<i, r[i - 1]>>] = r[i] BY <1>7, <3>1, <3>2
    <3> HIDE DEF step
    <3> QED BY <1>7, <1>8, <3>1, <3>3
  <2> QED BY <1>3, <2>1, <2>2, Inherited
<1>14. r[n] \in SUBSET states BY <1>2, <1>8, <1>13
<1> HIDE DEF n
<1>15. PICK d \in r[n] : D = d.map BY <1>1 DEF n
<1> QED BY <1>14, <1>15 DEF states

LEMMA DeletedArraysAreDicts ==
  ASSUME NEW C, IsDict(C), NEW s \in SourceNodes, NEW D \in DeletedArrays(C, s)
  PROVE  IsDict(D) /\ DOMAIN D = DOMAIN C
<1> DEFINE E == {B \in Extensions(C) : DOMAIN B = DOMAIN C}
<1>1. \A B : B \in E <=> IsDict(B) /\ DOMAIN B = DOMAIN C BY ExtensionsAreDicts
<1> HIDE DEF E
<1>2. \A B \in E : \A p, T : Cut(B, p, T) \in E BY <1>1, CutIsDict
<1>3. D \in E BY <1>1, <1>2, DeletedArraysAreWithin
<1> QED BY <1>1, <1>3

-----------------------------------------------------------------------------
(* Maps.  A card loses its entry in the old map when the deletion of a     *)
(* function is undone, since the two maps share their dictionary.          *)
CardsStay == ~({"undo", "deleteFunction"} \subseteq MapEdits)

InlineIsSound(keys) ==
  keys = <<>> \/ (keys \in Givers \X Takers \X Nat /\ (keys[2] \in FunctionNodes => keys[3] # 0))

SoundMap(m) ==
  /\ IsMapRecord(m) /\ IsDict(m.conns)
  /\ m.canvas \subseteq SourceNodes /\ m.functions \subseteq FunctionNodes
  /\ m.level \in TargetNodes \cup {NoNode}
  /\ InlineIsSound(m.inline)
  /\ CardsStay => m.functions \subseteq DOMAIN m.conns

(* A function put on an edge has an entry, and nothing in it until it is   *)
(* connected.                                                              *)
InsertingIsSound ==
  \/ inserting = Idle
  \/ /\ inserting \in [step : 1..4, fn : FunctionNodes, from : Givers, to : Takers, port : Nat]
     /\ inserting.to \in FunctionNodes => inserting.port # 0
     /\ inserting.step = 1 => inserting.fn # inserting.to
     /\ inserting.step \in {1, 2} => /\ inserting.fn \in DOMAIN cur.conns
                                     /\ cur.conns[inserting.fn].inputs = NewInputs(inserting.fn)

AllSound(seq) == \A m \in Elements(seq) : SoundMap(m)

(* The inductive invariant. *)
DataInv ==
  /\ StacksOK
  /\ SoundMap(cur) /\ SoundMap(pristine) /\ isDirty \in BOOLEAN
  /\ AllSound(undoStack) /\ AllSound(redoStack)
  /\ InsertingIsSound

(* An edit is committed that leaves sound maps. *)
Sealed ==
  \E new, old : Commit(new, old) /\ SoundMap(new) /\ ("undo" \in MapEdits => SoundMap(old))

MapOf(C, S, F, l, keys) ==
  [conns |-> C, canvas |-> S, functions |-> F, level |-> l, inline |-> keys]

LEMMA MapOfIsSound ==
  ASSUME NEW C, IsDict(C), NEW S \in SUBSET SourceNodes, NEW F \in SUBSET FunctionNodes,
         NEW l \in TargetNodes \cup {NoNode}, NEW keys, InlineIsSound(keys),
         CardsStay => F \subseteq DOMAIN C
  PROVE  SoundMap(MapOf(C, S, F, l, keys))
  BY DEF MapOf, SoundMap, IsMapRecord

LEMMA SoundParts ==
  ASSUME NEW m, SoundMap(m)
  PROVE  /\ m = MapOf(m.conns, m.canvas, m.functions, m.level, m.inline)
         /\ IsDict(m.conns) /\ m.canvas \in SUBSET SourceNodes /\ m.functions \in SUBSET FunctionNodes
         /\ m.level \in TargetNodes \cup {NoNode} /\ InlineIsSound(m.inline)
         /\ CardsStay => m.functions \subseteq DOMAIN m.conns
  BY DEF MapOf, SoundMap, IsMapRecord

Rewired(m, C) == [m EXCEPT !.conns = C]
Recanvassed(m, S) == [m EXCEPT !.canvas = S]
Repicked(m, keys) == [m EXCEPT !.inline = keys]
Refunctioned(m, F) == [m EXCEPT !.functions = F]
Moved(m, l) == [m EXCEPT !.level = l]
Redrawn(m, C, S) == [m EXCEPT !.conns = C, !.canvas = S]
Recarded(m, C, F) == [m EXCEPT !.functions = F, !.conns = C]
Relevelled(m, l, C, S, F) == [m EXCEPT !.level = l, !.conns = C, !.canvas = S, !.functions = F]

LEMMA FieldRewritten ==
  ASSUME NEW co, NEW ca, NEW fu, NEW le, NEW in, NEW x
  PROVE  /\ Rewired(MapOf(co, ca, fu, le, in), x) = MapOf(x, ca, fu, le, in)
         /\ Recanvassed(MapOf(co, ca, fu, le, in), x) = MapOf(co, x, fu, le, in)
         /\ Refunctioned(MapOf(co, ca, fu, le, in), x) = MapOf(co, ca, x, le, in)
         /\ Moved(MapOf(co, ca, fu, le, in), x) = MapOf(co, ca, fu, x, in)
         /\ Repicked(MapOf(co, ca, fu, le, in), x) = MapOf(co, ca, fu, le, x)
<1>1. Rewired(MapOf(co, ca, fu, le, in), x) = MapOf(x, ca, fu, le, in) BY DEF MapOf, Rewired
<1>2. Recanvassed(MapOf(co, ca, fu, le, in), x) = MapOf(co, x, fu, le, in) BY DEF MapOf, Recanvassed
<1>3. Refunctioned(MapOf(co, ca, fu, le, in), x) = MapOf(co, ca, x, le, in) BY DEF MapOf, Refunctioned
<1>4. Moved(MapOf(co, ca, fu, le, in), x) = MapOf(co, ca, fu, x, in) BY DEF MapOf, Moved
<1>5. Repicked(MapOf(co, ca, fu, le, in), x) = MapOf(co, ca, fu, le, x) BY DEF MapOf, Repicked
<1> QED BY <1>1, <1>2, <1>3, <1>4, <1>5

LEMMA MapRewritten ==
  ASSUME NEW m, m = MapOf(m.conns, m.canvas, m.functions, m.level, m.inline),
         NEW C, NEW S, NEW F, NEW l, NEW keys
  PROVE  /\ Recanvassed(m, S) = MapOf(m.conns, S, m.functions, m.level, m.inline)
         /\ Rewired(m, C) = MapOf(C, m.canvas, m.functions, m.level, m.inline)
         /\ Repicked(m, keys) = MapOf(m.conns, m.canvas, m.functions, m.level, keys)
         /\ Redrawn(m, C, S) = MapOf(C, S, m.functions, m.level, m.inline)
         /\ Recarded(m, C, F) = MapOf(C, m.canvas, F, m.level, m.inline)
         /\ Relevelled(m, l, C, S, F) = MapOf(C, S, F, l, m.inline)
<1> DEFINE co == m.conns
           ca == m.canvas
           fu == m.functions
           le == m.level
           in == m.inline
<1> HIDE DEF co, ca, fu, le, in
<1>1. m = MapOf(co, ca, fu, le, in) BY DEF co, ca, fu, le, in
<1>2. Recanvassed(m, S) = MapOf(co, S, fu, le, in) BY <1>1, FieldRewritten
<1>3. Rewired(m, C) = MapOf(C, ca, fu, le, in) BY <1>1, FieldRewritten
<1>4. Repicked(m, keys) = MapOf(co, ca, fu, le, keys) BY <1>1, FieldRewritten
<1>5. Redrawn(m, C, S) = MapOf(C, S, fu, le, in)
  <2>1. Redrawn(m, C, S) = Recanvassed(Rewired(m, C), S) BY DEF Redrawn, Recanvassed, Rewired
  <2> QED BY <1>3, <2>1, FieldRewritten
<1>6. Recarded(m, C, F) = MapOf(C, ca, F, le, in)
  <2>1. Refunctioned(m, F) = MapOf(co, ca, F, le, in) BY <1>1, FieldRewritten
  <2>2. Recarded(m, C, F) = Rewired(Refunctioned(m, F), C) BY DEF Recarded, Rewired, Refunctioned
  <2> QED BY <2>1, <2>2, FieldRewritten
<1>7. Relevelled(m, l, C, S, F) = MapOf(C, S, F, l, in)
  <2> DEFINE a == [m EXCEPT !.level = l]
             b == [a EXCEPT !.conns = C, !.canvas = S]
             c == [b EXCEPT !.functions = F]
  <2>1. [m EXCEPT !.level = l, !.conns = C, !.canvas = S, !.functions = F] = c OBVIOUS
  <2>2. Relevelled(m, l, C, S, F) = c
    <3> HIDE DEF c
    <3> QED BY <2>1 DEF Relevelled
  <2>3. a = MapOf(co, ca, fu, l, in)
    <3>1. a = Moved(m, l) BY DEF Moved
    <3> HIDE DEF a
    <3> QED BY <1>1, <3>1, FieldRewritten
  <2> HIDE DEF a
  <2>4. b = MapOf(C, S, fu, l, in)
    <3>1. b = Recanvassed(Rewired(a, C), S) BY DEF Recanvassed, Rewired
    <3> HIDE DEF b
    <3> QED BY <2>3, <3>1, FieldRewritten
  <2> HIDE DEF b
  <2>5. c = MapOf(C, S, F, l, in)
    <3>1. c = Refunctioned(b, F) BY DEF Refunctioned
    <3> HIDE DEF c
    <3> QED BY <2>4, <3>1, FieldRewritten
  <2> HIDE DEF c
  <2> QED BY <2>2, <2>5
<1> QED BY <1>2, <1>3, <1>4, <1>5, <1>6, <1>7 DEF co, ca, fu, le, in

(* The old map when the new dictionary C keeps its entries or is shared.   *)
LEMMA SharedIsSound ==
  ASSUME SoundMap(cur), NEW C, IsDict(C), NEW S \in SUBSET SourceNodes
  PROVE  /\ (CardsStay => cur.functions \subseteq DOMAIN C) => SoundMap(SharingAll(C))
         /\ SoundMap(SharingEntries(C))
         /\ SoundMap([SharingEntries(C) EXCEPT !.canvas = S])
<1> DEFINE E == [n \in DOMAIN cur.conns |-> IF n \in DOMAIN C THEN C[n] ELSE cur.conns[n]]
<1>1. /\ cur = MapOf(cur.conns, cur.canvas, cur.functions, cur.level, cur.inline)
      /\ IsDict(cur.conns) /\ cur.canvas \in SUBSET SourceNodes
      /\ cur.functions \in SUBSET FunctionNodes
      /\ cur.level \in TargetNodes \cup {NoNode} /\ InlineIsSound(cur.inline)
      /\ CardsStay => cur.functions \subseteq DOMAIN cur.conns
  BY SoundParts
<1>2. IsDict(E) /\ DOMAIN E = DOMAIN cur.conns
  <2>1. E = [n \in DOMAIN E |-> E[n]] /\ DOMAIN E = DOMAIN cur.conns OBVIOUS
  <2>2. \A n \in DOMAIN E : n \in Nodes /\ E[n] \in EntryOf(n) BY <1>1 DEF IsDict
  <2> HIDE DEF E
  <2> QED BY <2>1, <2>2 DEF IsDict
<1>3. SharingEntries(C) = Rewired(cur, E) /\ SharingAll(C) = Rewired(cur, C)
  BY DEF SharingEntries, SharingAll, Rewired
<1> HIDE DEF E
<1>4. /\ SharingAll(C) = MapOf(C, cur.canvas, cur.functions, cur.level, cur.inline)
      /\ SharingEntries(C) = MapOf(E, cur.canvas, cur.functions, cur.level, cur.inline)
  BY <1>1, <1>3, MapRewritten
<1>5. [SharingEntries(C) EXCEPT !.canvas = S] = MapOf(E, S, cur.functions, cur.level, cur.inline)
  <2>1. Recanvassed(SharingEntries(C), S) = MapOf(E, S, cur.functions, cur.level, cur.inline)
    BY <1>4, FieldRewritten
  <2> QED BY <2>1 DEF Recanvassed
<1>6. /\ SoundMap(MapOf(E, cur.canvas, cur.functions, cur.level, cur.inline))
      /\ SoundMap(MapOf(E, S, cur.functions, cur.level, cur.inline))
  BY <1>1, <1>2, MapOfIsSound
<1>7. (CardsStay => cur.functions \subseteq DOMAIN C)
      => SoundMap(MapOf(C, cur.canvas, cur.functions, cur.level, cur.inline))
  BY <1>1, MapOfIsSound
<1> QED BY <1>4, <1>5, <1>6, <1>7

(* An edit of the dictionary, and of the source nodes shown. *)
LEMMA DictSealed ==
  ASSUME SoundMap(cur), NEW C, IsDict(C), CardsStay => cur.functions \subseteq DOMAIN C,
         NEW S \in SUBSET SourceNodes,
         NEW new \in {[cur EXCEPT !.conns = C], [cur EXCEPT !.conns = C, !.canvas = S]},
         NEW old \in {SharingAll(C), SharingEntries(C), [SharingEntries(C) EXCEPT !.canvas = S]},
         Commit(new, old)
  PROVE  Sealed
<1>1. /\ cur = MapOf(cur.conns, cur.canvas, cur.functions, cur.level, cur.inline)
      /\ IsDict(cur.conns) /\ cur.canvas \in SUBSET SourceNodes
      /\ cur.functions \in SUBSET FunctionNodes
      /\ cur.level \in TargetNodes \cup {NoNode} /\ InlineIsSound(cur.inline)
  BY SoundParts
<1>2. new \in {MapOf(C, cur.canvas, cur.functions, cur.level, cur.inline),
               MapOf(C, S, cur.functions, cur.level, cur.inline)}
  <2> DEFINE a == Rewired(cur, C)
             b == [cur EXCEPT !.conns = C, !.canvas = S]
  <2>1. /\ a = MapOf(C, cur.canvas, cur.functions, cur.level, cur.inline)
        /\ Redrawn(cur, C, S) = MapOf(C, S, cur.functions, cur.level, cur.inline)
    BY <1>1, MapRewritten
  <2>3. b = Redrawn(cur, C, S) BY DEF Redrawn
  <2>2. new \in {a, b} BY DEF Rewired
  <2> HIDE DEF a, b
  <2> QED BY <2>1, <2>2, <2>3
<1>3. SoundMap(new)
  <2>1. /\ SoundMap(MapOf(C, cur.canvas, cur.functions, cur.level, cur.inline))
        /\ SoundMap(MapOf(C, S, cur.functions, cur.level, cur.inline))
    BY <1>1, MapOfIsSound
  <2> QED BY <1>2, <2>1
<1>4. SoundMap(old)
  <2> DEFINE a == [SharingEntries(C) EXCEPT !.canvas = S]
  <2>1. SoundMap(SharingAll(C)) /\ SoundMap(SharingEntries(C)) /\ SoundMap(a) BY SharedIsSound
  <2>2. old \in {SharingAll(C), SharingEntries(C), a} OBVIOUS
  <2> HIDE DEF a
  <2> QED BY <2>1, <2>2
<1> QED BY <1>3, <1>4 DEF Sealed

-----------------------------------------------------------------------------
(* Every edit leaves sound maps: source nodes and the target level.        *)

LEMMA LevelIsTarget ==
  ASSUME SoundMap(cur)
  PROVE  OnLevel \subseteq TargetNodes
<1>1. cur.level \in TargetNodes \cup {NoNode} BY DEF SoundMap
<1>2. ASSUME NEW n \in Children(cur.level) PROVE n \in TargetNodes
  <2>1. n \in SchemaNodes /\ cur.level # NoNode /\ ParentOf[n] = cur.level BY DEF Children
  <2>2. n \in SourceNodes => ParentOf[n] \in SourceNodes \cup {NoNode} BY SchemasAreTrees
  <2> QED BY <1>1, <2>1, <2>2, NodesAreDistinct DEF SchemaNodes
<1> QED BY <1>1, <1>2 DEF OnLevel

LEMMA NamedAreGivers ==
  ASSUME NEW C, IsDict(C), NEW n, NEW v \in Named(C, n)
  PROVE  v \in Givers /\ n \in Takers
<1>1. n \in DOMAIN C /\ v \in Nodes BY DEF Named
<1>2. PICK i \in DOMAIN C[n].inputs : \E j \in DOMAIN C[n].inputs[i] : C[n].inputs[i][j] = v
  BY <1>1 DEF Named
<1>3. PICK j \in DOMAIN C[n].inputs[i] : C[n].inputs[i][j] = v BY <1>2
<1>4. n \in Nodes /\ C[n].inputs \in Filled(n) BY <1>1, EntryIsTyped DEF IsDict
<1>5. C[n].inputs[i] \in Seq(InputValues) BY <1>2, <1>4, FilledIsTyped
<1>6. v \in InputValues BY <1>3, <1>5
<1>7. C[n].inputs[i] # <<>> BY <1>3
<1>8. n \notin SourceNodes BY <1>4, <1>7, FilledIsTyped
<1> QED BY <1>1, <1>4, <1>6, <1>8, NodesAreDistinct
        DEF InputValues, Givers, Takers, Nodes, SchemaNodes

LEMMA EdgeEnds ==
  ASSUME SoundMap(cur), NEW e \in Edges
  PROVE  /\ e.from \in Givers /\ e.to \in Takers /\ e.port \in Nat
         /\ e.to \in FunctionNodes => e.port # 0
<1>1. PICK x \in Nodes \X (OnCanvas \cap DOMAIN cur.conns) \X (0..MaxFields) :
        /\ x[1] \in Named(cur.conns, x[2])
        /\ IF x[2] \in FunctionNodes THEN x[3] > 0 /\ Held(cur.conns, x[2], x[3]) = x[1]
           ELSE x[3] = 0
        /\ e = [from |-> x[1], to |-> x[2], port |-> x[3]]
  BY DEF Edges
<1>2. x[1] \in Givers /\ x[2] \in Takers BY <1>1, NamedAreGivers DEF SoundMap
<1>3. x[3] \in Nat BY <1>1, MapEditsAreKnown
<1> QED BY <1>1, <1>2, <1>3

LEMMA CanvasIsSealed ==
  ASSUME SoundMap(cur), NEW S \in SUBSET SourceNodes, Commit([cur EXCEPT !.canvas = S], cur)
  PROVE  Sealed
<1>1. /\ cur = MapOf(cur.conns, cur.canvas, cur.functions, cur.level, cur.inline)
      /\ IsDict(cur.conns) /\ cur.functions \in SUBSET FunctionNodes
      /\ cur.level \in TargetNodes \cup {NoNode} /\ InlineIsSound(cur.inline)
      /\ CardsStay => cur.functions \subseteq DOMAIN cur.conns
  BY SoundParts
<1>2. Recanvassed(cur, S) = MapOf(cur.conns, S, cur.functions, cur.level, cur.inline)
  BY <1>1, MapRewritten
<1>3. SoundMap(MapOf(cur.conns, S, cur.functions, cur.level, cur.inline)) BY <1>1, MapOfIsSound
<1> QED BY <1>2, <1>3 DEF Sealed, Recanvassed

LEMMA AddSourceIsSealed ==
  ASSUME SoundMap(cur), NEW x, AddSource(x)
  PROVE  Sealed
<1>1. x \in SourceNodes /\ cur.canvas \subseteq SourceNodes BY DEF AddSource, SoundMap
<1>2. Ancestors(x) \subseteq SourceNodes BY <1>1, AncestorsAreWithin
<1>3. ArrayOf(ParentOf[x]) \in SourceNodes \cup {NoNode}
  <2>1. ParentOf[x] \in SourceNodes \cup {NoNode} BY <1>1, SchemasAreTrees
  <2>2. ParentOf[x] \in SchemaNodes \cup {NoNode} BY <2>1 DEF SchemaNodes
  <2>3. On(ParentOf[x]) \subseteq SourceNodes BY <2>1, <2>2, PathIsClosed
  <2> QED BY <2>2, <2>3, ArrayIsOnPath
<1>4. WithAncestors(cur.canvas, x) \in SUBSET SourceNodes
  BY <1>1, <1>2, <1>3 DEF WithAncestors
<1>5. Commit([cur EXCEPT !.canvas = WithAncestors(cur.canvas, x)], cur) BY DEF AddSource
<1> QED BY <1>4, <1>5, CanvasIsSealed

LEMMA RemoveSourceIsSealed ==
  ASSUME SoundMap(cur), NEW x, RemoveSource(x)
  PROVE  Sealed
<1>1. cur.canvas \ {x} \in SUBSET SourceNodes BY DEF SoundMap
<1>2. Commit([cur EXCEPT !.canvas = cur.canvas \ {x}], cur) BY DEF RemoveSource
<1> QED BY <1>1, <1>2, CanvasIsSealed

LEMMA SetInlineIsSealed ==
  ASSUME SoundMap(cur), NEW keys, InlineIsSound(keys), SetInline(keys)
  PROVE  Sealed
<1>1. /\ cur = MapOf(cur.conns, cur.canvas, cur.functions, cur.level, cur.inline)
      /\ IsDict(cur.conns) /\ cur.functions \in SUBSET FunctionNodes
      /\ cur.canvas \in SUBSET SourceNodes /\ cur.level \in TargetNodes \cup {NoNode}
      /\ CardsStay => cur.functions \subseteq DOMAIN cur.conns
  BY SoundParts
<1>2. Repicked(cur, keys) = MapOf(cur.conns, cur.canvas, cur.functions, cur.level, keys)
  BY <1>1, MapRewritten
<1>3. SoundMap(MapOf(cur.conns, cur.canvas, cur.functions, cur.level, keys)) BY <1>1, MapOfIsSound
<1>4. Commit(Repicked(cur, keys), cur) BY DEF SetInline, Repicked
<1> QED BY <1>2, <1>3, <1>4 DEF Sealed

LEMMA SetLevelIsSealed ==
  ASSUME SoundMap(cur), NEW l, SetLevel(l)
  PROVE  Sealed
<1> DEFINE drawn == Upstream(cur.conns, LevelRoots(cur.conns, cur.level))
           clean == [n \in DOMAIN cur.conns \ (cur.functions \ drawn) |-> cur.conns[n]]
           shown == Upstream(clean, LevelRoots(clean, l))
           new == Relevelled(cur, l, clean, shown \cap SourceNodes, shown \cap FunctionNodes)
<1>1. /\ Commit(new, cur) /\ l \in TargetNodes \cup {NoNode}
      /\ UpstreamEnds(clean, LevelRoots(clean, l))
  BY DEF SetLevel, Relevelled
<1>2. IsDict(clean)
  <2> HIDE DEF drawn
  <2>1. DOMAIN clean \subseteq DOMAIN cur.conns /\ clean = [n \in DOMAIN clean |-> clean[n]]
    OBVIOUS
  <2>2. \A n \in DOMAIN clean : clean[n] = cur.conns[n] OBVIOUS
  <2>3. IsDict(cur.conns) BY DEF SoundMap
  <2> HIDE DEF clean
  <2> QED BY <2>1, <2>2, <2>3 DEF IsDict
<1>3. shown \subseteq DOMAIN clean
  <2> HIDE DEF clean
  <2> QED BY <1>1 DEF UpstreamEnds
<1> HIDE DEF shown, clean
<1>4. /\ cur = MapOf(cur.conns, cur.canvas, cur.functions, cur.level, cur.inline)
      /\ InlineIsSound(cur.inline)
  BY SoundParts
<1>5. new = MapOf(clean, shown \cap SourceNodes, shown \cap FunctionNodes, l, cur.inline)
  BY <1>4, MapRewritten
<1>6. /\ shown \cap SourceNodes \in SUBSET SourceNodes
      /\ shown \cap FunctionNodes \in SUBSET FunctionNodes
      /\ shown \cap FunctionNodes \subseteq DOMAIN clean
  BY <1>3
<1>7. SoundMap(MapOf(clean, shown \cap SourceNodes, shown \cap FunctionNodes, l, cur.inline))
  BY <1>1, <1>2, <1>4, <1>6, MapOfIsSound
<1> HIDE DEF new
<1> QED BY <1>1, <1>5, <1>7 DEF Sealed

-----------------------------------------------------------------------------
(* Every edit leaves sound maps: functions, connections and fields.        *)

LEMMA SlotAvailableIsRoom ==
  ASSUME NEW C, IsDict(C), NEW t \in FunctionNodes, SlotAvailable(C, t), Arity[t] # 0
  PROVE  Roomy(C, t)
<1> SUFFICES ASSUME ~Manifold(t)
             PROVE  \E i \in DOMAIN WithEntry(C, t)[t].inputs : WithEntry(C, t)[t].inputs[i] = <<>>
  BY DEF Roomy
<1>0. t \in Nodes BY DEF Nodes
<1>1. Arity[t] \in Nat \ {0} /\ NewInputs(t) = [i \in 1..Arity[t] |-> <<>>] BY <1>0, Slots
<1>2. CASE t \notin DOMAIN C
  <2>1. WithEntry(C, t)[t].inputs = NewInputs(t) BY <1>0, <1>2, WithEntryIsDict
  <2>2. 1 \in DOMAIN NewInputs(t) /\ NewInputs(t)[1] = <<>> BY <1>1
  <2> QED BY <2>1, <2>2
<1>3. CASE t \in DOMAIN C
  <2>1. WithEntry(C, t)[t] = C[t] BY <1>0, <1>3, WithEntryIsDict
  <2>2. C[t].inputs \in Filled(t) BY <1>3, EntryIsTyped DEF IsDict
  <2>3. DOMAIN C[t].inputs = 1..Arity[t] BY <1>0, <1>1, <2>2, FilledIsTyped
  <2>4. Cardinality(Values(C, t)) # Arity[t]
    <3>1. Arity[t] # Unbounded BY <1>1 DEF Unbounded
    <3> QED BY <1>3, <3>1 DEF SlotAvailable
  <2>5. Cardinality(1..Arity[t]) = Arity[t]
    <3>1. 1 \in Int /\ Arity[t] \in Int /\ ~(1 > Arity[t]) /\ Arity[t] - 1 + 1 = Arity[t] BY <1>1
    <3> QED BY <3>1, FS_Interval
  <2>6. Values(C, t) # 1..Arity[t] BY <2>4, <2>5
  <2>7. \E i \in DOMAIN C[t].inputs : C[t].inputs[i] = <<>>
    <3>1. SUFFICES ASSUME \A i \in 1..Arity[t] : C[t].inputs[i] # <<>> PROVE FALSE BY <2>3
    <3>2. Values(C, t) = 1..Arity[t] BY <2>3, <3>1 DEF Values
    <3> QED BY <2>6, <3>2
  <2> QED BY <2>1, <2>7
<1> QED BY <1>2, <1>3

LEMMA FreshIsNew ==
  ASSUME NEW f \in FreshFunctions
  PROVE  /\ f \in FunctionNodes /\ f \notin DOMAIN cur.conns
         /\ \A i \in DOMAIN cur.inline : cur.inline[i] # f
<1>1. f \in FunctionNodes /\ f \notin Mentioned(cur) BY DEF FreshFunctions
<1> QED BY <1>1 DEF Mentioned

(* The cards keep their entries when the dictionary loses none. *)
LEMMA KeptCards ==
  ASSUME SoundMap(cur), NEW C, DOMAIN cur.conns \subseteq DOMAIN C
  PROVE  CardsStay => cur.functions \subseteq DOMAIN C
  BY DEF SoundMap

LEMMA AddFunctionIsSealed ==
  ASSUME SoundMap(cur), NEW f \in FunctionNodes, AddFunction(f)
  PROVE  /\ Sealed
         /\ f \in DOMAIN cur'.conns
         /\ f \notin DOMAIN cur.conns => cur'.conns[f].inputs = NewInputs(f)
<1> DEFINE C == WithEntry(cur.conns, f)
           F == cur.functions \cup {f}
<1>1. /\ cur = MapOf(cur.conns, cur.canvas, cur.functions, cur.level, cur.inline)
      /\ IsDict(cur.conns) /\ cur.canvas \in SUBSET SourceNodes
      /\ cur.functions \in SUBSET FunctionNodes
      /\ cur.level \in TargetNodes \cup {NoNode} /\ InlineIsSound(cur.inline)
      /\ CardsStay => cur.functions \subseteq DOMAIN cur.conns
  BY SoundParts
<1>2. f \in Nodes BY DEF Nodes
<1>3. /\ IsDict(C) /\ DOMAIN C = DOMAIN cur.conns \cup {f}
      /\ f \notin DOMAIN cur.conns => C[f].inputs = NewInputs(f)
  BY <1>1, <1>2, WithEntryIsDict
<1>4. Commit(Recarded(cur, C, F), SharingAll(C)) BY DEF AddFunction, Recarded
<1> HIDE DEF C
<1>5. Recarded(cur, C, F) = MapOf(C, cur.canvas, F, cur.level, cur.inline) BY <1>1, MapRewritten
<1>6. F \in SUBSET FunctionNodes /\ (CardsStay => F \subseteq DOMAIN C) BY <1>1, <1>3
<1> HIDE DEF F
<1>7. SoundMap(MapOf(C, cur.canvas, F, cur.level, cur.inline)) BY <1>1, <1>3, <1>6, MapOfIsSound
<1>8. SoundMap(SharingAll(C))
  <2>1. CardsStay => cur.functions \subseteq DOMAIN C BY <1>3, KeptCards
  <2> QED BY <1>1, <1>3, <2>1, SharedIsSound
<1>9. Sealed BY <1>4, <1>5, <1>7, <1>8 DEF Sealed
<1>10. cur' = MapOf(C, cur.canvas, F, cur.level, cur.inline) BY <1>4, <1>5 DEF Commit
<1>11. cur'.conns = C BY <1>10 DEF MapOf
<1> QED BY <1>3, <1>9, <1>11

LEMMA DeleteFunctionIsSealed ==
  ASSUME SoundMap(cur), NEW f, DeleteFunction(f), "deleteFunction" \in MapEdits
  PROVE  Sealed
<1> DEFINE C == Without(cur.conns, f)
           F == cur.functions \ {f}
<1>1. /\ cur = MapOf(cur.conns, cur.canvas, cur.functions, cur.level, cur.inline)
      /\ IsDict(cur.conns) /\ cur.canvas \in SUBSET SourceNodes
      /\ cur.functions \in SUBSET FunctionNodes
      /\ cur.level \in TargetNodes \cup {NoNode} /\ InlineIsSound(cur.inline)
      /\ CardsStay => cur.functions \subseteq DOMAIN cur.conns
  BY SoundParts
<1>2. IsDict(C) /\ DOMAIN C = DOMAIN cur.conns \ {f} BY <1>1, WithoutIsDict
<1>3. Commit(Recarded(cur, C, F), SharingAll(C)) BY DEF DeleteFunction, Recarded
<1> HIDE DEF C
<1>4. Recarded(cur, C, F) = MapOf(C, cur.canvas, F, cur.level, cur.inline) BY <1>1, MapRewritten
<1>5. F \in SUBSET FunctionNodes /\ (CardsStay => F \subseteq DOMAIN C) BY <1>1, <1>2
<1> HIDE DEF F
<1>6. SoundMap(MapOf(C, cur.canvas, F, cur.level, cur.inline)) BY <1>1, <1>2, <1>5, MapOfIsSound
<1>7. "undo" \in MapEdits => SoundMap(SharingAll(C))
  <2>1. SUFFICES ASSUME "undo" \in MapEdits PROVE SoundMap(SharingAll(C)) OBVIOUS
  <2>2. ~CardsStay BY <2>1 DEF CardsStay
  <2> QED BY <1>1, <1>2, <2>2, SharedIsSound
<1> QED BY <1>3, <1>4, <1>6, <1>7 DEF Sealed

LEMMA MadeIsDict ==
  ASSUME SoundMap(cur), NEW s \in Givers, NEW t \in Takers, NEW i \in Nat,
         t \in FunctionNodes /\ i = 0 => Roomy(cur.conns, t)
  PROVE  IsDict(Made(s, t, i)) /\ DOMAIN cur.conns \subseteq DOMAIN Made(s, t, i)
<1>1. IsDict(cur.conns) BY DEF SoundMap
<1>2. CASE i = 0
  <2>1. t \in FunctionNodes \/ t \in SchemaNodes BY DEF Takers, SchemaNodes
  <2>2. Roomy(cur.conns, t) BY <1>2, <2>1, SchemaNodesAreRoomy
  <2>3. Made(s, t, i) = Connect(cur.conns, s, t) BY <1>2 DEF Made
  <2> QED BY <1>1, <2>2, <2>3, ConnectIsDict
<1>3. CASE i # 0
  <2>1. Made(s, t, i) = SetValue(cur.conns, t, i, s) BY <1>3 DEF Made
  <2>2. s \in InputValues /\ i \in Nat \ {0} BY <1>3 DEF InputValues
  <2> QED BY <1>1, <2>1, <2>2, SetValueIsDict
<1> QED BY <1>2, <1>3

LEMMA MakeConnectionIsSealed ==
  ASSUME SoundMap(cur), NEW s \in Givers, NEW t \in Takers, NEW i \in Nat,
         t \in FunctionNodes /\ i = 0 => Roomy(cur.conns, t), MakeConnection(s, t, i)
  PROVE  Sealed
<1> DEFINE conns == Made(s, t, i)
           sources == IF s \in FunctionNodes THEN Upstream(conns, {s}) \cap SourceNodes ELSE {s}
           targets == IF t \in FunctionNodes THEN Downstream(conns, {t}) \cap TargetNodes ELSE {t}
<1>1. IsDict(conns) /\ DOMAIN cur.conns \subseteq DOMAIN conns BY MadeIsDict
<1>2. sources \in SUBSET SourceNodes /\ targets \in SUBSET TargetNodes
  <2> HIDE DEF conns
  <2> QED BY DEF Givers, Takers
<1>3. cur.canvas \in SUBSET SourceNodes BY DEF SoundMap
<1>4. PICK C, S : /\ Commit([cur EXCEPT !.conns = C, !.canvas = S], [SharingEntries(C) EXCEPT !.canvas = S])
                  /\ S \in SUBSET SourceNodes
                  /\ C = conns \/ \E u \in targets : C = WithAllArrays(conns, sources, u)
  <2>1. CASE sources = {} \/ targets = {}
    <3>1. Commit([cur EXCEPT !.conns = conns, !.canvas = cur.canvas],
                 [SharingEntries(conns) EXCEPT !.canvas = cur.canvas])
      BY <2>1 DEF MakeConnection
    <3> HIDE DEF conns, sources, targets
    <3> QED BY <1>3, <3>1
  <2>2. CASE ~(sources = {} \/ targets = {})
    <3>1. PICK u \in targets :
            LET C == WithAllArrays(conns, sources, u)
                S == cur.canvas \cup (Named(C, cur.level) \cap SourceNodes)
            IN  Commit([cur EXCEPT !.conns = C, !.canvas = S], [SharingEntries(C) EXCEPT !.canvas = S])
      BY <2>2 DEF MakeConnection
    <3> DEFINE C == WithAllArrays(conns, sources, u)
               S == cur.canvas \cup (Named(C, cur.level) \cap SourceNodes)
    <3>2. S \in SUBSET SourceNodes BY <1>3
    <3>3. Commit([cur EXCEPT !.conns = C, !.canvas = S], [SharingEntries(C) EXCEPT !.canvas = S])
      BY <3>1
    <3>4. C = WithAllArrays(conns, sources, u) OBVIOUS
    <3> HIDE DEF conns, sources, targets, C, S
    <3> QED BY <3>2, <3>3, <3>4
  <2> QED BY <2>1, <2>2
<1> HIDE DEF conns, sources, targets
<1>5. IsDict(C) /\ DOMAIN cur.conns \subseteq DOMAIN C
  <2>1. CASE C = conns BY <1>1, <2>1
  <2>2. CASE \E u \in targets : C = WithAllArrays(conns, sources, u)
    <3>1. PICK u \in targets : C = WithAllArrays(conns, sources, u) BY <2>2
    <3>2. u \in TargetNodes BY <1>2
    <3>3. IsDict(C) /\ DOMAIN conns \subseteq DOMAIN C BY <1>1, <1>2, <3>1, <3>2, WithAllArraysIsDict
    <3> QED BY <1>1, <3>3
  <2> QED BY <1>4, <2>1, <2>2
<1>6. CardsStay => cur.functions \subseteq DOMAIN C BY <1>5, KeptCards
<1> DEFINE new == [cur EXCEPT !.conns = C, !.canvas = S]
           old == [SharingEntries(C) EXCEPT !.canvas = S]
<1>7. new \in {[cur EXCEPT !.conns = C], [cur EXCEPT !.conns = C, !.canvas = S]} OBVIOUS
<1>8. old \in {SharingAll(C), SharingEntries(C), [SharingEntries(C) EXCEPT !.canvas = S]} OBVIOUS
<1>9. Commit(new, old) BY <1>4
<1> HIDE DEF new, old
<1> QED BY <1>4, <1>5, <1>6, <1>7, <1>8, <1>9, DictSealed

LEMMA CardsAreEnds ==
  ASSUME SoundMap(cur)
  PROVE  /\ cur.canvas \cup cur.functions \subseteq Givers
         /\ cur.functions \cup OnLevel \subseteq Takers
  BY LevelIsTarget DEF SoundMap, Givers, Takers

LEMMA DragIsSealed ==
  ASSUME SoundMap(cur), NEW s, NEW t, NEW i \in Nat, Drag(s, t, i)
  PROVE  Sealed
<1>1. s \in Givers /\ t \in Takers BY CardsAreEnds DEF Drag
<1>2. MakeConnection(s, t, i) /\ ~MakeThrows(s, t, i) BY DEF Drag, MakeConnection
<1>3. ASSUME t \in FunctionNodes, i = 0 PROVE Roomy(cur.conns, t)
  <2>1. Arity[t] # 0 BY <1>2, <1>3 DEF MakeThrows
  <2>2. SlotAvailable(cur.conns, t) BY <1>3 DEF Drag
  <2>3. IsDict(cur.conns) BY DEF SoundMap
  <2> QED BY <1>3, <2>1, <2>2, <2>3, SlotAvailableIsRoom
<1> QED BY <1>1, <1>2, <1>3, MakeConnectionIsSealed

(* An edit of the dictionary only. *)
LEMMA RewiredIsSealed ==
  ASSUME SoundMap(cur), NEW C, IsDict(C), DOMAIN cur.conns \subseteq DOMAIN C,
         NEW old \in {SharingAll(C), SharingEntries(C)}, Commit([cur EXCEPT !.conns = C], old)
  PROVE  Sealed
<1> DEFINE new == [cur EXCEPT !.conns = C]
           S == {}
<1>1. CardsStay => cur.functions \subseteq DOMAIN C BY KeptCards
<1>2. S \in SUBSET SourceNodes OBVIOUS
<1>3. new \in {[cur EXCEPT !.conns = C], [cur EXCEPT !.conns = C, !.canvas = S]} OBVIOUS
<1>4. old \in {SharingAll(C), SharingEntries(C), [SharingEntries(C) EXCEPT !.canvas = S]} OBVIOUS
<1> HIDE DEF new, S
<1>5. Commit(new, old) BY DEF new
<1> QED BY <1>1, <1>2, <1>3, <1>4, <1>5, DictSealed

LEMMA SetConnectionInputIsSealed ==
  ASSUME SoundMap(cur), NEW t, NEW i \in Nat \ {0}, NEW v, SetConnectionInput(t, i, v)
  PROVE  Sealed
<1> DEFINE C == SetValue(cur.conns, t, i, v)
<1>1. t \in Takers BY CardsAreEnds DEF SetConnectionInput
<1>2. v \in InputValues BY CardsAreEnds DEF SetConnectionInput, InputValues
<1>3. IsDict(cur.conns) BY DEF SoundMap
<1>4. Commit([cur EXCEPT !.conns = C], SharingEntries(C)) BY DEF SetConnectionInput
<1>5. IsDict(C) /\ DOMAIN cur.conns \subseteq DOMAIN C BY <1>1, <1>2, <1>3, SetValueIsDict
<1> HIDE DEF C
<1> QED BY <1>4, <1>5, RewiredIsSealed

LEMMA FieldsAreCounted ==
  ASSUME SoundMap(cur), NEW f, ChangeFields(f)
  PROVE  Cardinality(Fields(cur.conns, f)) + 1 \in Nat \ {0}
<1>1. f \in DOMAIN cur.conns /\ Manifold(f) /\ IsDict(cur.conns) BY DEF ChangeFields, SoundMap
<1>2. cur.conns[f].inputs \in Filled(f) /\ f \in Nodes BY <1>1, EntryIsTyped DEF IsDict
<1>3. cur.conns[f].inputs[1] \in Seq(InputValues) BY <1>1, <1>2, FilledIsTyped
<1>4. Fields(cur.conns, f) = 1..Len(cur.conns[f].inputs[1]) BY <1>1, <1>3 DEF Fields
<1>5. IsFiniteSet(Fields(cur.conns, f)) BY <1>3, <1>4, FS_Interval
<1>6. Cardinality(Fields(cur.conns, f)) \in Nat BY <1>5, FS_CardinalityType
<1> QED BY <1>6

LEMMA ChangeFieldsIsSealed ==
  ASSUME SoundMap(cur), NEW f, ChangeFields(f)
  PROVE  Sealed
<1> DEFINE n == Cardinality(Fields(cur.conns, f)) + 1
<1>1. f \in DOMAIN cur.conns /\ f \in Takers /\ Manifold(f) /\ IsDict(cur.conns)
  BY CardsAreEnds DEF ChangeFields, SoundMap
<1>2. n \in Nat \ {0} BY FieldsAreCounted
<1>3. PICK C \in {SetValue(cur.conns, f, n, Empty)}
                   \cup {RemoveField(cur.conns, f, i) : i \in Fields(cur.conns, f)} :
        Commit([cur EXCEPT !.conns = C], SharingEntries(C))
  BY DEF ChangeFields
<1> HIDE DEF n
<1>4. Empty \in InputValues BY DEF InputValues
<1>5. CASE C = SetValue(cur.conns, f, n, Empty)
  <2>1. IsDict(C) /\ DOMAIN cur.conns \subseteq DOMAIN C BY <1>1, <1>2, <1>4, <1>5, SetValueIsDict
  <2> QED BY <1>3, <2>1, RewiredIsSealed
<1>6. CASE \E i \in Fields(cur.conns, f) : C = RemoveField(cur.conns, f, i)
  <2>1. IsDict(C) /\ DOMAIN cur.conns \subseteq DOMAIN C BY <1>1, <1>6, RemoveFieldIsDict
  <2> QED BY <1>3, <2>1, RewiredIsSealed
<1> QED BY <1>3, <1>5, <1>6

LEMMA DeleteEdgeIsSealed ==
  ASSUME SoundMap(cur), NEW e, DeleteEdge(e)
  PROVE  Sealed
<1> DEFINE cut == Disconnect(cur.conns, e.from, e.to, e.port)
           sources == IF e.from \in SourceNodes THEN {e.from} ELSE Upstream(cut, {e.from}) \cap SourceNodes
<1>1. IsDict(cut) /\ DOMAIN cut = DOMAIN cur.conns BY DisconnectIsDict DEF SoundMap
<1>2. PICK C \in IF sources = {} THEN {cut} ELSE UNION {DeletedArrays(cut, s) : s \in sources} :
        Commit([cur EXCEPT !.conns = C], SharingEntries(C))
  BY DEF DeleteEdge
<1>3. sources \subseteq SourceNodes OBVIOUS
<1> HIDE DEF cut, sources
<1>4. CASE C = cut BY <1>1, <1>2, <1>4, RewiredIsSealed
<1>5. CASE \E s \in sources : C \in DeletedArrays(cut, s)
  <2>1. IsDict(C) /\ DOMAIN C = DOMAIN cut BY <1>1, <1>3, <1>5, DeletedArraysAreDicts
  <2> QED BY <1>1, <1>2, <2>1, RewiredIsSealed
<1> QED BY <1>2, <1>4, <1>5

-----------------------------------------------------------------------------
(* The stacks of sound maps.                                               *)

LEMMA ElementsOfAppend ==
  ASSUME NEW seq, IsSeq(seq), NEW e
  PROVE  Elements(Append(seq, e)) \subseteq Elements(seq) \cup {e}
<1>1. Len(seq) \in Nat /\ DOMAIN seq = 1..Len(seq) BY LenIsNat
<1> QED BY <1>1, AppendIsSeq DEF Elements

LEMMA ElementsOfSubSeq ==
  ASSUME NEW seq, IsSeq(seq), NEW a \in Nat \ {0}, NEW b \in Nat, a <= b + 1, b <= Len(seq)
  PROVE  Elements(SubSeq(seq, a, b)) \subseteq Elements(seq)
<1>1. Len(seq) \in Nat /\ DOMAIN seq = 1..Len(seq) BY LenIsNat
<1>2. /\ DOMAIN SubSeq(seq, a, b) = 1..(b - a + 1)
      /\ \A i \in 1..(b - a + 1) : SubSeq(seq, a, b)[i] = seq[a + i - 1]
  BY SubSeqIsSeq
<1>3. \A i \in 1..(b - a + 1) : a + i - 1 \in 1..Len(seq) BY <1>1
<1> QED BY <1>1, <1>2, <1>3 DEF Elements

LEMMA ElementsOfKeepLast ==
  ASSUME NEW seq, IsSeq(seq), NEW n \in Nat
  PROVE  Elements(KeepLast(seq, n)) \subseteq Elements(seq)
<1>1. Len(seq) \in Nat /\ DOMAIN seq = 1..Len(seq) BY LenIsNat
<1>2. CASE Len(seq) <= n BY <1>2 DEF KeepLast
<1>3. CASE ~(Len(seq) <= n)
  <2> DEFINE a == Len(seq) - n + 1
             b == Len(seq)
  <2>1. a \in Nat \ {0} /\ b \in Nat /\ a <= b + 1 /\ b <= Len(seq) BY <1>1, <1>3
  <2>2. KeepLast(seq, n) = SubSeq(seq, a, b) BY <1>3 DEF KeepLast
  <2> HIDE DEF a, b
  <2> QED BY <2>1, <2>2, ElementsOfSubSeq
<1> QED BY <1>2, <1>3

LEMMA ElementsOfPopped ==
  ASSUME NEW seq, IsSeq(seq), seq # <<>>
  PROVE  /\ Elements(SubSeq(seq, 1, Len(seq) - 1)) \subseteq Elements(seq)
         /\ seq[Len(seq)] \in Elements(seq)
<1>1. Len(seq) \in Nat /\ DOMAIN seq = 1..Len(seq) BY LenIsNat
<1>2. Len(seq) > 0 BY <1>1 DEF IsSeq
<1> DEFINE b == Len(seq) - 1
<1>3. b \in Nat /\ 1 <= b + 1 /\ b <= Len(seq) BY <1>1, <1>2
<1> HIDE DEF b
<1>4. Elements(SubSeq(seq, 1, b)) \subseteq Elements(seq) BY <1>3, ElementsOfSubSeq
<1> QED BY <1>1, <1>2, <1>4 DEF b, Elements

(* Every map of the slice is sound. *)
AllAreSound ==
  /\ SoundMap(cur) /\ SoundMap(pristine) /\ isDirty \in BOOLEAN
  /\ AllSound(undoStack) /\ AllSound(redoStack)

LEMMA SealedKeepsSound ==
  ASSUME StacksOK, AllAreSound, Sealed
  PROVE  AllAreSound'
<1>1. PICK new, old : Commit(new, old) /\ SoundMap(new) /\ ("undo" \in MapEdits => SoundMap(old))
  BY DEF Sealed
<1>2. SoundMap(cur') /\ SoundMap(pristine') /\ isDirty' \in BOOLEAN
  BY <1>1 DEF Commit, AllAreSound
<1>3. CASE "undo" \notin MapEdits
  <2>1. undoStack' = undoStack /\ redoStack' = redoStack BY <1>1, <1>3 DEF Commit
  <2> QED BY <1>2, <2>1 DEF AllAreSound
<1>4. CASE "undo" \in MapEdits
  <2> DEFINE kept == KeepLast(undoStack, UndoDepth - 1)
  <2>1. undoStack' = Append(kept, old) /\ redoStack' = <<>> BY <1>1, <1>4 DEF Commit
  <2>2. IsSeq(undoStack) /\ UndoDepth - 1 \in Nat BY MapEditsAreKnown DEF StacksOK
  <2>3. IsSeq(kept) /\ Elements(kept) \subseteq Elements(undoStack)
    BY <2>2, KeepLastIsSeq, ElementsOfKeepLast
  <2> HIDE DEF kept
  <2>4. Elements(undoStack') \subseteq Elements(undoStack) \cup {old}
    BY <2>1, <2>3, ElementsOfAppend
  <2>5. AllSound(undoStack') BY <1>1, <1>4, <2>4 DEF AllSound, AllAreSound
  <2>6. AllSound(redoStack') BY <2>1 DEF AllSound, Elements
  <2> QED BY <1>2, <2>5, <2>6 DEF AllAreSound
<1> QED BY <1>3, <1>4

LEMMA UndoKeepsSound ==
  ASSUME StacksOK, AllAreSound, Undo
  PROVE  AllAreSound'
<1>1. undoStack # <<>> /\ IsSeq(undoStack) /\ IsSeq(redoStack) BY DEF Undo, StacksOK
<1>2. /\ redoStack' = Append(redoStack, cur) /\ cur' = undoStack[Len(undoStack)]
      /\ undoStack' = SubSeq(undoStack, 1, Len(undoStack) - 1)
      /\ isDirty' = TRUE /\ pristine' = pristine
  BY DEF Undo
<1>3. /\ Elements(undoStack') \subseteq Elements(undoStack) /\ cur' \in Elements(undoStack)
  BY <1>1, <1>2, ElementsOfPopped
<1>4. Elements(redoStack') \subseteq Elements(redoStack) \cup {cur} BY <1>1, <1>2, ElementsOfAppend
<1> QED BY <1>2, <1>3, <1>4 DEF AllAreSound, AllSound

LEMMA RedoKeepsSound ==
  ASSUME StacksOK, AllAreSound, Redo
  PROVE  AllAreSound'
<1>1. redoStack # <<>> /\ IsSeq(undoStack) /\ IsSeq(redoStack) BY DEF Redo, StacksOK
<1>2. /\ undoStack' = Append(undoStack, cur) /\ cur' = redoStack[Len(redoStack)]
      /\ redoStack' = SubSeq(redoStack, 1, Len(redoStack) - 1)
      /\ isDirty' = TRUE /\ pristine' = pristine
  BY DEF Redo
<1>3. /\ Elements(redoStack') \subseteq Elements(redoStack) /\ cur' \in Elements(redoStack)
  BY <1>1, <1>2, ElementsOfPopped
<1>4. Elements(undoStack') \subseteq Elements(undoStack) \cup {cur} BY <1>1, <1>2, ElementsOfAppend
<1> QED BY <1>2, <1>3, <1>4 DEF AllAreSound, AllSound

LEMMA DiscardKeepsSound ==
  ASSUME AllAreSound, DiscardDataMap
  PROVE  AllAreSound'
<1>1. /\ cur' = pristine /\ pristine' = pristine /\ isDirty' = FALSE
      /\ undoStack' = <<>> /\ redoStack' = <<>>
  BY DEF DiscardDataMap
<1>2. AllSound(undoStack') /\ AllSound(redoStack') BY <1>1 DEF AllSound, Elements
<1> QED BY <1>1, <1>2 DEF AllAreSound

-----------------------------------------------------------------------------
(* A function is put on an edge.                                           *)

LEMMA PickInlineIsSound ==
  ASSUME SoundMap(cur), NEW f \in FreshFunctions, PickInline(f)
  PROVE  Sealed /\ InsertingIsSound'
<1>1. /\ f \in FunctionNodes /\ f \notin DOMAIN cur.conns
      /\ \A i \in DOMAIN cur.inline : cur.inline[i] # f
  BY FreshIsNew
<1>2. AddFunction(f) /\ cur.inline # <<>> BY DEF PickInline
<1>3. Sealed /\ f \in DOMAIN cur'.conns /\ cur'.conns[f].inputs = NewInputs(f)
  BY <1>1, <1>2, AddFunctionIsSealed
<1>4. /\ cur.inline \in Givers \X Takers \X Nat
      /\ cur.inline[2] \in FunctionNodes => cur.inline[3] # 0
  BY <1>2 DEF SoundMap, InlineIsSound
<1>5. /\ cur.inline[1] \in Givers /\ cur.inline[2] \in Takers /\ cur.inline[3] \in Nat
      /\ cur.inline[2] # f
  BY <1>1, <1>4
<1>6. inserting' = [step |-> 1, fn |-> f, from |-> cur.inline[1], to |-> cur.inline[2],
                    port |-> cur.inline[3]]
  BY DEF PickInline
<1>7. /\ inserting' \in [step : 1..4, fn : FunctionNodes, from : Givers, to : Takers, port : Nat]
      /\ inserting'.to = cur.inline[2] /\ inserting'.port = cur.inline[3]
      /\ inserting'.fn = f
  BY <1>1, <1>5, <1>6
<1> QED BY <1>3, <1>4, <1>5, <1>7 DEF InsertingIsSound

LEMMA InlineStepIsTyped ==
  ASSUME InsertingIsSound, NEW n \in 1..3, InlineStep(n)
  PROVE  /\ inserting.step = n
         /\ inserting.fn \in FunctionNodes /\ inserting.from \in Givers
         /\ inserting.to \in Takers /\ inserting.port \in Nat
         /\ inserting.to \in FunctionNodes => inserting.port # 0
         /\ n = 1 => inserting.fn # inserting.to
         /\ n \in {1, 2} => /\ inserting.fn \in DOMAIN cur.conns
                            /\ cur.conns[inserting.fn].inputs = NewInputs(inserting.fn)
         /\ inserting' \in [step : 1..4, fn : FunctionNodes, from : Givers, to : Takers, port : Nat]
         /\ inserting'.step = n + 1 /\ inserting'.fn = inserting.fn
         /\ inserting'.to = inserting.to /\ inserting'.port = inserting.port
<1>1. inserting # Idle /\ inserting.step = n /\ inserting' = [inserting EXCEPT !.step = n + 1]
  BY DEF InlineStep
<1>2. /\ inserting \in [step : 1..4, fn : FunctionNodes, from : Givers, to : Takers, port : Nat]
      /\ inserting.to \in FunctionNodes => inserting.port # 0
      /\ n = 1 => inserting.fn # inserting.to
      /\ n \in {1, 2} => /\ inserting.fn \in DOMAIN cur.conns
                         /\ cur.conns[inserting.fn].inputs = NewInputs(inserting.fn)
  BY <1>1 DEF InsertingIsSound
<1>3. n + 1 \in 1..4 OBVIOUS
<1>4. /\ inserting' \in [step : 1..4, fn : FunctionNodes, from : Givers, to : Takers, port : Nat]
      /\ inserting'.step = n + 1 /\ inserting'.fn = inserting.fn
      /\ inserting'.to = inserting.to /\ inserting'.port = inserting.port
  BY <1>1, <1>2, <1>3
<1> QED BY <1>1, <1>2, <1>4

(* From the third step on nothing is asked of the dictionary. *)
LEMMA LaterStepIsSound ==
  ASSUME InsertingIsSound, NEW n \in 2..3, InlineStep(n)
  PROVE  InsertingIsSound'
<1>1. n \in 1..3 /\ n + 1 \notin {1, 2} OBVIOUS
<1> QED BY <1>1, InlineStepIsTyped DEF InsertingIsSound

LEMMA InlineDisconnectIsSound ==
  ASSUME SoundMap(cur), InsertingIsSound, InlineDisconnect
  PROVE  Sealed /\ InsertingIsSound'
<1> DEFINE f == inserting.fn
           C == Disconnect(cur.conns, inserting.from, inserting.to, inserting.port)
<1>1. InlineStep(1) /\ 1 \in 1..3 BY DEF InlineDisconnect
<1>2. /\ f \in FunctionNodes /\ f # inserting.to /\ f \in DOMAIN cur.conns
      /\ cur.conns[f].inputs = NewInputs(f)
      /\ inserting.to \in FunctionNodes => inserting.port # 0
      /\ inserting' \in [step : 1..4, fn : FunctionNodes, from : Givers, to : Takers, port : Nat]
      /\ inserting'.step = 2 /\ inserting'.fn = f
      /\ inserting'.to = inserting.to /\ inserting'.port = inserting.port
  BY <1>1, InlineStepIsTyped
<1>3. IsDict(cur.conns) BY DEF SoundMap
<1>4. /\ IsDict(C) /\ DOMAIN C = DOMAIN cur.conns
      /\ C[f].inputs = NewInputs(f)
  BY <1>2, <1>3, DisconnectIsDict
<1>5. Commit([cur EXCEPT !.conns = C], SharingAll(C)) BY DEF InlineDisconnect
<1> HIDE DEF C, f
<1>6. Sealed
  <2> DEFINE old == SharingAll(C)
  <2>1. old \in {SharingAll(C), SharingEntries(C)} OBVIOUS
  <2>2. Commit([cur EXCEPT !.conns = C], old) BY <1>5
  <2> HIDE DEF old
  <2> QED BY <1>4, <2>1, <2>2, RewiredIsSealed
<1>7. cur'.conns = C
  <2>1. cur' = Rewired(cur, C) BY <1>5 DEF Commit, Rewired
  <2>2. cur = MapOf(cur.conns, cur.canvas, cur.functions, cur.level, cur.inline) BY SoundParts
  <2>3. cur' = MapOf(C, cur.canvas, cur.functions, cur.level, cur.inline) BY <2>1, <2>2, MapRewritten
  <2> QED BY <2>3 DEF MapOf
<1>8. f \in DOMAIN cur'.conns /\ cur'.conns[f].inputs = NewInputs(f) BY <1>2, <1>4, <1>7
<1>9. InsertingIsSound' BY <1>2, <1>8 DEF InsertingIsSound
<1> QED BY <1>6, <1>9

(* The function put on an edge has room for what the edge came from. *)
LEMMA InsertedHasRoom ==
  ASSUME SoundMap(cur), InsertingIsSound, InlineInput
  PROVE  /\ inserting.from \in Givers /\ inserting.fn \in Takers /\ Roomy(cur.conns, inserting.fn)
         /\ MakeConnection(inserting.from, inserting.fn, 0)
<1> DEFINE f == inserting.fn
<1>1. InlineStep(2) /\ 2 \in 1..3 /\ MakeConnection(inserting.from, f, 0) BY DEF InlineInput
<1>2. /\ inserting.from \in Givers /\ f \in FunctionNodes /\ f \in DOMAIN cur.conns
      /\ cur.conns[f].inputs = NewInputs(f)
  BY <1>1, InlineStepIsTyped
<1>3. Arity[f] # 0
  <2>1. ~MakeThrows(inserting.from, f, 0) BY <1>1 DEF MakeConnection
  <2> QED BY <1>2, <2>1 DEF MakeThrows
<1>4. f \in Nodes /\ f \in Takers BY <1>2 DEF Nodes, Takers
<1>5. Roomy(cur.conns, f)
  <2>1. SUFFICES ASSUME ~Manifold(f)
        PROVE  \E i \in DOMAIN WithEntry(cur.conns, f)[f].inputs :
                 WithEntry(cur.conns, f)[f].inputs[i] = <<>>
    BY DEF Roomy
  <2>2. WithEntry(cur.conns, f)[f] = cur.conns[f] BY <1>2, <1>4, WithEntryIsDict DEF SoundMap
  <2>3. Arity[f] \in Nat \ {0} /\ NewInputs(f) = [i \in 1..Arity[f] |-> <<>>]
    BY <1>2, <1>3, <1>4, <2>1, Slots
  <2>4. 1 \in DOMAIN NewInputs(f) /\ NewInputs(f)[1] = <<>> BY <2>3
  <2> QED BY <1>2, <2>2, <2>4
<1> QED BY <1>1, <1>2, <1>4, <1>5

LEMMA InlineInputIsSound ==
  ASSUME SoundMap(cur), InsertingIsSound, InlineInput
  PROVE  Sealed /\ InsertingIsSound'
<1>1. InlineStep(2) /\ 2 \in 2..3 BY DEF InlineInput
<1>2. /\ inserting.from \in Givers /\ inserting.fn \in Takers /\ Roomy(cur.conns, inserting.fn)
      /\ MakeConnection(inserting.from, inserting.fn, 0)
  BY InsertedHasRoom
<1>3. 0 \in Nat OBVIOUS
<1>4. Sealed BY <1>2, <1>3, MakeConnectionIsSealed
<1> QED BY <1>1, <1>4, LaterStepIsSound

LEMMA InlineOutputIsSound ==
  ASSUME SoundMap(cur), InsertingIsSound, InlineOutput
  PROVE  Sealed /\ InsertingIsSound'
<1>1. /\ InlineStep(3) /\ 3 \in 1..3 /\ 3 \in 2..3
      /\ MakeConnection(inserting.fn, inserting.to, inserting.port)
  BY DEF InlineOutput
<1>2. /\ inserting.fn \in FunctionNodes /\ inserting.to \in Takers /\ inserting.port \in Nat
      /\ inserting.to \in FunctionNodes => inserting.port # 0
  BY <1>1, InlineStepIsTyped
<1>3. inserting.fn \in Givers BY <1>2 DEF Givers
<1>4. Sealed BY <1>1, <1>2, <1>3, MakeConnectionIsSealed
<1> QED BY <1>1, <1>4, LaterStepIsSound

-----------------------------------------------------------------------------
(* The invariant is inductive.                                             *)

LEMMA CanvasEditIsSealed ==
  ASSUME SoundMap(cur), CanvasEdit
  PROVE  Sealed
<1>1. CASE \E x \in SourceNodes : AddSource(x) BY <1>1, AddSourceIsSealed
<1>2. CASE \E x \in SourceNodes : RemoveSource(x) BY <1>2, RemoveSourceIsSealed
<1>3. CASE \E f \in FreshFunctions : AddFunction(f) BY <1>3, FreshIsNew, AddFunctionIsSealed
<1>4. CASE \E s, t \in Nodes : Drag(s, t, 0)
  <2>1. 0 \in Nat OBVIOUS
  <2> QED BY <1>4, <2>1, DragIsSealed
<1>5. CASE \E s \in Nodes, t \in FunctionNodes, i \in 1..MaxFields : Drag(s, t, i)
  <2>1. \A i \in 1..MaxFields : i \in Nat OBVIOUS
  <2> QED BY <1>5, <2>1, DragIsSealed
<1>6. CASE \E t \in Nodes, i \in 1..MaxFields, v \in Nodes \cup {Custom, Empty} :
             SetConnectionInput(t, i, v)
  <2>1. \A i \in 1..MaxFields : i \in Nat \ {0} OBVIOUS
  <2> QED BY <1>6, <2>1, SetConnectionInputIsSealed
<1>7. CASE \E f \in FunctionNodes : ChangeFields(f) BY <1>7, ChangeFieldsIsSealed
<1>8. CASE \E e \in Edges : DeleteEdge(e) BY <1>8, DeleteEdgeIsSealed
<1>9. CASE "deleteFunction" \in MapEdits /\ \E f \in FunctionNodes : DeleteFunction(f)
  BY <1>9, DeleteFunctionIsSealed
<1>10. CASE \E e \in Edges : SetInline(<<e.from, e.to, e.port>>)
  <2>1. PICK e \in Edges : SetInline(<<e.from, e.to, e.port>>) BY <1>10
  <2>2. /\ e.from \in Givers /\ e.to \in Takers /\ e.port \in Nat
        /\ e.to \in FunctionNodes => e.port # 0
    BY EdgeEnds
  <2>3. InlineIsSound(<<e.from, e.to, e.port>>) BY <2>2 DEF InlineIsSound
  <2> QED BY <2>1, <2>3, SetInlineIsSealed
<1>11. CASE SetInline(<<>>)
  <2>1. InlineIsSound(<<>>) BY DEF InlineIsSound
  <2> QED BY <1>11, <2>1, SetInlineIsSealed
<1> QED BY <1>1, <1>2, <1>3, <1>4, <1>5, <1>6, <1>7, <1>8, <1>9, <1>10, <1>11 DEF CanvasEdit

(* The connections a loaded map may have are well formed. *)
MapsAreSound == \A C \in Maps : IsDict(C)

LEMMA InitIsSound ==
  ASSUME MapsAreSound, MapInit
  PROVE  DataInv
<1>1. PICK C \in Maps : cur = LoadedMap(C) BY DEF MapInit
<1>2. cur = MapOf(C, {}, {}, NoNode, <<>>) BY <1>1 DEF LoadedMap, MapOf
<1>3. IsDict(C) /\ InlineIsSound(<<>>) BY DEF MapsAreSound, InlineIsSound
<1> DEFINE S == {}
<1>4. S \in SUBSET SourceNodes /\ S \in SUBSET FunctionNodes /\ S \subseteq DOMAIN C
      /\ NoNode \in TargetNodes \cup {NoNode}
  OBVIOUS
<1>5. cur = MapOf(C, S, S, NoNode, <<>>) BY <1>2
<1> HIDE DEF S
<1>6. SoundMap(cur) BY <1>3, <1>4, <1>5, MapOfIsSound
<1>7. pristine = cur /\ isDirty = FALSE /\ undoStack = <<>> /\ redoStack = <<>> /\ inserting = Idle
  BY DEF MapInit
<1>8. AllSound(undoStack) /\ AllSound(redoStack) BY <1>7 DEF AllSound, Elements
<1>9. InsertingIsSound BY <1>7 DEF InsertingIsSound
<1> QED BY <1>6, <1>7, <1>8, <1>9, InitStacks DEF DataInv

LEMMA NextIsSound ==
  ASSUME DataInv, [MapNext]_mapVars
  PROVE  DataInv'
<1>1. StacksOK /\ AllAreSound /\ SoundMap(cur) /\ InsertingIsSound BY DEF DataInv, AllAreSound
<1>2. StacksOK' BY <1>1, NextStacks
<1>3. SUFFICES AllAreSound' /\ InsertingIsSound'
  BY <1>2 DEF DataInv, AllAreSound
<1>4. inserting = Idle /\ UNCHANGED inserting => InsertingIsSound' BY DEF InsertingIsSound
<1>5. CASE CanvasIsShown /\ CanvasEdit /\ UNCHANGED inserting
  BY <1>1, <1>4, <1>5, CanvasEditIsSealed, SealedKeepsSound DEF CanvasIsShown
<1>6. CASE \E f \in FreshFunctions : PickInline(f)
  BY <1>1, <1>6, PickInlineIsSound, SealedKeepsSound
<1>7. CASE InlineDisconnect BY <1>1, <1>7, InlineDisconnectIsSound, SealedKeepsSound
<1>8. CASE InlineInput BY <1>1, <1>8, InlineInputIsSound, SealedKeepsSound
<1>9. CASE InlineOutput BY <1>1, <1>9, InlineOutputIsSound, SealedKeepsSound
<1>10. CASE InlineEnds
  <2>1. InlineIsSound(<<>>) BY DEF InlineIsSound
  <2>2. SetInline(<<>>) /\ inserting' = Idle BY <1>10 DEF InlineEnds
  <2>3. InsertingIsSound' BY <2>2 DEF InsertingIsSound
  <2> QED BY <1>1, <2>1, <2>2, <2>3, SetInlineIsSealed, SealedKeepsSound
<1>11. CASE InlineThrows
  BY <1>1, <1>11 DEF InlineThrows, AllAreSound, InsertingIsSound
<1>12. CASE inserting = Idle /\ UNCHANGED inserting /\ \E l \in TargetNodes \cup {NoNode} : SetLevel(l)
  BY <1>1, <1>4, <1>12, SetLevelIsSealed, SealedKeepsSound
<1>13. CASE inserting = Idle /\ UNCHANGED inserting /\ (Undo \/ Redo \/ DiscardDataMap)
  BY <1>1, <1>4, <1>13, UndoKeepsSound, RedoKeepsSound, DiscardKeepsSound
<1>14. CASE inserting = Idle /\ UNCHANGED inserting /\ SaveDataMap
  BY <1>1, <1>4, <1>14 DEF SaveDataMap, AllAreSound
<1>15. CASE UNCHANGED mapVars
  BY <1>1, <1>15 DEF mapVars, AllAreSound, InsertingIsSound
<1> QED BY <1>5, <1>6, <1>7, <1>8, <1>9, <1>10, <1>11, <1>12, <1>13, <1>14, <1>15 DEF MapNext

-----------------------------------------------------------------------------
(* What the invariant says.                                                *)

LEMMA SoundIsTyped ==
  ASSUME NEW m, SoundMap(m)
  PROVE  IsMap(m)
<1>1. IsDict(m.conns) BY DEF SoundMap
<1>2. ASSUME NEW n \in DOMAIN m.conns PROVE IsEntry(n, m.conns[n])
  <2> DEFINE a == m.conns[n].inputs
  <2>1. n \in Nodes /\ a \in Filled(n) /\ m.conns[n].outputs \subseteq Nodes
    BY <1>1, EntryIsTyped DEF IsDict
  <2>2. DOMAIN a = DOMAIN NewInputs(n) /\ \A i \in DOMAIN a : a[i] \in Seq(InputValues)
    BY <2>1, FilledIsTyped
  <2>3. InputValues \subseteq Nodes \cup {Custom, Empty}
    BY DEF InputValues, Givers, Nodes, SchemaNodes
  <2>4. \A s \in Seq(InputValues) : s \in Seq(Nodes \cup {Custom, Empty}) BY <2>3
  <2> QED BY <2>1, <2>2, <2>4 DEF IsEntry
<1>3. m.inline = <<>> \/ m.inline \in Nodes \X Nodes \X Nat
  BY DEF SoundMap, InlineIsSound, Givers, Takers, Nodes, SchemaNodes
<1>4. DOMAIN m.conns \subseteq Nodes BY <1>1 DEF IsDict
<1> QED BY <1>2, <1>3, <1>4 DEF IsMap, SoundMap

LEMMA SoundInvIsTyped == DataInv => MapTypeOK
<1> SUFFICES ASSUME DataInv PROVE MapTypeOK OBVIOUS
<1>1. \A i \in DOMAIN undoStack : SoundMap(undoStack[i]) BY DEF DataInv, AllSound, Elements
<1>2. \A i \in DOMAIN redoStack : SoundMap(redoStack[i]) BY DEF DataInv, AllSound, Elements
<1> QED BY <1>1, <1>2, SoundIsTyped DEF DataInv, MapTypeOK

LEMMA SoundInvIsSingle == DataInv => OneValuePerField
<1> SUFFICES ASSUME DataInv, NEW n \in DOMAIN cur.conns, ~Manifold(n)
             PROVE  \A i \in DOMAIN cur.conns[n].inputs : Len(cur.conns[n].inputs[i]) <= 1
  BY DEF OneValuePerField
<1>1. n \in Nodes /\ cur.conns[n].inputs \in Filled(n)
  BY EntryIsTyped DEF DataInv, SoundMap, IsDict
<1> QED BY <1>1, FilledIsTyped

(* Whatever the user does, whichever map was loaded: the current map, the  *)
(* saved one and all that undo and redo may bring back stay maps, for      *)
(* every pair of schemas and every set of functions, though reducers share *)
(* dictionaries and entries between the maps they push and the new one.    *)
THEOREM MapsAreTyped ==
  ASSUME MapsAreSound
  PROVE  MapSpec => []MapTypeOK
<1>1. MapInit => DataInv BY InitIsSound
<1>2. DataInv /\ [MapNext]_mapVars => DataInv' BY NextIsSound
<1> QED BY <1>1, <1>2, SoundInvIsTyped, PTL DEF MapSpec

(* No sequence of drags, dropdown choices, deletions, insertions on an     *)
(* edge, undos and discards leaves two values in a field of a function     *)
(* with several or in a target that is no array: applyConnectionValue puts *)
(* a value it finds no room for behind another one, but its callers never  *)
(* let it come to that.                                                    *)
THEOREM OneValueInEveryField ==
  ASSUME MapsAreSound
  PROVE  MapSpec => []OneValuePerField
<1>1. MapInit => DataInv BY InitIsSound
<1>2. DataInv /\ [MapNext]_mapVars => DataInv' BY NextIsSound
<1> QED BY <1>1, <1>2, SoundInvIsSingle, PTL DEF MapSpec

(* Every function card has an entry for the dropdowns to read, unless the  *)
(* deletion of a function is undone.                                       *)
THEOREM CardsAlwaysHaveEntries ==
  ASSUME MapsAreSound, CardsStay
  PROVE  MapSpec => []CardsHaveEntries
<1>1. MapInit => DataInv BY InitIsSound
<1>2. DataInv /\ [MapNext]_mapVars => DataInv' BY NextIsSound
<1>3. DataInv => CardsHaveEntries BY DEF DataInv, SoundMap, CardsHaveEntries
<1> QED BY <1>1, <1>2, <1>3, PTL DEF MapSpec

-----------------------------------------------------------------------------
(***************************************************************************)
(* What an edit makes a node name.                                         *)
(***************************************************************************)
NodesIn(a) == {v \in Nodes : \E i \in DOMAIN a : \E j \in DOMAIN a[i] : a[i][j] = v}

(* No node names more in D than in C; or t alone does, which names s. *)
NamesLess(D, C) == \A n \in Nodes : Named(D, n) \subseteq Named(C, n)
NamesMore(D, C, s, t) ==
  \A n \in Nodes : Named(D, n) \subseteq Named(C, n) \cup (IF n = t THEN {s} ELSE {})

LEMMA NamedIsIn ==
  ASSUME NEW C, NEW n
  PROVE  Named(C, n) = IF n \in DOMAIN C THEN NodesIn(C[n].inputs) ELSE {}
  BY DEF Named, NodesIn

LEMMA NamedAreNodes ==
  ASSUME NEW C, NEW n
  PROVE  Named(C, n) \subseteq Nodes
  BY DEF Named

LEMMA SameInputsNameTheSame ==
  ASSUME NEW C, NEW D, DOMAIN D = DOMAIN C, \A n \in DOMAIN C : D[n].inputs = C[n].inputs, NEW n
  PROVE  Named(D, n) = Named(C, n)
  BY NamedIsIn

LEMMA NewInputsNameNothing ==
  ASSUME NEW n \in Nodes
  PROVE  NodesIn(NewInputs(n)) = {}
<1>0. Empty \notin Nodes BY NodesAreDistinct
<1>1. CASE n \in SchemaNodes
  <2>1. NewInputs(n) = <<<<>>>> BY <1>1 DEF NewInputs
  <2> QED BY <2>1 DEF NodesIn
<1>2. CASE n \notin SchemaNodes /\ Arity[n] = Unbounded
  <2>1. NewInputs(n) = <<<<Empty, Empty>>>> BY <1>2 DEF NewInputs
  <2>2. \A i \in DOMAIN <<<<Empty, Empty>>>> : \A j \in DOMAIN <<<<Empty, Empty>>>>[i] :
          <<<<Empty, Empty>>>>[i][j] = Empty
    OBVIOUS
  <2> QED BY <1>0, <2>1, <2>2 DEF NodesIn
<1>3. CASE n \notin SchemaNodes /\ Arity[n] # Unbounded
  <2>1. NewInputs(n) = [i \in 1..Arity[n] |-> <<>>] BY <1>3 DEF NewInputs
  <2> QED BY <2>1 DEF NodesIn
<1> QED BY <1>1, <1>2, <1>3

LEMMA WithEntryNamesTheSame ==
  ASSUME NEW C, IsDict(C), NEW n \in Nodes, NEW m
  PROVE  Named(WithEntry(C, n), m) = Named(C, m)
<1>1. /\ DOMAIN WithEntry(C, n) = DOMAIN C \cup {n}
      /\ \A k \in DOMAIN C : WithEntry(C, n)[k] = C[k]
      /\ n \notin DOMAIN C => WithEntry(C, n)[n].inputs = NewInputs(n)
  BY WithEntryIsDict
<1>2. CASE m \in DOMAIN C BY <1>1, <1>2, NamedIsIn
<1>3. CASE m = n /\ n \notin DOMAIN C BY <1>1, <1>3, NamedIsIn, NewInputsNameNothing
<1>4. CASE m \notin DOMAIN C \cup {n} BY <1>1, <1>4, NamedIsIn
<1> QED BY <1>2, <1>3, <1>4

LEMMA WithoutOutputNamesTheSame ==
  ASSUME NEW C, IsDict(C), NEW s, NEW t, NEW n
  PROVE  Named(WithoutOutput(C, s, t), n) = Named(C, n)
<1>1. /\ DOMAIN WithoutOutput(C, s, t) = DOMAIN C
      /\ \A m \in DOMAIN C : WithoutOutput(C, s, t)[m].inputs = C[m].inputs
  BY WithoutOutputIsDict
<1> QED BY <1>1, SameInputsNameTheSame

LEMMA WithOutputNamesTheSame ==
  ASSUME NEW C, IsDict(C), NEW s \in Nodes, NEW t \in Nodes, NEW n
  PROVE  Named(WithOutput(C, s, t), n) = Named(C, n)
<1> DEFINE E == WithEntry(C, s)
           o == E[s].outputs \cup {t}
<1>1. IsDict(E) /\ Named(E, n) = Named(C, n) BY WithEntryIsDict, WithEntryNamesTheSame
<1>2. WithOutput(C, s, t) = SetOutputs(E, s, o) BY DEF WithOutput, SetOutputs
<1> HIDE DEF E
<1>3. s \in DOMAIN E => o \subseteq Nodes BY <1>1, EntryIsTyped DEF IsDict
<1> HIDE DEF o
<1>4. /\ DOMAIN SetOutputs(E, s, o) = DOMAIN E
      /\ \A m \in DOMAIN E : SetOutputs(E, s, o)[m].inputs = E[m].inputs
  BY <1>1, <1>3, OutputsWritten
<1>5. Named(SetOutputs(E, s, o), n) = Named(E, n) BY <1>4, SameInputsNameTheSame
<1> QED BY <1>1, <1>2, <1>5

(* Inputs are written to one entry. *)
LEMMA SetInputsNames ==
  ASSUME NEW C, IsDict(C), NEW t, NEW a, t \in DOMAIN C => a \in Filled(t),
         NEW S, t \in DOMAIN C => NodesIn(a) \subseteq Named(C, t) \cup S, NEW n
  PROVE  Named(SetInputs(C, t, a), n) \subseteq Named(C, n) \cup (IF n = t THEN S ELSE {})
<1>1. DOMAIN SetInputs(C, t, a) = DOMAIN C /\ \A m \in DOMAIN C : m # t => SetInputs(C, t, a)[m] = C[m] BY InputsWritten
<1>2. CASE n # t BY <1>1, <1>2, NamedIsIn
<1>3. CASE n = t /\ t \in DOMAIN C
  <2>1. SetInputs(C, t, a)[t].inputs = a
    <3>1. SetInputs(C, t, a)[t] = [C[t] EXCEPT !.inputs = a] BY <1>3 DEF SetInputs
    <3>2. C[t] \in EntryOf(t) BY <1>3 DEF IsDict
    <3> QED BY <3>1, <3>2 DEF EntryOf
  <2> QED BY <1>1, <1>3, <2>1, NamedIsIn
<1>4. CASE n = t /\ t \notin DOMAIN C BY <1>1, <1>4, NamedIsIn
<1> QED BY <1>2, <1>3, <1>4

LEMMA SlotWrittenNames ==
  ASSUME NEW a, NEW i, NEW s, NEW S, i \in DOMAIN a => Elements(s) \cap Nodes \subseteq S
  PROVE  NodesIn([a EXCEPT ![i] = s]) \subseteq NodesIn(a) \cup S
<1> DEFINE b == [a EXCEPT ![i] = s]
<1>1. DOMAIN b = DOMAIN a /\ \A j \in DOMAIN a : b[j] = IF j = i THEN s ELSE a[j] OBVIOUS
<1> HIDE DEF b
<1>2. NodesIn(b) \subseteq NodesIn(a) \cup S
  <2> SUFFICES ASSUME NEW v \in NodesIn(b) PROVE v \in NodesIn(a) \cup S OBVIOUS
  <2>1. PICK j \in DOMAIN b : \E k \in DOMAIN b[j] : b[j][k] = v BY DEF NodesIn
  <2>2. v \in Nodes BY DEF NodesIn
  <2>3. CASE j = i
    <3>1. b[j] = s /\ i \in DOMAIN a BY <1>1, <2>1, <2>3
    <3>2. v \in Elements(s) BY <2>1, <3>1 DEF Elements
    <3> QED BY <2>2, <3>1, <3>2
  <2>4. CASE j # i
    <3>1. b[j] = a[j] /\ j \in DOMAIN a BY <1>1, <2>1, <2>4
    <3> QED BY <2>1, <2>2, <3>1 DEF NodesIn
  <2> QED BY <2>3, <2>4
<1> QED BY <1>2 DEF b

LEMMA ElementsAreIn ==
  ASSUME NEW a, NEW i \in DOMAIN a
  PROVE  Elements(a[i]) \cap Nodes \subseteq NodesIn(a)
  BY DEF Elements, NodesIn

LEMMA PutHolds ==
  ASSUME NEW seq, NEW i, NEW v
  PROVE  Elements(Put(seq, i, v)) \subseteq Elements(seq) \cup {v, Empty}
  BY DEF Elements, Put

LEMMA ElementsOfSeq ==
  ASSUME NEW S, NEW seq \in Seq(S)
  PROVE  Elements(seq) \subseteq S
  BY DEF Elements

LEMMA AllButHolds ==
  ASSUME NEW S, NEW seq \in Seq(S), NEW v
  PROVE  Elements(AllBut(seq, v)) \subseteq Elements(seq)
<1>1. seq \in Seq(Elements(seq)) BY SeqOfAny DEF IsSeq
<1>2. AllBut(seq, v) \in Seq(Elements(seq)) BY <1>1, AllButIsSeq
<1> QED BY <1>2, ElementsOfSeq

LEMMA WithoutFieldHolds ==
  ASSUME NEW S, NEW seq \in Seq(S), NEW i \in DOMAIN seq
  PROVE  Elements(WithoutField(seq, i)) \subseteq Elements(seq)
<1> DEFINE E == Elements(seq)
<1>1. seq \in Seq(E) BY SeqOfAny DEF IsSeq
<1>2. i \in 1..Len(seq) OBVIOUS
<1> HIDE DEF E
<1>3. SubSeq(seq, 1, i - 1) \in Seq(E) /\ SubSeq(seq, i + 1, Len(seq)) \in Seq(E) BY <1>1, <1>2
<1>4. WithoutField(seq, i) \in Seq(E)
  <2> DEFINE a == SubSeq(seq, 1, i - 1)
             b == SubSeq(seq, i + 1, Len(seq))
  <2>1. WithoutField(seq, i) = a \o b BY DEF WithoutField
  <2> HIDE DEF a, b
  <2> QED BY <1>3, <2>1 DEF a, b
<1> QED BY <1>4, ElementsOfSeq DEF E

LEMMA FilteredNames ==
  ASSUME NEW n \in Nodes, NEW a \in Filled(n), NEW v
  PROVE  NodesIn([j \in DOMAIN a |-> AllBut(a[j], v)]) \subseteq NodesIn(a)
<1> DEFINE b == [j \in DOMAIN a |-> AllBut(a[j], v)]
<1>1. \A i \in DOMAIN a : a[i] \in Seq(InputValues) BY FilledIsTyped
<1>2. \A i \in DOMAIN a : Elements(b[i]) \subseteq Elements(a[i]) BY <1>1, AllButHolds
<1>3. DOMAIN b = DOMAIN a OBVIOUS
<1> HIDE DEF b
<1>4. NodesIn(b) \subseteq NodesIn(a) BY <1>2, <1>3 DEF NodesIn, Elements
<1> QED BY <1>4 DEF b

LEMMA WithValueNames ==
  ASSUME NEW C, IsDict(C), NEW t \in DOMAIN C \cap Takers, NEW i \in Nat \ {0}, NEW v \in InputValues
  PROVE  NamesMore(WithValue(C, t, i, v), C, v, t)
<1> DEFINE a == C[t].inputs
           b == IF Manifold(t) THEN [a EXCEPT ![1] = Put(a[1], i, v)]
                ELSE IF v = Empty THEN [a EXCEPT ![i] = <<>>]
                ELSE [a EXCEPT ![i] = Put(a[i], 1, v)]
           S == NodesIn(a) \cup {v}
<1>0. Empty \notin Nodes BY NodesAreDistinct
<1>1. t \in Nodes /\ a \in Filled(t) /\ Named(C, t) = NodesIn(a) BY EntryIsTyped, NamedIsIn DEF IsDict
<1>2. WithValue(C, t, i, v) = SetInputs(C, t, b) BY DEF WithValue, SetInputs
<1>3. NodesIn(b) \subseteq S
  <2> HIDE DEF a
  <2>1. ASSUME NEW j, NEW k PROVE NodesIn([a EXCEPT ![j] = Put(a[j], k, v)]) \subseteq S
    <3> DEFINE s == Put(a[j], k, v)
    <3>1. j \in DOMAIN a => Elements(s) \cap Nodes \subseteq S
      BY <1>0, PutHolds, ElementsAreIn
    <3> HIDE DEF s
    <3>2. NodesIn([a EXCEPT ![j] = s]) \subseteq NodesIn(a) \cup S
      <4> HIDE DEF S
      <4> QED BY <3>1, SlotWrittenNames
    <3> QED BY <3>2 DEF s
  <2>2. NodesIn([a EXCEPT ![i] = <<>>]) \subseteq S
    <3> DEFINE s == <<>>
    <3>1. i \in DOMAIN a => Elements(s) \cap Nodes \subseteq S BY DEF Elements
    <3> HIDE DEF s
    <3>2. NodesIn([a EXCEPT ![i] = s]) \subseteq NodesIn(a) \cup S
      <4> HIDE DEF S
      <4> QED BY <3>1, SlotWrittenNames
    <3> QED BY <3>2 DEF s
  <2> HIDE DEF S
  <2> QED BY <2>1, <2>2
<1>4. b \in Filled(t)
  <2>1. IsDict(WithValue(C, t, i, v)) BY WithValueIsDict
  <2>2. t \in DOMAIN WithValue(C, t, i, v) BY WithValueIsDict
  <2>3. WithValue(C, t, i, v)[t].inputs \in Filled(t) BY <2>1, <2>2, EntryIsTyped DEF IsDict
  <2> HIDE DEF b
  <2>4. SetInputs(C, t, b)[t].inputs = b
    <3>1. SetInputs(C, t, b)[t] = [C[t] EXCEPT !.inputs = b] BY DEF SetInputs
    <3>2. C[t] \in EntryOf(t) BY DEF IsDict
    <3> QED BY <3>1, <3>2 DEF EntryOf
  <2> QED BY <1>2, <2>3, <2>4
<1> HIDE DEF b
<1>5. NodesIn(b) \subseteq Named(C, t) \cup {v} BY <1>1, <1>3
<1>6. \A n : Named(SetInputs(C, t, b), n) \subseteq Named(C, n) \cup (IF n = t THEN {v} ELSE {})
  BY <1>4, <1>5, SetInputsNames
<1> QED BY <1>2, <1>6 DEF NamesMore

LEMMA ConnectNames ==
  ASSUME NEW C, IsDict(C), NEW s \in Givers, NEW t \in Takers, Roomy(C, t)
  PROVE  NamesMore(Connect(C, s, t), C, s, t)
<1> DEFINE E == WithEntry(C, t)
           i == OpenField(E, t)
           W == WithValue(E, t, i, s)
<1>0. s \in Nodes /\ t \in Nodes BY DEF Givers, Takers, Nodes, SchemaNodes
<1>1. IsDict(E) /\ DOMAIN E = DOMAIN C \cup {t} BY <1>0, WithEntryIsDict
<1>2. i \in Nat \ {0}
  <2>1. t \in FunctionNodes /\ ~Manifold(t) => \E j \in DOMAIN E[t].inputs : E[t].inputs[j] = <<>>
    BY DEF Roomy
  <2> HIDE DEF E
  <2> QED BY <1>1, <2>1, OpenFieldIsField
<1>3. s \in InputValues BY DEF InputValues
<1>4. IsDict(W) /\ NamesMore(W, E, s, t)
  <2> HIDE DEF E, i
  <2> QED BY <1>1, <1>2, <1>3, WithValueIsDict, WithValueNames
<1>5. Connect(C, s, t) = WithOutput(W, s, t) BY DEF Connect
<1>6. \A n : Named(E, n) = Named(C, n) BY <1>0, WithEntryNamesTheSame
<1> HIDE DEF W, E
<1>7. \A n : Named(WithOutput(W, s, t), n) = Named(W, n) BY <1>0, <1>4, WithOutputNamesTheSame
<1> QED BY <1>4, <1>5, <1>6, <1>7 DEF NamesMore

LEMMA SetValueNames ==
  ASSUME NEW C, IsDict(C), NEW t \in Takers, NEW i \in Nat \ {0}, NEW v \in InputValues
  PROVE  NamesMore(SetValue(C, t, i, v), C, v, t)
<1> DEFINE old == Held(C, t, i)
           freed == IF old \in Nodes THEN WithoutOutput(C, old, t) ELSE C
           E == WithEntry(freed, t)
           W == WithValue(E, t, i, v)
<1>0. t \in Nodes BY DEF Takers, Nodes, SchemaNodes
<1>1. IsDict(freed) /\ \A n : Named(freed, n) = Named(C, n)
  <2> HIDE DEF old
  <2> QED BY WithoutOutputIsDict, WithoutOutputNamesTheSame
<1>2. SetValue(C, t, i, v) = IF v \in Nodes THEN WithOutput(W, v, t) ELSE W BY DEF SetValue
<1>3. IsDict(E) /\ t \in DOMAIN E /\ \A n : Named(E, n) = Named(freed, n)
  <2> HIDE DEF freed
  <2> QED BY <1>0, <1>1, WithEntryIsDict, WithEntryNamesTheSame
<1>4. IsDict(W) /\ NamesMore(W, E, v, t)
  <2> HIDE DEF E
  <2> QED BY <1>3, WithValueIsDict, WithValueNames
<1>5. v \in Nodes => \A n : Named(WithOutput(W, v, t), n) = Named(W, n)
  <2> HIDE DEF W
  <2> QED BY <1>0, <1>4, WithOutputNamesTheSame
<1> HIDE DEF W, E, freed
<1> QED BY <1>1, <1>2, <1>3, <1>4, <1>5 DEF NamesMore

LEMMA RemoveFieldNames ==
  ASSUME NEW C, IsDict(C), NEW t \in DOMAIN C \cap Takers, Manifold(t), NEW i \in Fields(C, t)
  PROVE  NamesLess(RemoveField(C, t, i), C)
<1> DEFINE old == Held(C, t, i)
           freed == IF old \in Nodes THEN WithoutOutput(C, old, t) ELSE C
           a == freed[t].inputs
           s == WithoutField(a[1], i)
           b == [a EXCEPT ![1] = s]
<1>1. /\ IsDict(freed) /\ DOMAIN freed = DOMAIN C
      /\ \A n \in DOMAIN C : freed[n].inputs = C[n].inputs
      /\ \A n : Named(freed, n) = Named(C, n)
  <2> HIDE DEF old
  <2> QED BY WithoutOutputIsDict, WithoutOutputNamesTheSame
<1>2. RemoveField(C, t, i) = SetInputs(freed, t, b)
  <2>1. RemoveField(C, t, i) = [freed EXCEPT ![t].inputs[1] = WithoutField(@, i)] BY DEF RemoveField
  <2> HIDE DEF freed
  <2> QED BY <2>1 DEF SetInputs
<1>3. t \in Nodes /\ a \in Filled(t) /\ a = C[t].inputs
  <2> HIDE DEF freed
  <2> QED BY <1>1, EntryIsTyped DEF IsDict
<1>4. a[1] \in Seq(InputValues) BY <1>3, FilledIsTyped
<1>5. i \in DOMAIN a[1] BY <1>3 DEF Fields
<1>6. s \in Seq(InputValues) /\ Elements(s) \subseteq Elements(a[1])
  <2> DEFINE q == a[1]
  <2>1. q \in Seq(InputValues) /\ i \in 1..Len(q) BY <1>4, <1>5
  <2>2. s = SubSeq(q, 1, i - 1) \o SubSeq(q, i + 1, Len(q)) BY DEF WithoutField
  <2>4. Elements(s) \subseteq Elements(q) BY <1>4, <1>5, WithoutFieldHolds
  <2> HIDE DEF q, s
  <2>3. SubSeq(q, 1, i - 1) \in Seq(InputValues) /\ SubSeq(q, i + 1, Len(q)) \in Seq(InputValues)
    BY <2>1
  <2>5. s \in Seq(InputValues) BY <2>2, <2>3
  <2> QED BY <2>4, <2>5 DEF q
<1> HIDE DEF s, a
<1>7. b \in Filled(t) BY <1>3, <1>6, SlotWritten
<1>8. NodesIn(b) \subseteq NodesIn(a)
  <2>1. 1 \in DOMAIN a => Elements(s) \cap Nodes \subseteq NodesIn(a) BY <1>6, ElementsAreIn
  <2>2. NodesIn([a EXCEPT ![1] = s]) \subseteq NodesIn(a) \cup NodesIn(a) BY <2>1, SlotWrittenNames
  <2> QED BY <2>2
<1> DEFINE S == {}
<1>9. NodesIn(b) \subseteq Named(freed, t) \cup S
  <2>1. Named(freed, t) = NodesIn(a) BY <1>1, <1>3, NamedIsIn
  <2> QED BY <1>8, <2>1
<1>10. \A n : IF n = t THEN S = {} ELSE TRUE OBVIOUS
<1> HIDE DEF b, freed, S
<1>11. \A n : Named(SetInputs(freed, t, b), n) \subseteq Named(freed, n) \cup (IF n = t THEN S ELSE {})
  BY <1>1, <1>7, <1>9, SetInputsNames
<1> QED BY <1>1, <1>2, <1>10, <1>11 DEF NamesLess

LEMMA DisconnectNames ==
  ASSUME NEW C, IsDict(C), NEW s, NEW t, NEW i
  PROVE  NamesLess(Disconnect(C, s, t, i), C)
<1> DEFINE cut == WithoutOutput(C, s, t)
           a == cut[t].inputs
           q == [j \in DOMAIN a[1] |-> IF a[1][j] = s /\ i \in {0, j} THEN Empty ELSE a[1][j]]
           b == IF t \in FunctionNodes /\ Arity[t] = Unbounded THEN [a EXCEPT ![1] = q]
                ELSE [j \in DOMAIN a |-> AllBut(a[j], s)]
<1>0. Empty \notin Nodes BY NodesAreDistinct
<1>1. /\ IsDict(cut) /\ DOMAIN cut = DOMAIN C
      /\ \A n : Named(cut, n) = Named(C, n)
  BY WithoutOutputIsDict, WithoutOutputNamesTheSame
<1>2. Disconnect(C, s, t, i) = SetInputs(cut, t, b)
  <2>1. Disconnect(C, s, t, i) =
          IF t \in FunctionNodes /\ Arity[t] = Unbounded
          THEN [cut EXCEPT ![t].inputs[1] = q]
          ELSE [cut EXCEPT ![t].inputs = [j \in DOMAIN a |-> AllBut(a[j], s)]]
    BY DEF Disconnect
  <2> HIDE DEF cut, q
  <2> QED BY <2>1 DEF SetInputs
<1>3. ASSUME t \in DOMAIN cut PROVE b \in Filled(t) /\ NodesIn(b) \subseteq NodesIn(a)
  <2> HIDE DEF cut
  <2>1. t \in Nodes /\ a \in Filled(t) BY <1>1, <1>3, EntryIsTyped DEF IsDict
  <2> HIDE DEF a
  <2>2. CASE t \in FunctionNodes /\ Arity[t] = Unbounded
    <3>1. Manifold(t) BY <2>2 DEF Manifold
    <3>2. a[1] \in Seq(InputValues) BY <2>1, <3>1, FilledIsTyped
    <3>3. Empty \in InputValues BY DEF InputValues
    <3>4. q \in Seq(InputValues) /\ Elements(q) \subseteq Elements(a[1]) \cup {Empty}
      BY <3>2, <3>3 DEF Elements
    <3> HIDE DEF q
    <3>5. t \in Takers BY <2>2 DEF Takers
    <3>6. [a EXCEPT ![1] = q] \in Filled(t) BY <2>1, <3>1, <3>4, <3>5, SlotWritten
    <3>7. 1 \in DOMAIN a => Elements(q) \cap Nodes \subseteq NodesIn(a) BY <1>0, <3>4, ElementsAreIn
    <3>8. NodesIn([a EXCEPT ![1] = q]) \subseteq NodesIn(a) \cup NodesIn(a)
      BY <3>7, SlotWrittenNames
    <3> QED BY <2>2, <3>6, <3>8
  <2>3. CASE ~(t \in FunctionNodes /\ Arity[t] = Unbounded)
    <3>1. /\ [j \in DOMAIN a |-> AllBut(a[j], s)] \in Filled(t)
          /\ NodesIn([j \in DOMAIN a |-> AllBut(a[j], s)]) \subseteq NodesIn(a)
      BY <2>1, FilteredIsFilled, FilteredNames
    <3> QED BY <2>3, <3>1
  <2> QED BY <2>2, <2>3
<1> DEFINE S == {}
<1>4. t \in DOMAIN cut => NodesIn(b) \subseteq Named(cut, t) \cup S
  <2> HIDE DEF b
  <2> QED BY <1>3, NamedIsIn
<1>5. S = {} OBVIOUS
<1> HIDE DEF b, cut, S
<1>6. \A n : Named(SetInputs(cut, t, b), n) \subseteq Named(cut, n) \cup (IF n = t THEN S ELSE {})
  BY <1>1, <1>3, <1>4, SetInputsNames
<1> QED BY <1>1, <1>2, <1>5, <1>6 DEF NamesLess

LEMMA WithoutNames ==
  ASSUME NEW C, IsDict(C), NEW n
  PROVE  NamesLess(Without(C, n), C)
<1> DEFINE Inputs(m) == IF m \in C[n].outputs
                        THEN [j \in DOMAIN C[m].inputs |-> AllBut(C[m].inputs[j], n)]
                        ELSE C[m].inputs
           Outputs(m) == IF m \in Named(C, n) THEN C[m].outputs \ {n} ELSE C[m].outputs
           W == [m \in DOMAIN C \ {n} |-> [inputs |-> Inputs(m), outputs |-> Outputs(m)]]
<1>1. Without(C, n) = IF n \in DOMAIN C THEN W ELSE C BY DEF Without
<1>2. ASSUME NEW m \in DOMAIN C PROVE NodesIn(Inputs(m)) \subseteq NodesIn(C[m].inputs)
  <2>1. m \in Nodes /\ C[m].inputs \in Filled(m) BY EntryIsTyped DEF IsDict
  <2> DEFINE a == C[m].inputs
  <2>2. NodesIn([j \in DOMAIN a |-> AllBut(a[j], n)]) \subseteq NodesIn(a) BY <2>1, FilteredNames
  <2> QED BY <2>2
<1> HIDE DEF Inputs, Outputs
<1>3. DOMAIN W = DOMAIN C \ {n} /\ \A m \in DOMAIN W : W[m].inputs = Inputs(m) OBVIOUS
<1> HIDE DEF W
<1>4. NamesLess(W, C) BY <1>2, <1>3, NamedIsIn DEF NamesLess
<1>5. NamesLess(C, C) BY DEF NamesLess
<1> QED BY <1>1, <1>4, <1>5

(* Entries taken from one dictionary or another. *)
LEMMA CollectedNames ==
  ASSUME NEW C, NEW D, \A n \in DOMAIN D : n \in DOMAIN C /\ D[n].inputs = C[n].inputs
  PROVE  NamesLess(D, C)
  BY NamedIsIn DEF NamesLess

LEMMA CutNames ==
  ASSUME NEW C, IsDict(C), NEW p, NEW T
  PROVE  NamesLess(Cut(C, p, T), C)
<1> SUFFICES ASSUME NEW n \in Nodes PROVE Named(Cut(C, p, T), n) \subseteq Named(C, n)
  BY DEF NamesLess
<1>1. DOMAIN Cut(C, p, T) = DOMAIN C BY DEF Cut
<1>2. CASE n \notin DOMAIN C BY <1>1, <1>2, NamedIsIn
<1>3. CASE n \in DOMAIN C /\ n \in T
  <2>1. Cut(C, p, T)[n] = Disconnect(C, p, n, 0)[n] BY <1>3 DEF Cut
  <2>2. n \in DOMAIN Disconnect(C, p, n, 0) BY <1>3, DisconnectIsDict
  <2>3. Named(Cut(C, p, T), n) = Named(Disconnect(C, p, n, 0), n) BY <1>1, <1>3, <2>1, <2>2, NamedIsIn
  <2>4. NamesLess(Disconnect(C, p, n, 0), C) BY DisconnectNames
  <2> QED BY <2>3, <2>4 DEF NamesLess
<1>4. CASE n \in DOMAIN C /\ n \notin T
  <2>1. Cut(C, p, T)[n].inputs = C[n].inputs
    <3>1. CASE n = p
      <4>1. Cut(C, p, T)[n] = [C[p] EXCEPT !.outputs = @ \ T] BY <1>4, <3>1 DEF Cut
      <4>2. C[p] \in EntryOf(p) BY <1>4, <3>1 DEF IsDict
      <4> QED BY <3>1, <4>1, <4>2 DEF EntryOf
    <3>2. CASE n # p BY <1>4, <3>2 DEF Cut
    <3> QED BY <3>1, <3>2
  <2> QED BY <1>1, <1>4, <2>1, NamedIsIn
<1> QED BY <1>2, <1>3, <1>4

-----------------------------------------------------------------------------
(***************************************************************************)
(* Reachability.                                                           *)
(***************************************************************************)
UpTo(P, n) == 0 \in P /\ \A i \in 1..n : i - 1 \in P => i \in P

LEMMA UpToAll ==
  ASSUME NEW n \in Nat, NEW P, UpTo(P, n)
  PROVE  \A i \in 0..n : i \in P
<1> DEFINE T == {i \in 0..n : i \notin P}
<1>1. ASSUME T # {} PROVE FALSE
  <2>1. T \subseteq Nat OBVIOUS
  <2>2. PICK k \in T : \A j \in T : k <= j
    <3> HIDE DEF T
    <3> QED BY <1>1, <2>1, LeastNumber
  <2>3. k \in 1..n /\ k - 1 \in 0..n /\ ~(k <= k - 1) BY DEF UpTo
  <2>4. k - 1 \in P BY <2>2, <2>3
  <2> QED BY <2>3, <2>4 DEF UpTo
<1> QED BY <1>1

Onwards(F, X) == X \cup UNION {F[n] : n \in X}

(* r is the function ReachableBy computes from S along F. *)
Spreads(r, F, S, N) == r = [i \in 0..N |-> IF i = 0 THEN S ELSE Onwards(F, r[i - 1])]

(* U is what is reached from S: all of it, and nothing that another closed *)
(* set leaves out.                                                         *)
IsReach(U, F, S) ==
  /\ S \subseteq U /\ U \subseteq Nodes
  /\ \A n \in U : F[n] \subseteq U
  /\ \A T \in SUBSET Nodes : S \subseteq T /\ (\A n \in T : F[n] \subseteq T) => U \subseteq T

LEMMA SpreadExists ==
  ASSUME NEW F \in [Nodes -> SUBSET Nodes], NEW S \in SUBSET Nodes, NEW N \in Nat
  PROVE  \E r : Spreads(r, F, S, N) /\ \A i \in 0..N : r[i] \in SUBSET Nodes
<1> DEFINE D == 0..N
           down == [i \in 1..N |-> i - 1]
           step == [q \in D \X SUBSET Nodes |-> Onwards(F, q[2])]
           V == [i \in D |-> SUBSET Nodes]
<1>1. \A i \in D \ {0} : down[i] = i - 1 /\ down[i] \in D OBVIOUS
<1>2. Descends(D, {0}, down) BY CountingDescends
<1>3. \A X \in SUBSET Nodes : Onwards(F, X) \in SUBSET Nodes BY DEF Onwards
<1>4. \A i \in D : V[i] = SUBSET Nodes OBVIOUS
<1>5. \A i \in D : \A X \in SUBSET Nodes : step[<<i, X>>] = Onwards(F, X) OBVIOUS
<1>6. PICK r : Solves(r, D, {0}, S, down, step) /\ \A i \in D : r[i] \in V[i]
  <2> HIDE DEF D, V, down, step
  <2>1. \A i \in D \cap {0} : S \in V[i] BY <1>4
  <2>2. \A i \in D \ {0} : \A X \in V[down[i]] : step[<<i, X>>] \in V[i]
    <3> TAKE i \in D \ {0}
    <3>1. V[down[i]] = SUBSET Nodes /\ V[i] = SUBSET Nodes BY <1>1, <1>4
    <3>2. \A X \in SUBSET Nodes : step[<<i, X>>] \in SUBSET Nodes BY <1>3, <1>5
    <3> QED BY <3>1, <3>2
  <2> QED BY <1>2, <2>1, <2>2, RecursionHasSolution
<1>7. r = [i \in D |-> IF i = 0 THEN S ELSE Onwards(F, r[i - 1])]
  <2>1. r = [i \in D |-> IF i \in {0} THEN S ELSE step[<<i, r[down[i]]>>]] BY <1>6 DEF Solves
  <2>2. \A i \in D \ {0} : step[<<i, r[down[i]]>>] = Onwards(F, r[i - 1])
    <3> HIDE DEF D, V, down, step
    <3> QED BY <1>1, <1>4, <1>5, <1>6
  <2> HIDE DEF D, V, down, step
  <2> QED BY <2>1, <2>2
<1> QED BY <1>4, <1>6, <1>7 DEF Spreads

(* After as many steps as there are nodes nothing new is reached. *)
LEMMA SpreadIsReach ==
  ASSUME IsFiniteSet(Nodes), NEW F \in [Nodes -> SUBSET Nodes], NEW S \in SUBSET Nodes,
         NEW r, Spreads(r, F, S, Cardinality(Nodes))
  PROVE  IsReach(r[Cardinality(Nodes)], F, S)
<1> DEFINE N == Cardinality(Nodes)
           IsClosed(Y) == \A n \in Y : F[n] \subseteq Y
           In == {i \in 0..N : r[i] \in SUBSET Nodes}
           P == {i \in 0..N : S \subseteq r[i] /\ (IsClosed(r[i]) \/ Cardinality(r[i]) >= i + 1)}
<1>0. N \in Nat BY FS_CardinalityType
<1>2. r[0] = S /\ \A i \in 1..N : r[i] = Onwards(F, r[i - 1]) BY <1>0 DEF Spreads
<1> HIDE DEF N
<1>1. \A i \in 0..N : r[i] \in SUBSET Nodes
  <2>1. UpTo(In, N)
    <3>1. 0 \in In BY <1>0, <1>2
    <3>2. ASSUME NEW i \in 1..N, i - 1 \in In PROVE i \in In
      <4>1. r[i - 1] \in SUBSET Nodes BY <3>2
      <4>2. Onwards(F, r[i - 1]) \in SUBSET Nodes BY <4>1 DEF Onwards
      <4>3. i \in 0..N BY <1>0
      <4> QED BY <1>2, <4>2, <4>3
    <3> HIDE DEF In
    <3> QED BY <3>1, <3>2 DEF UpTo
  <2> HIDE DEF In
  <2>2. \A i \in 0..N : i \in In BY <1>0, <2>1, UpToAll
  <2> QED BY <2>2 DEF In
<1>3. \A i \in 0..N : IsFiniteSet(r[i]) /\ Cardinality(r[i]) \in Nat /\ Cardinality(r[i]) =< N
  <2> TAKE i \in 0..N
  <2>1. r[i] \in SUBSET Nodes BY <1>1
  <2>2. IsFiniteSet(r[i]) /\ Cardinality(r[i]) =< N BY <2>1, FS_Subset DEF N
  <2> QED BY <2>2, FS_CardinalityType
<1>4. 0 \in P
  <2>1. 0 \in 0..N BY <1>0
  <2>2. CASE S = {} BY <1>2, <2>1, <2>2
  <2>3. CASE S # {}
    <3>1. Cardinality(r[0]) # 0 BY <1>2, <1>3, <2>1, <2>3, FS_EmptySet
    <3> QED BY <1>2, <1>3, <2>1, <3>1
  <2> QED BY <2>2, <2>3
<1>5. ASSUME NEW i \in 1..N, i - 1 \in P PROVE i \in P
  <2>1. i - 1 \in 0..N /\ i \in 0..N BY <1>0
  <2>2. r[i] = Onwards(F, r[i - 1]) BY <1>2
  <2>3. S \subseteq r[i] /\ r[i - 1] \subseteq r[i] BY <1>5, <2>2 DEF Onwards
  <2>4. CASE IsClosed(r[i - 1])
    <3>1. r[i] = r[i - 1] BY <2>2, <2>4 DEF Onwards
    <3> QED BY <2>1, <2>3, <2>4, <3>1
  <2>5. CASE ~IsClosed(r[i - 1])
    <3>1. r[i] # r[i - 1] BY <2>2, <2>5 DEF Onwards
    <3>2. Cardinality(r[i - 1]) =< Cardinality(r[i]) /\ Cardinality(r[i - 1]) # Cardinality(r[i])
      <4>1. IsFiniteSet(r[i]) /\ r[i - 1] \in SUBSET r[i] BY <1>3, <2>1, <2>3
      <4> QED BY <4>1, <3>1, FS_Subset
    <3>3. Cardinality(r[i - 1]) >= (i - 1) + 1 BY <1>5, <2>5
    <3>4. Cardinality(r[i]) \in Nat /\ Cardinality(r[i - 1]) \in Nat BY <1>3, <2>1
    <3>5. Cardinality(r[i]) >= i + 1 BY <2>1, <3>2, <3>3, <3>4
    <3> QED BY <2>1, <2>3, <3>5
  <2> QED BY <2>4, <2>5
<1>6. N \in P
  <2> HIDE DEF P
  <2>1. UpTo(P, N) BY <1>4, <1>5 DEF UpTo
  <2>2. \A i \in 0..N : i \in P BY <1>0, <2>1, UpToAll
  <2> QED BY <1>0, <2>2
<1>7. N \in 0..N BY <1>0
<1>8. IsClosed(r[N])
  <2>1. Cardinality(r[N]) \in Nat /\ Cardinality(r[N]) =< N BY <1>3, <1>7
  <2>2. ~(Cardinality(r[N]) >= N + 1) BY <1>0, <2>1
  <2> QED BY <1>6, <2>2
<1>9. ASSUME NEW T \in SUBSET Nodes, S \subseteq T, \A n \in T : F[n] \subseteq T
      PROVE  r[N] \subseteq T
  <2> DEFINE Q == {i \in 0..N : r[i] \subseteq T}
  <2>1. 0 \in Q BY <1>0, <1>2, <1>9
  <2>2. ASSUME NEW i \in 1..N, i - 1 \in Q PROVE i \in Q
    <3>1. r[i - 1] \subseteq T BY <2>2
    <3>2. Onwards(F, r[i - 1]) \subseteq T BY <1>9, <3>1 DEF Onwards
    <3>3. i \in 0..N BY <1>0
    <3> QED BY <1>2, <3>2, <3>3
  <2> HIDE DEF Q
  <2>3. UpTo(Q, N) BY <2>1, <2>2 DEF UpTo
  <2>4. \A i \in 0..N : i \in Q BY <1>0, <2>3, UpToAll
  <2> QED BY <1>7, <2>4 DEF Q
<1>10. S \subseteq r[N] BY <1>6
<1>11. r[N] \subseteq Nodes BY <1>1, <1>7
<1> QED BY <1>8, <1>9, <1>10, <1>11 DEF IsReach, N

Names(C) == [n \in Nodes |-> Named(C, n)]

LEMMA NodesAreFinite == IsFiniteSet(Nodes)
  BY SchemasAreTrees, FunctionsAreFew, FS_Union DEF Nodes

LEMMA NamesAreTyped ==
  ASSUME NEW C
  PROVE  Names(C) \in [Nodes -> SUBSET Nodes]
  BY NamedAreNodes DEF Names

(* Each value of the function that is computed is a set of nodes, so it    *)
(* does not matter that F knows nodes only.                                *)
LEMMA ComputedSpreads ==
  ASSUME NEW F \in [Nodes -> SUBSET Nodes], NEW S \in SUBSET Nodes, NEW N \in Nat,
         NEW r, NEW b, r = [i \in 0..N |-> b[i]], b[0] = S,
         \A i \in 1..N : r[i - 1] \in SUBSET Nodes => b[i] = Onwards(F, r[i - 1])
  PROVE  Spreads(r, F, S, N)
<1> DEFINE P == {i \in 0..N : r[i] \in SUBSET Nodes}
<1>1. \A i \in 0..N : r[i] = b[i] OBVIOUS
<1>2. 0 \in P BY <1>1
<1>3. ASSUME NEW i \in 1..N, i - 1 \in P PROVE i \in P
  <2>1. i \in 0..N /\ r[i - 1] \in SUBSET Nodes BY <1>3
  <2>2. r[i] = Onwards(F, r[i - 1]) BY <1>1, <2>1
  <2>3. Onwards(F, r[i - 1]) \in SUBSET Nodes BY <2>1 DEF Onwards
  <2> QED BY <2>1, <2>2, <2>3
<1> HIDE DEF P
<1>4. \A i \in 0..N : i \in P
  <2>1. UpTo(P, N) BY <1>2, <1>3 DEF UpTo
  <2> QED BY <2>1, UpToAll
<1>5. \A i \in 1..N : i - 1 \in 0..N /\ i \in 0..N OBVIOUS
<1>6. \A i \in 1..N : b[i] = Onwards(F, r[i - 1]) BY <1>4, <1>5 DEF P
<1>7. \A i \in 0..N : b[i] = IF i = 0 THEN S ELSE Onwards(F, r[i - 1]) BY <1>6
<1> QED BY <1>7 DEF Spreads

LEMMA UpstreamIsReach ==
  ASSUME NEW C, NEW S \in SUBSET Nodes
  PROVE  IsReach(Upstream(C, S), Names(C), S)
<1> DEFINE N == Cardinality(Nodes)
           F == Names(C)
           Next(X) == X \cup UNION {Named(C, n) : n \in X}
           IsIt(f) == f = [i \in 0..N |-> IF i = 0 THEN S
                             ELSE LET before == f[i - 1]
                                  IN  before \cup UNION {Named(C, n) : n \in before}]
           r == CHOOSE f : IsIt(f)
<1>1. N \in Nat BY NodesAreFinite, FS_CardinalityType
<1>2. F \in [Nodes -> SUBSET Nodes] BY NamesAreTyped
<1>3. \A X \in SUBSET Nodes : Onwards(F, X) = Next(X) BY DEF Onwards, Names
<1>4. Upstream(C, S) = r[N] BY DEF Upstream, ReachableBy
<1> HIDE DEF N, F
<1>5. PICK g : Spreads(g, F, S, N) /\ \A i \in 0..N : g[i] \in SUBSET Nodes BY <1>1, <1>2, SpreadExists
<1>6. IsIt(g)
  <2>1. \A i \in 1..N : i - 1 \in 0..N BY <1>1
  <2>2. g = [i \in 0..N |-> IF i = 0 THEN S ELSE Onwards(F, g[i - 1])] BY <1>5 DEF Spreads
  <2>3. \A i \in 0..N : i # 0 => Onwards(F, g[i - 1]) = Next(g[i - 1])
    <3> HIDE DEF Next
    <3> QED BY <1>1, <1>3, <1>5
  <2>4. g = [i \in 0..N |-> IF i = 0 THEN S ELSE Next(g[i - 1])]
    <3> HIDE DEF Next
    <3> QED BY <2>2, <2>3
  <2> QED BY <2>4
<1>7. IsIt(r)
  <2> HIDE DEF IsIt
  <2> QED BY <1>6
<1>8. r = [i \in 0..N |-> IF i = 0 THEN S ELSE Next(r[i - 1])]
  <2> HIDE DEF r
  <2> QED BY <1>7
<1> HIDE DEF r, IsIt, Next
<1>9. Spreads(r, F, S, N)
  <2> DEFINE b == [i \in 0..N |-> IF i = 0 THEN S ELSE Next(r[i - 1])]
  <2>1. r = [i \in 0..N |-> b[i]] BY <1>8
  <2>2. b[0] = S BY <1>1
  <2>3. \A i \in 1..N : r[i - 1] \in SUBSET Nodes => b[i] = Onwards(F, r[i - 1]) BY <1>3
  <2> HIDE DEF b
  <2> QED BY <1>1, <1>2, <2>1, <2>2, <2>3, ComputedSpreads
<1>10. IsReach(r[N], F, S) BY <1>2, <1>9, NodesAreFinite, SpreadIsReach DEF N
<1> QED BY <1>4, <1>10 DEF F

-----------------------------------------------------------------------------
(***************************************************************************)
(* No circles: every set of nodes has one that names none of them.         *)
(***************************************************************************)
Acyclic(C) == \A S \in SUBSET Nodes : S # {} => \E n \in S : Named(C, n) \cap S = {}

(* What a node has upstream does not hold the node. *)
LEMMA AcyclicIsAcyclic ==
  ASSUME NEW C, Acyclic(C)
  PROVE  \A n \in Nodes : n \notin Upstream(C, Named(C, n))
<1> DEFINE Up(n) == Upstream(C, Named(C, n))
           S == {n \in Nodes : n \in Up(n)}
<1>1. \A n \in Nodes : IsReach(Up(n), Names(C), Named(C, n)) BY NamedAreNodes, UpstreamIsReach
<1>2. \A n \in Nodes : Names(C)[n] = Named(C, n) BY DEF Names
<1>3. ASSUME S # {} PROVE FALSE
  <2>1. PICK n \in S : Named(C, n) \cap S = {} BY <1>3 DEF Acyclic
  <2> DEFINE T == UNION {Up(k) \cup {k} : k \in Named(C, n)}
  <2>2. Named(C, n) \subseteq Nodes /\ n \in Nodes BY <2>1, NamedAreNodes
  <2> HIDE DEF S, Up
  <2>3. \A k \in Named(C, n) : /\ Named(C, k) \subseteq Up(k) /\ Up(k) \subseteq Nodes
                               /\ \A m \in Up(k) : Named(C, m) \subseteq Up(k)
    BY <1>1, <1>2, <2>2 DEF IsReach
  <2>4. T \in SUBSET Nodes /\ Named(C, n) \subseteq T BY <2>2, <2>3
  <2>5. \A m \in T : Named(C, m) \subseteq T BY <2>3
  <2>6. Up(n) \subseteq T
    <3> HIDE DEF T
    <3> QED BY <1>1, <1>2, <2>2, <2>4, <2>5 DEF IsReach
  <2>7. n \in Up(n) /\ \A k \in Named(C, n) : k \notin Up(k) BY <2>1, <2>2 DEF S
  <2>8. PICK k \in Named(C, n) : n \in Up(k) \cup {k} BY <2>6, <2>7
  <2>9. CASE n = k BY <2>7, <2>8, <2>9
  <2>10. CASE n \in Up(k)
    <3>1. Named(C, n) \subseteq Up(k) BY <2>3, <2>8, <2>10
    <3> QED BY <2>7, <2>8, <3>1
  <2> QED BY <2>8, <2>9, <2>10
<1> QED BY <1>3

LEMMA LessIsAcyclic ==
  ASSUME NEW C, NEW D, Acyclic(C), NamesLess(D, C)
  PROVE  Acyclic(D)
<1> SUFFICES ASSUME NEW S \in SUBSET Nodes, S # {} PROVE \E n \in S : Named(D, n) \cap S = {}
  BY DEF Acyclic
<1>1. PICK n \in S : Named(C, n) \cap S = {} BY DEF Acyclic
<1>2. Named(D, n) \subseteq Named(C, n) BY DEF NamesLess
<1> QED BY <1>1, <1>2

(* A circle that a new input closes runs through what the input names. *)
LEMMA MoreIsAcyclic ==
  ASSUME NEW C, NEW D, Acyclic(C), NEW s, NEW t, NamesMore(D, C, s, t),
         s \in Nodes => s \notin Upstream(D, Named(D, s))
  PROVE  Acyclic(D)
<1> SUFFICES ASSUME NEW S \in SUBSET Nodes, \A n \in S : Named(D, n) \cap S # {}, S # {} PROVE FALSE
  BY DEF Acyclic
<1> DEFINE R == Upstream(D, Named(D, s))
<1>1. \A n \in Nodes : n # t => Named(D, n) \subseteq Named(C, n) BY DEF NamesMore
<1>2. t \in Nodes => Named(D, t) \subseteq Named(C, t) \cup {s} BY DEF NamesMore
<1>3. PICK n \in S : Named(C, n) \cap S = {} BY DEF Acyclic
<1>4. n \in Nodes /\ Named(D, n) \cap S # {} OBVIOUS
<1>5. n = t /\ s \in S /\ s \in Named(D, t) BY <1>1, <1>2, <1>3, <1>4
<1>6. s \in Nodes BY <1>5
<1>7. Named(D, s) \in SUBSET Nodes /\ \A m \in Nodes : Names(D)[m] = Named(D, m)
  BY NamedAreNodes DEF Names
<1>8. IsReach(R, Names(D), Named(D, s)) BY <1>7, UpstreamIsReach
<1>9. s \notin R BY <1>6
<1> HIDE DEF R
<1>10. Named(D, s) \subseteq R /\ R \subseteq Nodes /\ \A m \in R : Named(D, m) \subseteq R
  BY <1>7, <1>8 DEF IsReach
<1>11. t \notin R BY <1>5, <1>9, <1>10
<1> DEFINE X == S \cap R
<1>12. X # {} BY <1>5, <1>10
<1>13. PICK m \in X : Named(C, m) \cap X = {} BY <1>12 DEF Acyclic
<1>14. Named(D, m) \subseteq Named(C, m) BY <1>1, <1>11
<1>15. Named(D, m) \cap S # {} /\ Named(D, m) \subseteq R BY <1>10
<1> QED BY <1>13, <1>14, <1>15

(* A source node names nothing. *)
LEMMA SourcesNameNothing ==
  ASSUME NEW C, IsDict(C), NEW s \in SourceNodes
  PROVE  Named(C, s) = {} /\ s \notin Upstream(C, Named(C, s))
<1>1. Named(C, s) = {}
  <2>1. s \notin Takers BY NodesAreDistinct DEF Takers, SchemaNodes
  <2> QED BY <2>1, NamedAreGivers
<1> DEFINE S == {}
<1>2. S \in SUBSET Nodes /\ (\A n \in S : Names(C)[n] \subseteq S) /\ S \subseteq S OBVIOUS
<1>3. Named(C, s) = S BY <1>1
<1> HIDE DEF S
<1>4. Upstream(C, S) \subseteq S BY <1>2, UpstreamIsReach DEF IsReach
<1> QED BY <1>1, <1>3, <1>4 DEF S

-----------------------------------------------------------------------------
(* The maps of the slice, and those a step may bring in. *)
Slice == {cur, pristine} \cup Elements(undoStack) \cup Elements(redoStack)

LEMMA CommitBrings ==
  ASSUME StacksOK, NEW new, NEW old, Commit(new, old)
  PROVE  Slice' \subseteq Slice \cup {new} \cup (IF "undo" \in MapEdits THEN {old} ELSE {})
<1>1. cur' = new /\ pristine' = pristine BY DEF Commit
<1>2. CASE "undo" \notin MapEdits
  <2>1. undoStack' = undoStack /\ redoStack' = redoStack BY <1>2 DEF Commit
  <2> QED BY <1>1, <2>1 DEF Slice
<1>3. CASE "undo" \in MapEdits
  <2> DEFINE kept == KeepLast(undoStack, UndoDepth - 1)
  <2>1. undoStack' = Append(kept, old) /\ redoStack' = <<>> BY <1>3 DEF Commit
  <2>2. IsSeq(undoStack) /\ UndoDepth - 1 \in Nat BY MapEditsAreKnown DEF StacksOK
  <2>3. IsSeq(kept) /\ Elements(kept) \subseteq Elements(undoStack)
    BY <2>2, KeepLastIsSeq, ElementsOfKeepLast
  <2> HIDE DEF kept
  <2>4. Elements(undoStack') \subseteq Elements(undoStack) \cup {old}
    BY <2>1, <2>3, ElementsOfAppend
  <2>5. Elements(redoStack') = {} BY <2>1 DEF Elements
  <2>6. Slice' = {cur', pristine'} \cup Elements(undoStack') \cup Elements(redoStack')
    BY DEF Slice, Elements
  <2> QED BY <1>1, <1>3, <2>4, <2>5, <2>6 DEF Slice
<1> QED BY <1>2, <1>3

LEMMA HistoryBringsNothing ==
  ASSUME StacksOK, Undo \/ Redo \/ DiscardDataMap \/ SaveDataMap
  PROVE  Slice' \subseteq Slice
<1>1. IsSeq(undoStack) /\ IsSeq(redoStack) BY DEF StacksOK
<1>2. Slice' = {cur', pristine'} \cup Elements(undoStack') \cup Elements(redoStack')
  BY DEF Slice, Elements
<1>3. CASE Undo
  <2>1. /\ undoStack # <<>> /\ redoStack' = Append(redoStack, cur)
        /\ cur' = undoStack[Len(undoStack)]
        /\ undoStack' = SubSeq(undoStack, 1, Len(undoStack) - 1) /\ pristine' = pristine
    BY <1>3 DEF Undo
  <2>2. /\ Elements(undoStack') \subseteq Elements(undoStack) /\ cur' \in Elements(undoStack)
        /\ Elements(redoStack') \subseteq Elements(redoStack) \cup {cur}
    BY <1>1, <2>1, ElementsOfPopped, ElementsOfAppend
  <2> QED BY <1>2, <2>1, <2>2 DEF Slice
<1>4. CASE Redo
  <2>1. /\ redoStack # <<>> /\ undoStack' = Append(undoStack, cur)
        /\ cur' = redoStack[Len(redoStack)]
        /\ redoStack' = SubSeq(redoStack, 1, Len(redoStack) - 1) /\ pristine' = pristine
    BY <1>4 DEF Redo
  <2>2. /\ Elements(redoStack') \subseteq Elements(redoStack) /\ cur' \in Elements(redoStack)
        /\ Elements(undoStack') \subseteq Elements(undoStack) \cup {cur}
    BY <1>1, <2>1, ElementsOfPopped, ElementsOfAppend
  <2> QED BY <1>2, <2>1, <2>2 DEF Slice
<1>5. CASE DiscardDataMap
  <2>1. cur' = pristine /\ pristine' = pristine /\ undoStack' = <<>> /\ redoStack' = <<>>
    BY <1>5 DEF DiscardDataMap
  <2>2. Elements(undoStack') = {} /\ Elements(redoStack') = {} BY <2>1 DEF Elements
  <2> QED BY <1>2, <2>1, <2>2 DEF Slice
<1>6. CASE SaveDataMap
  BY <1>2, <1>6 DEF SaveDataMap, Slice
<1> QED BY <1>3, <1>4, <1>5, <1>6

(* What a written map has for connections. *)
LEMMA ConnsOfRewritten ==
  ASSUME NEW m, m = MapOf(m.conns, m.canvas, m.functions, m.level, m.inline),
         NEW C, NEW S, NEW F, NEW l, NEW keys
  PROVE  /\ [m EXCEPT !.conns = C].conns = C
         /\ [m EXCEPT !.conns = C, !.canvas = S].conns = C
         /\ [m EXCEPT !.functions = F, !.conns = C].conns = C
         /\ [m EXCEPT !.level = l, !.conns = C, !.canvas = S, !.functions = F].conns = C
         /\ [m EXCEPT !.canvas = S].conns = m.conns
         /\ [m EXCEPT !.inline = keys].conns = m.conns
<1>1. /\ Recanvassed(m, S) = MapOf(m.conns, S, m.functions, m.level, m.inline)
      /\ Rewired(m, C) = MapOf(C, m.canvas, m.functions, m.level, m.inline)
      /\ Repicked(m, keys) = MapOf(m.conns, m.canvas, m.functions, m.level, keys)
      /\ Redrawn(m, C, S) = MapOf(C, S, m.functions, m.level, m.inline)
      /\ Recarded(m, C, F) = MapOf(C, m.canvas, F, m.level, m.inline)
      /\ Relevelled(m, l, C, S, F) = MapOf(C, S, F, l, m.inline)
  BY MapRewritten
<1>2. \A co, ca, fu, le, in : MapOf(co, ca, fu, le, in).conns = co BY DEF MapOf
<1>3. /\ Rewired(m, C).conns = C /\ Redrawn(m, C, S).conns = C /\ Recarded(m, C, F).conns = C
      /\ Relevelled(m, l, C, S, F).conns = C
      /\ Recanvassed(m, S).conns = m.conns /\ Repicked(m, keys).conns = m.conns
  BY <1>1, <1>2
<1> QED BY <1>3 DEF Rewired, Redrawn, Recarded, Relevelled, Recanvassed, Repicked

LEMMA ConnsOfShared ==
  ASSUME SoundMap(cur), NEW C, NEW S
  PROVE  LET E == [n \in DOMAIN cur.conns |-> IF n \in DOMAIN C THEN C[n] ELSE cur.conns[n]]
         IN  /\ SharingAll(C).conns = C
             /\ SharingEntries(C).conns = E
             /\ [SharingEntries(C) EXCEPT !.canvas = S].conns = E
<1> DEFINE E == [n \in DOMAIN cur.conns |-> IF n \in DOMAIN C THEN C[n] ELSE cur.conns[n]]
<1>1. cur = MapOf(cur.conns, cur.canvas, cur.functions, cur.level, cur.inline) BY SoundParts
<1>2. SharingEntries(C) = Rewired(cur, E) /\ SharingAll(C) = Rewired(cur, C)
  BY DEF SharingEntries, SharingAll, Rewired
<1> HIDE DEF E
<1>3. /\ SharingAll(C) = MapOf(C, cur.canvas, cur.functions, cur.level, cur.inline)
      /\ SharingEntries(C) = MapOf(E, cur.canvas, cur.functions, cur.level, cur.inline)
  BY <1>1, <1>2, MapRewritten
<1>4. Recanvassed(SharingEntries(C), S) = MapOf(E, S, cur.functions, cur.level, cur.inline)
  BY <1>3, FieldRewritten
<1>5. \A co, ca, fu, le, in : MapOf(co, ca, fu, le, in).conns = co BY DEF MapOf
<1> QED BY <1>3, <1>4, <1>5 DEF Recanvassed, E

-----------------------------------------------------------------------------
(* Every edit but the dropdowns' leaves maps without circles. *)
Ordered ==
  \E new, old : Commit(new, old) /\ Acyclic(new.conns) /\ ("undo" \in MapEdits => Acyclic(old.conns))

(* An edit of the dictionary. *)
LEMMA RewiredIsOrdered ==
  ASSUME SoundMap(cur), NEW C, Acyclic(C), NEW S, NEW F, NEW old,
         \/ old = SharingAll(C)
         \/ /\ DOMAIN cur.conns \subseteq DOMAIN C
            /\ old \in {SharingEntries(C), [SharingEntries(C) EXCEPT !.canvas = S]},
         \/ Commit([cur EXCEPT !.conns = C], old)
         \/ Commit([cur EXCEPT !.conns = C, !.canvas = S], old)
         \/ Commit([cur EXCEPT !.functions = F, !.conns = C], old)
  PROVE  Ordered
<1>1. cur = MapOf(cur.conns, cur.canvas, cur.functions, cur.level, cur.inline) BY SoundParts
<1>2. PICK new : Commit(new, old) /\ new.conns = C
  <2>1. /\ [cur EXCEPT !.conns = C].conns = C
        /\ [cur EXCEPT !.conns = C, !.canvas = S].conns = C
        /\ [cur EXCEPT !.functions = F, !.conns = C].conns = C
    BY <1>1, ConnsOfRewritten
  <2>2. CASE Commit([cur EXCEPT !.conns = C], old) BY <2>1, <2>2
  <2>3. CASE Commit([cur EXCEPT !.conns = C, !.canvas = S], old) BY <2>1, <2>3
  <2>4. CASE Commit([cur EXCEPT !.functions = F, !.conns = C], old) BY <2>1, <2>4
  <2> QED BY <2>2, <2>3, <2>4
<1>3. Acyclic(old.conns)
  <2> DEFINE E == [n \in DOMAIN cur.conns |-> IF n \in DOMAIN C THEN C[n] ELSE cur.conns[n]]
  <2>1. /\ SharingAll(C).conns = C /\ SharingEntries(C).conns = E
        /\ [SharingEntries(C) EXCEPT !.canvas = S].conns = E
    BY ConnsOfShared
  <2>2. CASE old = SharingAll(C) BY <2>1, <2>2
  <2>3. CASE /\ DOMAIN cur.conns \subseteq DOMAIN C
             /\ old \in {SharingEntries(C), [SharingEntries(C) EXCEPT !.canvas = S]}
    <3>1. \A n \in DOMAIN E : n \in DOMAIN C /\ E[n].inputs = C[n].inputs BY <2>3
    <3>2. old.conns = E BY <2>1, <2>3
    <3> HIDE DEF E
    <3>3. NamesLess(E, C) BY <3>1, CollectedNames
    <3> QED BY <3>2, <3>3, LessIsAcyclic
  <2> QED BY <2>2, <2>3
<1> QED BY <1>2, <1>3 DEF Ordered

LEMMA CanvasIsOrdered ==
  ASSUME SoundMap(cur), Acyclic(cur.conns), NEW S, NEW keys,
         Commit([cur EXCEPT !.canvas = S], cur) \/ Commit([cur EXCEPT !.inline = keys], cur)
  PROVE  Ordered
<1>1. cur = MapOf(cur.conns, cur.canvas, cur.functions, cur.level, cur.inline) BY SoundParts
<1>2. /\ [cur EXCEPT !.canvas = S].conns = cur.conns
      /\ [cur EXCEPT !.inline = keys].conns = cur.conns
  BY <1>1, ConnsOfRewritten
<1> QED BY <1>2 DEF Ordered

LEMMA SetLevelIsOrdered ==
  ASSUME SoundMap(cur), Acyclic(cur.conns), NEW l, SetLevel(l)
  PROVE  Ordered
<1> DEFINE drawn == Upstream(cur.conns, LevelRoots(cur.conns, cur.level))
           clean == [n \in DOMAIN cur.conns \ (cur.functions \ drawn) |-> cur.conns[n]]
           shown == Upstream(clean, LevelRoots(clean, l))
           S == shown \cap SourceNodes
           F == shown \cap FunctionNodes
           new == [cur EXCEPT !.level = l, !.conns = clean, !.canvas = S, !.functions = F]
<1>1. Commit(new, cur) BY DEF SetLevel
<1>2. cur = MapOf(cur.conns, cur.canvas, cur.functions, cur.level, cur.inline) BY SoundParts
<1>3. \A n \in DOMAIN clean : n \in DOMAIN cur.conns /\ clean[n].inputs = cur.conns[n].inputs OBVIOUS
<1> HIDE DEF clean, S, F
<1>4. new.conns = clean BY <1>2, ConnsOfRewritten
<1>5. NamesLess(clean, cur.conns) BY <1>3, CollectedNames
<1> HIDE DEF new
<1> QED BY <1>1, <1>4, <1>5, LessIsAcyclic DEF Ordered

LEMMA AddFunctionIsOrdered ==
  ASSUME SoundMap(cur), Acyclic(cur.conns), NEW f \in FunctionNodes, AddFunction(f)
  PROVE  Ordered
<1> DEFINE C == WithEntry(cur.conns, f)
           F == cur.functions \cup {f}
<1>1. Commit([cur EXCEPT !.functions = F, !.conns = C], SharingAll(C)) BY DEF AddFunction
<1>2. f \in Nodes BY DEF Nodes
<1>3. NamesLess(C, cur.conns) BY <1>2, WithEntryNamesTheSame DEF NamesLess, SoundMap
<1>4. Acyclic(C) BY <1>3, LessIsAcyclic
<1> HIDE DEF C, F
<1> QED BY <1>1, <1>4, RewiredIsOrdered

LEMMA DeleteFunctionIsOrdered ==
  ASSUME SoundMap(cur), Acyclic(cur.conns), NEW f, DeleteFunction(f)
  PROVE  Ordered
<1> DEFINE C == Without(cur.conns, f)
           F == cur.functions \ {f}
<1>1. Commit([cur EXCEPT !.functions = F, !.conns = C], SharingAll(C)) BY DEF DeleteFunction
<1>2. IsDict(cur.conns) BY DEF SoundMap
<1>3. NamesLess(C, cur.conns) BY <1>2, WithoutNames
<1>4. Acyclic(C) BY <1>3, LessIsAcyclic
<1> HIDE DEF C, F
<1> QED BY <1>1, <1>4, RewiredIsOrdered

(* makeConnection follows what it has connected, and throws on a circle. *)
LEMMA MadeIsAcyclic ==
  ASSUME SoundMap(cur), Acyclic(cur.conns), NEW s \in Givers, NEW t \in Takers, NEW i \in Nat,
         t \in FunctionNodes /\ i = 0 => Roomy(cur.conns, t), ~MakeThrows(s, t, i)
  PROVE  Acyclic(Made(s, t, i))
<1>1. IsDict(cur.conns) /\ IsDict(Made(s, t, i)) BY MadeIsDict DEF SoundMap
<1>2. NamesMore(Made(s, t, i), cur.conns, s, t)
  <2>1. CASE i = 0
    <3>1. t \in FunctionNodes \/ t \in SchemaNodes BY DEF Takers, SchemaNodes
    <3>2. Roomy(cur.conns, t) BY <2>1, <3>1, SchemaNodesAreRoomy
    <3> QED BY <1>1, <2>1, <3>2, ConnectNames DEF Made
  <2>2. CASE i # 0
    <3>1. s \in InputValues /\ i \in Nat \ {0} BY <2>2 DEF InputValues
    <3> QED BY <1>1, <2>2, <3>1, SetValueNames DEF Made
  <2> QED BY <2>1, <2>2
<1>3. s \notin Upstream(Made(s, t, i), Named(Made(s, t, i), s))
  <2>1. CASE s \in SourceNodes BY <1>1, <2>1, SourcesNameNothing
  <2>2. CASE s \in FunctionNodes
    <3>1. UpstreamEnds(Made(s, t, i), {s}) BY <2>2 DEF MakeThrows
    <3>2. {s} \in SUBSET Nodes BY DEF Givers, Nodes, SchemaNodes
    <3>3. s \in Upstream(Made(s, t, i), {s}) BY <3>2, UpstreamIsReach DEF IsReach
    <3> QED BY <3>1, <3>3 DEF UpstreamEnds
  <2> QED BY <2>1, <2>2 DEF Givers
<1> QED BY <1>2, <1>3, MoreIsAcyclic

(* Connecting arrays closes no circle: they are connected to sources. *)
LEMMA WithAllArraysIsAcyclic ==
  ASSUME NEW C, IsDict(C), Acyclic(C), NEW S \in SUBSET SourceNodes, NEW t \in TargetNodes
  PROVE  Acyclic(WithAllArrays(C, S, t))
<1> DEFINE E == {D \in Extensions(C) : Acyclic(D)}
<1>1. ArraysConnectWithin(E)
  <2> SUFFICES ASSUME NEW B \in E, NEW o \in ArrayEnds PROVE Connect(B, o[1], o[2]) \in E
    BY DEF ArraysConnectWithin
  <2>1. /\ o[1] \in SourceNodes /\ o[1] \in Givers /\ o[2] \in Takers /\ o[2] \in SchemaNodes
    BY DEF ArrayEnds, Givers, Takers, SchemaNodes
  <2>2. IsDict(B) /\ Acyclic(B) /\ B \in Extensions(C) BY ExtensionsAreDicts
  <2>3. Connect(B, o[1], o[2]) \in Extensions(C)
    BY <2>2, ConnectedExtensions DEF ArraysConnectWithin
  <2>4. IsDict(Connect(B, o[1], o[2])) BY <2>3, ExtensionsAreDicts
  <2>5. NamesMore(Connect(B, o[1], o[2]), B, o[1], o[2])
    BY <2>1, <2>2, SchemaNodesAreRoomy, ConnectNames
  <2>6. Acyclic(Connect(B, o[1], o[2])) BY <2>1, <2>2, <2>4, <2>5, SourcesNameNothing, MoreIsAcyclic
  <2> QED BY <2>3, <2>6
<1>2. C \in E BY ExtensionsAreDicts
<1>3. \A D \in E : Acyclic(D) OBVIOUS
<1> HIDE DEF E
<1>4. WithAllArrays(C, S, t) \in E BY <1>1, <1>2, WithAllArraysIsWithin
<1> QED BY <1>3, <1>4

LEMMA MakeConnectionIsOrdered ==
  ASSUME SoundMap(cur), Acyclic(cur.conns), NEW s \in Givers, NEW t \in Takers, NEW i \in Nat,
         t \in FunctionNodes /\ i = 0 => Roomy(cur.conns, t), MakeConnection(s, t, i)
  PROVE  Ordered
<1> DEFINE conns == Made(s, t, i)
           sources == IF s \in FunctionNodes THEN Upstream(conns, {s}) \cap SourceNodes ELSE {s}
           targets == IF t \in FunctionNodes THEN Downstream(conns, {t}) \cap TargetNodes ELSE {t}
<1>1. IsDict(conns) /\ DOMAIN cur.conns \subseteq DOMAIN conns BY MadeIsDict
<1>2. Acyclic(conns)
  <2>1. ~MakeThrows(s, t, i) BY DEF MakeConnection
  <2> QED BY <2>1, MadeIsAcyclic
<1>3. sources \in SUBSET SourceNodes /\ targets \in SUBSET TargetNodes
  <2> HIDE DEF conns
  <2> QED BY DEF Givers, Takers
<1>4. PICK C, S : /\ Commit([cur EXCEPT !.conns = C, !.canvas = S], [SharingEntries(C) EXCEPT !.canvas = S])
                  /\ C = conns \/ \E u \in targets : C = WithAllArrays(conns, sources, u)
  <2>1. CASE sources = {} \/ targets = {}
    <3>1. Commit([cur EXCEPT !.conns = conns, !.canvas = cur.canvas],
                 [SharingEntries(conns) EXCEPT !.canvas = cur.canvas])
      BY <2>1 DEF MakeConnection
    <3> HIDE DEF conns, sources, targets
    <3> QED BY <3>1
  <2>2. CASE ~(sources = {} \/ targets = {})
    <3>1. PICK u \in targets :
            LET C == WithAllArrays(conns, sources, u)
                S == cur.canvas \cup (Named(C, cur.level) \cap SourceNodes)
            IN  Commit([cur EXCEPT !.conns = C, !.canvas = S], [SharingEntries(C) EXCEPT !.canvas = S])
      BY <2>2 DEF MakeConnection
    <3> DEFINE C == WithAllArrays(conns, sources, u)
               S == cur.canvas \cup (Named(C, cur.level) \cap SourceNodes)
    <3>2. Commit([cur EXCEPT !.conns = C, !.canvas = S], [SharingEntries(C) EXCEPT !.canvas = S])
      BY <3>1
    <3>3. C = WithAllArrays(conns, sources, u) OBVIOUS
    <3> HIDE DEF conns, sources, targets, C, S
    <3> QED BY <3>2, <3>3
  <2> QED BY <2>1, <2>2
<1> HIDE DEF conns, sources, targets
<1>5. Acyclic(C) /\ DOMAIN cur.conns \subseteq DOMAIN C
  <2>1. CASE C = conns BY <1>1, <1>2, <2>1
  <2>2. CASE \E u \in targets : C = WithAllArrays(conns, sources, u)
    <3>1. PICK u \in targets : C = WithAllArrays(conns, sources, u) BY <2>2
    <3>2. u \in TargetNodes BY <1>3
    <3>3. Acyclic(C) /\ DOMAIN conns \subseteq DOMAIN C
      BY <1>1, <1>2, <1>3, <3>1, <3>2, WithAllArraysIsDict, WithAllArraysIsAcyclic
    <3> QED BY <1>1, <3>3
  <2> QED BY <1>4, <2>1, <2>2
<1> DEFINE old == [SharingEntries(C) EXCEPT !.canvas = S]
<1>6. old \in {SharingEntries(C), [SharingEntries(C) EXCEPT !.canvas = S]} OBVIOUS
<1>7. Commit([cur EXCEPT !.conns = C, !.canvas = S], old) BY <1>4
<1> HIDE DEF old
<1> QED BY <1>5, <1>6, <1>7, RewiredIsOrdered

LEMMA DragIsOrdered ==
  ASSUME SoundMap(cur), Acyclic(cur.conns), NEW s, NEW t, NEW i \in Nat, Drag(s, t, i)
  PROVE  Ordered
<1>1. s \in Givers /\ t \in Takers BY CardsAreEnds DEF Drag
<1>2. MakeConnection(s, t, i) /\ ~MakeThrows(s, t, i) BY DEF Drag, MakeConnection
<1>3. ASSUME t \in FunctionNodes, i = 0 PROVE Roomy(cur.conns, t)
  <2>1. Arity[t] # 0 BY <1>2, <1>3 DEF MakeThrows
  <2>2. SlotAvailable(cur.conns, t) BY <1>3 DEF Drag
  <2>3. IsDict(cur.conns) BY DEF SoundMap
  <2> QED BY <1>3, <2>1, <2>2, <2>3, SlotAvailableIsRoom
<1> QED BY <1>1, <1>2, <1>3, MakeConnectionIsOrdered

LEMMA ChangeFieldsIsOrdered ==
  ASSUME SoundMap(cur), Acyclic(cur.conns), NEW f, ChangeFields(f)
  PROVE  Ordered
<1> DEFINE n == Cardinality(Fields(cur.conns, f)) + 1
<1>1. f \in DOMAIN cur.conns /\ f \in Takers /\ Manifold(f) /\ IsDict(cur.conns)
  BY CardsAreEnds DEF ChangeFields, SoundMap
<1>2. n \in Nat \ {0} BY FieldsAreCounted
<1>3. PICK C \in {SetValue(cur.conns, f, n, Empty)}
                   \cup {RemoveField(cur.conns, f, i) : i \in Fields(cur.conns, f)} :
        Commit([cur EXCEPT !.conns = C], SharingEntries(C))
  BY DEF ChangeFields
<1> HIDE DEF n
<1>4. Empty \in InputValues /\ Empty \notin Nodes BY NodesAreDistinct DEF InputValues
<1>5. Acyclic(C) /\ DOMAIN cur.conns \subseteq DOMAIN C
  <2>1. CASE C = SetValue(cur.conns, f, n, Empty)
    <3>1. DOMAIN cur.conns \subseteq DOMAIN C BY <1>1, <1>2, <1>4, <2>1, SetValueIsDict
    <3>2. NamesMore(C, cur.conns, Empty, f) BY <1>1, <1>2, <1>4, <2>1, SetValueNames
    <3> QED BY <1>4, <3>1, <3>2, MoreIsAcyclic
  <2>2. CASE \E i \in Fields(cur.conns, f) : C = RemoveField(cur.conns, f, i)
    <3>1. DOMAIN cur.conns \subseteq DOMAIN C BY <1>1, <2>2, RemoveFieldIsDict
    <3>2. NamesLess(C, cur.conns) BY <1>1, <2>2, RemoveFieldNames
    <3> QED BY <3>1, <3>2, LessIsAcyclic
  <2> QED BY <1>3, <2>1, <2>2
<1> DEFINE old == SharingEntries(C)
<1>6. old \in {SharingEntries(C), [SharingEntries(C) EXCEPT !.canvas = n]} OBVIOUS
<1>7. Commit([cur EXCEPT !.conns = C], old) BY <1>3
<1> HIDE DEF old
<1> QED BY <1>5, <1>6, <1>7, RewiredIsOrdered

LEMMA DeletedArraysAreAcyclic ==
  ASSUME NEW C, IsDict(C), Acyclic(C), NEW s \in SourceNodes, NEW D \in DeletedArrays(C, s)
  PROVE  Acyclic(D)
<1> DEFINE E == {B \in Extensions(C) : Acyclic(B)}
<1>1. C \in E /\ \A B \in E : IsDict(B) /\ Acyclic(B) BY ExtensionsAreDicts
<1>2. ASSUME NEW B \in E, NEW p, NEW T PROVE Cut(B, p, T) \in E
  <2>1. IsDict(B) /\ Acyclic(B) /\ DOMAIN C \subseteq DOMAIN B BY ExtensionsAreDicts
  <2>2. IsDict(Cut(B, p, T)) /\ DOMAIN Cut(B, p, T) = DOMAIN B BY <2>1, CutIsDict
  <2>3. Acyclic(Cut(B, p, T)) BY <2>1, CutNames, LessIsAcyclic
  <2> QED BY <2>1, <2>2, <2>3, ExtensionsAreDicts
<1> HIDE DEF E
<1>3. D \in E BY <1>1, <1>2, DeletedArraysAreWithin
<1> QED BY <1>1, <1>3

LEMMA DeleteEdgeIsOrdered ==
  ASSUME SoundMap(cur), Acyclic(cur.conns), NEW e, DeleteEdge(e)
  PROVE  Ordered
<1> DEFINE cut == Disconnect(cur.conns, e.from, e.to, e.port)
           sources == IF e.from \in SourceNodes THEN {e.from} ELSE Upstream(cut, {e.from}) \cap SourceNodes
<1>1. IsDict(cut) /\ DOMAIN cut = DOMAIN cur.conns BY DisconnectIsDict DEF SoundMap
<1>2. Acyclic(cut) BY DisconnectNames, LessIsAcyclic DEF SoundMap
<1>3. PICK C \in IF sources = {} THEN {cut} ELSE UNION {DeletedArrays(cut, s) : s \in sources} :
        Commit([cur EXCEPT !.conns = C], SharingEntries(C))
  BY DEF DeleteEdge
<1>4. sources \subseteq SourceNodes OBVIOUS
<1> HIDE DEF cut, sources
<1>5. Acyclic(C) /\ DOMAIN cur.conns \subseteq DOMAIN C
  <2>1. CASE C = cut BY <1>1, <1>2, <2>1
  <2>2. CASE \E s \in sources : C \in DeletedArrays(cut, s)
    BY <1>1, <1>2, <1>4, <2>2, DeletedArraysAreDicts, DeletedArraysAreAcyclic
  <2> QED BY <1>3, <2>1, <2>2
<1> DEFINE old == SharingEntries(C)
<1>6. old \in {SharingEntries(C), [SharingEntries(C) EXCEPT !.canvas = sources]} OBVIOUS
<1>7. Commit([cur EXCEPT !.conns = C], old) BY <1>3
<1> HIDE DEF old
<1> QED BY <1>5, <1>6, <1>7, RewiredIsOrdered

LEMMA InlineDisconnectIsOrdered ==
  ASSUME SoundMap(cur), Acyclic(cur.conns), InlineDisconnect
  PROVE  Ordered
<1> DEFINE C == Disconnect(cur.conns, inserting.from, inserting.to, inserting.port)
           old == SharingAll(C)
<1>1. Commit([cur EXCEPT !.conns = C], old) BY DEF InlineDisconnect
<1>2. Acyclic(C) BY DisconnectNames, LessIsAcyclic DEF SoundMap
<1>3. old = SharingAll(C) OBVIOUS
<1> HIDE DEF C, old
<1> QED BY <1>1, <1>2, <1>3, RewiredIsOrdered

(* Both later dispatches are makeConnection. *)
LEMMA InlineConnectsIsOrdered ==
  ASSUME SoundMap(cur), Acyclic(cur.conns), InsertingIsSound, InlineInput \/ InlineOutput
  PROVE  Ordered
<1>1. CASE InlineInput
  <2>1. /\ inserting.from \in Givers /\ inserting.fn \in Takers /\ Roomy(cur.conns, inserting.fn)
        /\ MakeConnection(inserting.from, inserting.fn, 0)
    BY <1>1, InsertedHasRoom
  <2>2. 0 \in Nat OBVIOUS
  <2> QED BY <2>1, <2>2, MakeConnectionIsOrdered
<1>2. CASE InlineOutput
  <2>1. /\ InlineStep(3) /\ 3 \in 1..3 /\ 3 \in 2..3
        /\ MakeConnection(inserting.fn, inserting.to, inserting.port)
    BY <1>2 DEF InlineOutput
  <2>2. /\ inserting.fn \in FunctionNodes /\ inserting.to \in Takers /\ inserting.port \in Nat
        /\ inserting.to \in FunctionNodes => inserting.port # 0
    BY <2>1, InlineStepIsTyped
  <2>3. inserting.fn \in Givers BY <2>2 DEF Givers
  <2> QED BY <2>1, <2>2, <2>3, MakeConnectionIsOrdered
<1> QED BY <1>1, <1>2

(* The one edit that does not look for circles in what it has written. *)
Dropdown ==
  /\ "input" \in MapEdits
  /\ \E t \in Nodes, i \in 1..MaxFields, v \in Nodes \cup {Custom, Empty} : SetConnectionInput(t, i, v)

LEMMA CanvasEditIsOrdered ==
  ASSUME SoundMap(cur), Acyclic(cur.conns), Dropdown => Ordered, CanvasEdit
  PROVE  Ordered
<1>1. CASE \E x \in SourceNodes : AddSource(x) BY <1>1, CanvasIsOrdered DEF AddSource
<1>2. CASE \E x \in SourceNodes : RemoveSource(x) BY <1>2, CanvasIsOrdered DEF RemoveSource
<1>3. CASE \E f \in FreshFunctions : AddFunction(f) BY <1>3, FreshIsNew, AddFunctionIsOrdered
<1>4. CASE \E s, t \in Nodes : Drag(s, t, 0)
  <2>1. 0 \in Nat OBVIOUS
  <2> QED BY <1>4, <2>1, DragIsOrdered
<1>5. CASE \E s \in Nodes, t \in FunctionNodes, i \in 1..MaxFields : Drag(s, t, i)
  <2>1. \A i \in 1..MaxFields : i \in Nat OBVIOUS
  <2> QED BY <1>5, <2>1, DragIsOrdered
<1>6. CASE \E f \in FunctionNodes : ChangeFields(f) BY <1>6, ChangeFieldsIsOrdered
<1>7. CASE \E e \in Edges : DeleteEdge(e) BY <1>7, DeleteEdgeIsOrdered
<1>8. CASE \E f \in FunctionNodes : DeleteFunction(f) BY <1>8, DeleteFunctionIsOrdered
<1>9. CASE \E e \in Edges : SetInline(<<e.from, e.to, e.port>>)
  BY <1>9, CanvasIsOrdered DEF SetInline
<1>10. CASE SetInline(<<>>) BY <1>10, CanvasIsOrdered DEF SetInline
<1> QED BY <1>1, <1>2, <1>3, <1>4, <1>5, <1>6, <1>7, <1>8, <1>9, <1>10 DEF CanvasEdit, Dropdown

(* The inductive invariant: undo and discard bring back no circle either. *)
OrderedInv == DataInv /\ \A m \in Slice : Acyclic(m.conns)

MapsAreOrdered == \A C \in Maps : Acyclic(C)

LEMMA InitIsOrdered ==
  ASSUME MapsAreSound, MapsAreOrdered, MapInit
  PROVE  OrderedInv
<1>1. PICK C \in Maps : cur = LoadedMap(C) BY DEF MapInit
<1>2. pristine = cur /\ undoStack = <<>> /\ redoStack = <<>> BY DEF MapInit
<1>3. Slice = {cur} BY <1>2 DEF Slice, Elements
<1>4. cur.conns = C BY <1>1 DEF LoadedMap
<1>5. Acyclic(C) BY DEF MapsAreOrdered
<1> QED BY <1>3, <1>4, <1>5, InitIsSound DEF OrderedInv

LEMMA OrderedKeeps ==
  ASSUME StacksOK, \A m \in Slice : Acyclic(m.conns), Ordered
  PROVE  \A m \in Slice' : Acyclic(m.conns)
<1>1. PICK new, old : /\ Commit(new, old) /\ Acyclic(new.conns)
                      /\ "undo" \in MapEdits => Acyclic(old.conns)
  BY DEF Ordered
<1>2. Slice' \subseteq Slice \cup {new} \cup (IF "undo" \in MapEdits THEN {old} ELSE {})
  BY <1>1, CommitBrings
<1> QED BY <1>1, <1>2

LEMMA NextIsOrdered ==
  ASSUME OrderedInv, Dropdown => Ordered, [MapNext]_mapVars
  PROVE  OrderedInv'
<1>1. /\ DataInv /\ StacksOK /\ SoundMap(cur) /\ InsertingIsSound /\ Acyclic(cur.conns)
      /\ \A m \in Slice : Acyclic(m.conns)
  BY DEF OrderedInv, DataInv, Slice
<1>2. DataInv' BY <1>1, NextIsSound
<1>3. SUFFICES \A m \in Slice' : Acyclic(m.conns)
  <2>1. (\A m \in Slice : Acyclic(m.conns))' <=> \A m \in Slice' : Acyclic(m.conns)
    BY DEF Acyclic, Named
  <2> QED BY <1>2, <1>3, <2>1 DEF OrderedInv
<1>4. ASSUME Slice' \subseteq Slice PROVE \A m \in Slice' : Acyclic(m.conns) BY <1>1, <1>4
<1>5. CASE CanvasEdit BY <1>1, <1>5, CanvasEditIsOrdered, OrderedKeeps
<1>6. CASE \E f \in FreshFunctions : PickInline(f)
  <2>1. PICK f \in FreshFunctions : AddFunction(f) BY <1>6 DEF PickInline
  <2> QED BY <1>1, <2>1, FreshIsNew, AddFunctionIsOrdered, OrderedKeeps
<1>7. CASE InlineDisconnect BY <1>1, <1>7, InlineDisconnectIsOrdered, OrderedKeeps
<1>8. CASE InlineInput \/ InlineOutput BY <1>1, <1>8, InlineConnectsIsOrdered, OrderedKeeps
<1>9. CASE InlineEnds
  <2>1. Ordered BY <1>1, <1>9, CanvasIsOrdered DEF InlineEnds, SetInline
  <2> QED BY <1>1, <2>1, OrderedKeeps
<1>10. CASE InlineThrows \/ UNCHANGED mapVars
  <2>1. UNCHANGED <<cur, pristine, undoStack, redoStack>> BY <1>10 DEF InlineThrows, mapVars
  <2>2. Slice' = Slice BY <2>1 DEF Slice, Elements
  <2> QED BY <1>4, <2>2
<1>11. CASE \E l \in TargetNodes \cup {NoNode} : SetLevel(l)
  BY <1>1, <1>11, SetLevelIsOrdered, OrderedKeeps
<1>12. CASE Undo \/ Redo \/ SaveDataMap \/ DiscardDataMap
  BY <1>1, <1>4, <1>12, HistoryBringsNothing
<1> QED BY <1>5, <1>6, <1>7, <1>8, <1>9, <1>10, <1>11, <1>12 DEF MapNext

(* Drags between cards and to single handles, functions put on an edge,    *)
(* deletions, changes of level, undo and redo: none of them closes a       *)
(* circle, and no array connected along with a value does, for every pair  *)
(* of schemas and every set of functions.  Expanded cards ask nobody, but  *)
(* makeConnection follows what it has connected and throws on a circle     *)
(* before the edit is committed.  The dropdowns are not among these edits: *)
(* what they set is not followed, they ask the outputs, and these may have *)
(* lost an entry where a node was in two fields.                           *)
THEOREM MapStaysAcyclic ==
  ASSUME MapsAreSound, MapsAreOrdered, "input" \notin MapEdits
  PROVE  MapSpec => []MapIsAcyclic
<1>1. MapInit => OrderedInv BY InitIsOrdered
<1>2. OrderedInv /\ [MapNext]_mapVars => OrderedInv' BY NextIsOrdered DEF Dropdown
<1>3. OrderedInv => MapIsAcyclic BY AcyclicIsAcyclic DEF OrderedInv, Slice, MapIsAcyclic
<1> QED BY <1>1, <1>2, <1>3, PTL DEF MapSpec

-----------------------------------------------------------------------------
(* What a filter leaves does not hold what it leaves out. *)
LEMMA AllButLeavesOut ==
  ASSUME NEW S, NEW seq \in Seq(S), NEW v
  PROVE  AllBut(seq, v) \in Seq(S \ {v}) /\ Len(AllBut(seq, v)) <= Len(seq)
<1> DEFINE n == Len(seq)
           D == 0..n
           R == Seq(S \ {v})
           down == [i \in 1..n |-> i - 1]
           step == [p \in D \X R |-> IF seq[p[1]] = v THEN p[2] ELSE Append(p[2], seq[p[1]])]
           V == [i \in D |-> {s \in R : Len(s) <= i}]
           IsIt(f) == f = [i \in D |-> IF i = 0 THEN <<>>
                             ELSE IF seq[i] = v THEN f[i - 1] ELSE Append(f[i - 1], seq[i])]
           r == CHOOSE f : IsIt(f)
<1>1. n \in Nat /\ \A i \in D \ {0} : i \in 1..n /\ seq[i] \in S /\ down[i] = i - 1 /\ i - 1 \in D OBVIOUS
<1>2. Descends(D, {0}, down) BY <1>1, CountingDescends
<1>3. \A x \in D \cap {0} : <<>> \in V[x] OBVIOUS
<1>4. ASSUME NEW x \in D \ {0}, NEW s \in V[down[x]] PROVE step[<<x, s>>] \in V[x]
  <2>1. s \in R /\ Len(s) <= x - 1 BY <1>1
  <2>2. step[<<x, s>>] = IF seq[x] = v THEN s ELSE Append(s, seq[x]) BY <2>1
  <2>3. seq[x] # v => Append(s, seq[x]) \in R /\ Len(Append(s, seq[x])) = Len(s) + 1 BY <1>1, <2>1
  <2>4. Len(s) \in Nat BY <2>1
  <2> HIDE DEF step, R
  <2> QED BY <1>1, <2>1, <2>2, <2>3, <2>4
<1>5. PICK f : Solves(f, D, {0}, <<>>, down, step) /\ \A x \in D : f[x] \in V[x]
  <2> HIDE DEF D, V, down, step
  <2> QED BY <1>2, <1>3, <1>4, RecursionHasSolution
<1>6. IsIt(f)
  <2>1. f = [i \in D |-> IF i \in {0} THEN <<>> ELSE step[<<i, f[down[i]]>>]] BY <1>5 DEF Solves
  <2>2. \A i \in D \ {0} : down[i] = i - 1 /\ f[i - 1] \in R BY <1>1, <1>5
  <2>3. \A i \in D \ {0} : step[<<i, f[down[i]]>>]
                           = IF seq[i] = v THEN f[i - 1] ELSE Append(f[i - 1], seq[i])
    <3> TAKE i \in D \ {0}
    <3> HIDE DEF down
    <3>2. \A z \in R : step[<<i, z>>] = IF seq[i] = v THEN z ELSE Append(z, seq[i]) OBVIOUS
    <3> HIDE DEF step, R
    <3> QED BY <2>2, <3>2
  <2> HIDE DEF D, V, down, step
  <2> QED BY <2>1, <2>3
<1>7. IsIt(r)
  <2> HIDE DEF IsIt
  <2> QED BY <1>6
<1>8. AllBut(seq, v) = r[n] BY DEF AllBut
<1> HIDE DEF r
<1>9. \A x \in D : r[x] \in V[x]
  <2>1. \A x \in D \cap {0} : r[x] \in V[x]
    <3>1. \A x \in D \cap {0} : r[x] = <<>> BY <1>7
    <3> QED BY <1>3, <3>1
  <2>2. ASSUME NEW x \in D \ {0}, r[down[x]] \in V[down[x]] PROVE r[x] \in V[x]
    <3>1. r[x] = IF seq[x] = v THEN r[x - 1] ELSE Append(r[x - 1], seq[x]) BY <1>7
    <3>2. r[x - 1] \in R /\ Len(r[x - 1]) <= x - 1 BY <1>1, <2>2
    <3>3. seq[x] # v => /\ Append(r[x - 1], seq[x]) \in R
                        /\ Len(Append(r[x - 1], seq[x])) = Len(r[x - 1]) + 1
      BY <1>1, <3>2
    <3>4. Len(r[x - 1]) \in Nat BY <3>2
    <3> HIDE DEF R
    <3> QED BY <1>1, <3>1, <3>2, <3>3, <3>4
  <2> HIDE DEF D, V, down
  <2> QED BY <1>2, <2>1, <2>2, Inherited
<1>10. r[n] \in V[n] /\ n \in D BY <1>1, <1>9
<1> QED BY <1>8, <1>10

LEMMA FilteredNamesOthers ==
  ASSUME NEW n \in Nodes, NEW a \in Filled(n), NEW v
  PROVE  v \notin NodesIn([j \in DOMAIN a |-> AllBut(a[j], v)])
<1> DEFINE b == [j \in DOMAIN a |-> AllBut(a[j], v)]
<1>1. \A i \in DOMAIN a : a[i] \in Seq(InputValues) BY FilledIsTyped
<1>2. \A i \in DOMAIN a : b[i] \in Seq(InputValues \ {v}) BY <1>1, AllButLeavesOut
<1>3. \A i \in DOMAIN a : \A j \in DOMAIN b[i] : b[i][j] # v BY <1>2
<1>4. DOMAIN b = DOMAIN a OBVIOUS
<1> HIDE DEF b
<1>5. v \notin NodesIn(b) BY <1>3, <1>4 DEF NodesIn
<1> QED BY <1>5 DEF b

-----------------------------------------------------------------------------
(* What a helper makes of the outputs. *)
LEMMA OutputsAreWritten ==
  ASSUME NEW C, IsDict(C), NEW s, NEW o, NEW m
  PROVE  OutputsOf(SetOutputs(C, s, o), m) = IF m = s /\ s \in DOMAIN C THEN o ELSE OutputsOf(C, m)
<1> DEFINE D == SetOutputs(C, s, o)
<1>1. DOMAIN D = DOMAIN C BY DEF SetOutputs
<1>2. \A n \in DOMAIN C : D[n] = IF n = s THEN [C[n] EXCEPT !.outputs = o] ELSE C[n]
  BY DEF SetOutputs
<1> HIDE DEF D
<1>3. CASE m \notin DOMAIN C BY <1>1, <1>3 DEF OutputsOf, D
<1>4. CASE m \in DOMAIN C /\ m # s BY <1>1, <1>2, <1>4 DEF OutputsOf, D
<1>5. CASE m \in DOMAIN C /\ m = s
  <2>1. D[m] = [C[m] EXCEPT !.outputs = o] BY <1>2, <1>5
  <2>2. C[m] \in EntryOf(m) BY <1>5 DEF IsDict
  <2>3. D[m].outputs = o BY <2>1, <2>2 DEF EntryOf
  <2> QED BY <1>1, <1>5, <2>3 DEF OutputsOf, D
<1> QED BY <1>3, <1>4, <1>5

LEMMA InputsLeaveOutputs ==
  ASSUME NEW C, IsDict(C), NEW t, NEW a, NEW m
  PROVE  OutputsOf(SetInputs(C, t, a), m) = OutputsOf(C, m)
<1> DEFINE D == SetInputs(C, t, a)
<1>1. DOMAIN D = DOMAIN C BY DEF SetInputs
<1>2. \A n \in DOMAIN C : D[n] = IF n = t THEN [C[n] EXCEPT !.inputs = a] ELSE C[n]
  BY DEF SetInputs
<1> HIDE DEF D
<1>3. CASE m \notin DOMAIN C BY <1>1, <1>3 DEF OutputsOf, D
<1>4. CASE m \in DOMAIN C /\ m # t BY <1>1, <1>2, <1>4 DEF OutputsOf, D
<1>5. CASE m \in DOMAIN C /\ m = t
  <2>1. D[m] = [C[m] EXCEPT !.inputs = a] BY <1>2, <1>5
  <2>2. C[m] \in EntryOf(m) BY <1>5 DEF IsDict
  <2>3. D[m].outputs = C[m].outputs BY <2>1, <2>2 DEF EntryOf
  <2> QED BY <1>1, <1>5, <2>3 DEF OutputsOf, D
<1> QED BY <1>3, <1>4, <1>5

LEMMA WithEntryOutputs ==
  ASSUME NEW C, IsDict(C), NEW n \in Nodes, NEW m
  PROVE  OutputsOf(WithEntry(C, n), m) = OutputsOf(C, m)
<1> DEFINE D == WithEntry(C, n)
<1>1. DOMAIN D = DOMAIN C \cup {n} /\ \A k \in DOMAIN C : D[k] = C[k] BY WithEntryIsDict
<1>2. n \notin DOMAIN C => D[n].outputs = {} BY DEF WithEntry
<1> HIDE DEF D
<1> QED BY <1>1, <1>2 DEF OutputsOf, D

LEMMA WithoutOutputOutputs ==
  ASSUME NEW C, IsDict(C), NEW s, NEW t, NEW m
  PROVE  OutputsOf(WithoutOutput(C, s, t), m) = IF m = s THEN OutputsOf(C, m) \ {t} ELSE OutputsOf(C, m)
<1> DEFINE o == C[s].outputs \ {t}
<1>1. WithoutOutput(C, s, t) = SetOutputs(C, s, o) BY DEF WithoutOutput, SetOutputs
<1>2. s \in DOMAIN C => o = OutputsOf(C, s) \ {t} BY DEF OutputsOf
<1> HIDE DEF o
<1>3. s \notin DOMAIN C => OutputsOf(C, s) = {} BY DEF OutputsOf
<1> QED BY <1>1, <1>2, <1>3, OutputsAreWritten

LEMMA WithOutputOutputs ==
  ASSUME NEW C, IsDict(C), NEW s \in Nodes, NEW t \in Nodes, NEW m
  PROVE  OutputsOf(WithOutput(C, s, t), m) = OutputsOf(C, m) \cup (IF m = s THEN {t} ELSE {})
<1> DEFINE E == WithEntry(C, s)
           o == E[s].outputs \cup {t}
<1>1. IsDict(E) /\ s \in DOMAIN E /\ \A k : OutputsOf(E, k) = OutputsOf(C, k)
  BY WithEntryIsDict, WithEntryOutputs
<1>2. WithOutput(C, s, t) = SetOutputs(E, s, o) BY DEF WithOutput, SetOutputs
<1> HIDE DEF E
<1>3. o = OutputsOf(C, s) \cup {t} BY <1>1 DEF OutputsOf
<1> HIDE DEF o
<1>4. OutputsOf(SetOutputs(E, s, o), m) = IF m = s THEN o ELSE OutputsOf(E, m)
  BY <1>1, OutputsAreWritten
<1> QED BY <1>1, <1>2, <1>3, <1>4

LEMMA WithValueOutputs ==
  ASSUME NEW C, IsDict(C), NEW t, NEW i, NEW v, NEW m
  PROVE  OutputsOf(WithValue(C, t, i, v), m) = OutputsOf(C, m)
<1> DEFINE a == C[t].inputs
           b == IF Manifold(t) THEN [a EXCEPT ![1] = Put(a[1], i, v)]
                ELSE IF v = Empty THEN [a EXCEPT ![i] = <<>>]
                ELSE IF i = 0 THEN [a EXCEPT ![1] = Append(a[1], v)]
                ELSE [a EXCEPT ![i] = Put(a[i], 1, v)]
<1>1. WithValue(C, t, i, v) = SetInputs(C, t, b) BY DEF WithValue, SetInputs
<1> HIDE DEF b
<1> QED BY <1>1, InputsLeaveOutputs

LEMMA ConnectOutputs ==
  ASSUME NEW C, IsDict(C), NEW s \in Givers, NEW t \in Takers, Roomy(C, t), NEW m
  PROVE  /\ OutputsOf(Connect(C, s, t), m) = OutputsOf(C, m) \cup (IF m = s THEN {t} ELSE {})
         /\ DOMAIN Connect(C, s, t) = DOMAIN C \cup {s, t}
<1> DEFINE E == WithEntry(C, t)
           i == OpenField(E, t)
           W == WithValue(E, t, i, s)
<1>0. s \in Nodes /\ t \in Nodes BY DEF Givers, Takers, Nodes, SchemaNodes
<1>1. IsDict(E) /\ DOMAIN E = DOMAIN C \cup {t} BY <1>0, WithEntryIsDict
<1>2. i \in Nat \ {0}
  <2>1. t \in FunctionNodes /\ ~Manifold(t) => \E j \in DOMAIN E[t].inputs : E[t].inputs[j] = <<>>
    BY DEF Roomy
  <2> HIDE DEF E
  <2> QED BY <1>1, <2>1, OpenFieldIsField
<1>3. s \in InputValues BY DEF InputValues
<1>4. IsDict(W) /\ DOMAIN W = DOMAIN E
  <2> HIDE DEF E, i
  <2> QED BY <1>1, <1>2, <1>3, WithValueIsDict
<1>5. OutputsOf(E, m) = OutputsOf(C, m) BY <1>0, WithEntryOutputs
<1>6. OutputsOf(W, m) = OutputsOf(E, m)
  <2> HIDE DEF E, i
  <2> QED BY <1>1, WithValueOutputs
<1>7. Connect(C, s, t) = WithOutput(W, s, t) BY DEF Connect
<1> HIDE DEF W, E
<1>8. OutputsOf(WithOutput(W, s, t), m) = OutputsOf(W, m) \cup (IF m = s THEN {t} ELSE {})
  BY <1>0, <1>4, WithOutputOutputs
<1>9. DOMAIN WithOutput(W, s, t) = DOMAIN W \cup {s} BY <1>0, <1>4, WithOutputIsDict
<1> QED BY <1>1, <1>4, <1>5, <1>6, <1>7, <1>8, <1>9

LEMMA SetValueOutputs ==
  ASSUME NEW C, IsDict(C), NEW t \in Takers, NEW i \in Nat \ {0}, NEW v \in InputValues, NEW m
  PROVE  /\ OutputsOf(C, m) \ {t} \subseteq OutputsOf(SetValue(C, t, i, v), m)
         /\ v \in Nodes => t \in OutputsOf(SetValue(C, t, i, v), v)
         /\ DOMAIN SetValue(C, t, i, v) = DOMAIN C \cup {t} \cup ({v} \cap Nodes)
<1> DEFINE old == Held(C, t, i)
           freed == IF old \in Nodes THEN WithoutOutput(C, old, t) ELSE C
           E == WithEntry(freed, t)
           W == WithValue(E, t, i, v)
<1>0. t \in Nodes BY DEF Takers, Nodes, SchemaNodes
<1>1. IsDict(freed) /\ DOMAIN freed = DOMAIN C /\ OutputsOf(C, m) \ {t} \subseteq OutputsOf(freed, m)
  <2> HIDE DEF old
  <2>1. CASE old \in Nodes
    <3>1. OutputsOf(WithoutOutput(C, old, t), m) = IF m = old THEN OutputsOf(C, m) \ {t} ELSE OutputsOf(C, m)
      BY WithoutOutputOutputs
    <3> QED BY <2>1, <3>1, WithoutOutputIsDict
  <2>2. CASE old \notin Nodes BY <2>2
  <2> QED BY <2>1, <2>2
<1>2. SetValue(C, t, i, v) = IF v \in Nodes THEN WithOutput(W, v, t) ELSE W BY DEF SetValue
<1>3. IsDict(E) /\ DOMAIN E = DOMAIN C \cup {t} /\ OutputsOf(E, m) = OutputsOf(freed, m)
  <2> HIDE DEF freed
  <2> QED BY <1>0, <1>1, WithEntryIsDict, WithEntryOutputs
<1>4. IsDict(W) /\ DOMAIN W = DOMAIN E /\ OutputsOf(W, m) = OutputsOf(E, m)
  <2> HIDE DEF E
  <2> QED BY <1>3, WithValueIsDict, WithValueOutputs
<1> HIDE DEF W, E, freed
<1>5. CASE v \in Nodes
  <2>1. DOMAIN WithOutput(W, v, t) = DOMAIN W \cup {v} BY <1>0, <1>4, <1>5, WithOutputIsDict
  <2>2. \A k : OutputsOf(WithOutput(W, v, t), k) = OutputsOf(W, k) \cup (IF k = v THEN {t} ELSE {})
    BY <1>0, <1>4, <1>5, WithOutputOutputs
  <2>3. SetValue(C, t, i, v) = WithOutput(W, v, t) BY <1>2, <1>5
  <2>4. t \in OutputsOf(WithOutput(W, v, t), v) BY <2>2
  <2>5. OutputsOf(W, m) \subseteq OutputsOf(WithOutput(W, v, t), m) BY <2>2
  <2>6. {v} \cap Nodes = {v} BY <1>5
  <2> QED BY <1>1, <1>3, <1>4, <2>1, <2>3, <2>4, <2>5, <2>6
<1>6. CASE v \notin Nodes BY <1>1, <1>2, <1>3, <1>4, <1>6
<1> QED BY <1>5, <1>6

(* A node with one field names what was set, and nothing else. *)
Single(t) == ~Manifold(t) /\ (t \in FunctionNodes => Arity[t] \in {0, 1})

LEMMA SingleSlot ==
  ASSUME NEW t \in Takers, Single(t)
  PROVE  DOMAIN NewInputs(t) \subseteq {1}
<1>1. t \in Nodes /\ (t \in SchemaNodes \/ t \in FunctionNodes) BY DEF Takers, Nodes, SchemaNodes
<1>2. CASE t \in SchemaNodes
  <2>1. DOMAIN NewInputs(t) = 1..1 BY <1>1, <1>2, Slots
  <2> QED BY <2>1
<1>3. CASE t \in FunctionNodes
  <2>1. Arity[t] \in {0, 1} /\ NewInputs(t) = [i \in 1..Arity[t] |-> <<>>] BY <1>1, <1>3, Slots DEF Single
  <2> QED BY <2>1
<1> QED BY <1>1, <1>2, <1>3

LEMMA SingleNames ==
  ASSUME NEW C, IsDict(C), NEW t \in DOMAIN C \cap Takers, Single(t), NEW v \in InputValues
  PROVE  Named(WithValue(C, t, 1, v), t) \subseteq {v}
<1> DEFINE a == C[t].inputs
           b == IF v = Empty THEN [a EXCEPT ![1] = <<>>] ELSE [a EXCEPT ![1] = Put(a[1], 1, v)]
<1>1. t \in Nodes /\ a \in Filled(t) BY EntryIsTyped DEF IsDict
<1>2. DOMAIN a \subseteq {1} /\ \A i \in DOMAIN a : a[i] \in Seq(InputValues) /\ Len(a[i]) <= 1
  BY <1>1, SingleSlot, FilledIsTyped DEF Single
<1>3. WithValue(C, t, 1, v) = SetInputs(C, t, b) BY DEF WithValue, SetInputs, Single
<1>4. NodesIn(b) \subseteq {v}
  <2>1. DOMAIN b = DOMAIN a OBVIOUS
  <2>2. ASSUME NEW i \in DOMAIN b PROVE \A j \in DOMAIN b[i] : b[i][j] = v
    <3>1. i = 1 /\ 1 \in DOMAIN a BY <1>2, <2>1, <2>2
    <3>2. CASE v = Empty BY <3>1, <3>2
    <3>3. CASE v # Empty
      <4>1. b[1] = Put(a[1], 1, v) BY <3>1, <3>3
      <4>2. a[1] \in Seq(InputValues) /\ Len(a[1]) <= 1 BY <1>2, <3>1
      <4>3. DOMAIN a[1] \subseteq {1} BY <4>2
      <4>4. DOMAIN Put(a[1], 1, v) = DOMAIN a[1] \cup 1..1 BY DEF Put
      <4>5. Put(a[1], 1, v)[1] = v BY DEF Put
      <4>6. \A j \in DOMAIN Put(a[1], 1, v) : j = 1 BY <4>3, <4>4
      <4> QED BY <3>1, <4>1, <4>5, <4>6
    <3> QED BY <3>2, <3>3
  <2> HIDE DEF b
  <2> QED BY <2>2 DEF NodesIn
<1>5. DOMAIN SetInputs(C, t, b) = DOMAIN C BY DEF SetInputs
<1>6. SetInputs(C, t, b)[t].inputs = b
  <2>1. C[t] \in EntryOf(t) BY DEF IsDict
  <2> HIDE DEF b
  <2>2. SetInputs(C, t, b)[t] = [C[t] EXCEPT !.inputs = b] BY DEF SetInputs
  <2> QED BY <2>1, <2>2 DEF EntryOf
<1> HIDE DEF b
<1>7. Named(SetInputs(C, t, b), t) = NodesIn(b) BY <1>5, <1>6, NamedIsIn
<1> QED BY <1>3, <1>4, <1>7

LEMMA SetValueNamesOnly ==
  ASSUME NEW C, IsDict(C), NEW t \in Takers, Single(t), NEW v \in InputValues
  PROVE  Named(SetValue(C, t, 1, v), t) \subseteq {v}
<1> DEFINE old == Held(C, t, 1)
           freed == IF old \in Nodes THEN WithoutOutput(C, old, t) ELSE C
           E == WithEntry(freed, t)
           W == WithValue(E, t, 1, v)
<1>0. t \in Nodes BY DEF Takers, Nodes, SchemaNodes
<1>1. IsDict(freed)
  <2> HIDE DEF old
  <2> QED BY WithoutOutputIsDict
<1>2. SetValue(C, t, 1, v) = IF v \in Nodes THEN WithOutput(W, v, t) ELSE W BY DEF SetValue
<1>3. IsDict(E) /\ t \in DOMAIN E
  <2> HIDE DEF freed
  <2> QED BY <1>0, <1>1, WithEntryIsDict
<1>4. IsDict(W) /\ Named(W, t) \subseteq {v}
  <2> HIDE DEF E
  <2>1. 1 \in Nat \ {0} OBVIOUS
  <2> QED BY <1>3, <2>1, WithValueIsDict, SingleNames
<1>5. v \in Nodes => Named(WithOutput(W, v, t), t) = Named(W, t)
  <2> HIDE DEF W
  <2> QED BY <1>0, <1>4, WithOutputNamesTheSame
<1> HIDE DEF W
<1> QED BY <1>2, <1>4, <1>5

LEMMA DisconnectOutputs ==
  ASSUME NEW C, IsDict(C), NEW s, NEW t, NEW i, NEW m
  PROVE  OutputsOf(Disconnect(C, s, t, i), m) = IF m = s THEN OutputsOf(C, m) \ {t} ELSE OutputsOf(C, m)
<1> DEFINE cut == WithoutOutput(C, s, t)
           a == cut[t].inputs
           q == [j \in DOMAIN a[1] |-> IF a[1][j] = s /\ i \in {0, j} THEN Empty ELSE a[1][j]]
           b == IF t \in FunctionNodes /\ Arity[t] = Unbounded THEN [a EXCEPT ![1] = q]
                ELSE [j \in DOMAIN a |-> AllBut(a[j], s)]
<1>1. IsDict(cut) BY WithoutOutputIsDict
<1>2. Disconnect(C, s, t, i) = SetInputs(cut, t, b)
  <2>1. Disconnect(C, s, t, i) =
          IF t \in FunctionNodes /\ Arity[t] = Unbounded
          THEN [cut EXCEPT ![t].inputs[1] = q]
          ELSE [cut EXCEPT ![t].inputs = [j \in DOMAIN a |-> AllBut(a[j], s)]]
    BY DEF Disconnect
  <2> HIDE DEF cut, q
  <2> QED BY <2>1 DEF SetInputs
<1>3. OutputsOf(cut, m) = IF m = s THEN OutputsOf(C, m) \ {t} ELSE OutputsOf(C, m) BY WithoutOutputOutputs
<1> HIDE DEF cut, b
<1> QED BY <1>1, <1>2, <1>3, InputsLeaveOutputs

(* All fields that hold s are cleared, unless only one is meant. *)
LEMMA DisconnectNamesOthers ==
  ASSUME NEW C, IsDict(C), NEW s \in Nodes, NEW t, NEW i,
         i = 0 \/ ~(t \in FunctionNodes /\ Arity[t] = Unbounded)
  PROVE  s \notin Named(Disconnect(C, s, t, i), t)
<1> DEFINE cut == WithoutOutput(C, s, t)
           a == cut[t].inputs
           q == [j \in DOMAIN a[1] |-> IF a[1][j] = s /\ i \in {0, j} THEN Empty ELSE a[1][j]]
           b == IF t \in FunctionNodes /\ Arity[t] = Unbounded THEN [a EXCEPT ![1] = q]
                ELSE [j \in DOMAIN a |-> AllBut(a[j], s)]
<1>0. Empty \notin Nodes BY NodesAreDistinct
<1>1. IsDict(cut) BY WithoutOutputIsDict
<1>2. Disconnect(C, s, t, i) = SetInputs(cut, t, b)
  <2>1. Disconnect(C, s, t, i) =
          IF t \in FunctionNodes /\ Arity[t] = Unbounded
          THEN [cut EXCEPT ![t].inputs[1] = q]
          ELSE [cut EXCEPT ![t].inputs = [j \in DOMAIN a |-> AllBut(a[j], s)]]
    BY DEF Disconnect
  <2> HIDE DEF cut, q
  <2> QED BY <2>1 DEF SetInputs
<1>3. ASSUME t \in DOMAIN cut PROVE s \notin NodesIn(b)
  <2> HIDE DEF cut
  <2>1. t \in Nodes /\ a \in Filled(t) BY <1>1, <1>3, EntryIsTyped DEF IsDict
  <2> HIDE DEF a
  <2>2. CASE t \in FunctionNodes /\ Arity[t] = Unbounded
    <3>1. DOMAIN a = 1..1 BY <2>1, <2>2, FilledIsTyped DEF Manifold
    <3>2. i = 0 BY <2>2
    <3>3. \A j \in DOMAIN q : q[j] # s BY <1>0, <3>2
    <3>4. [a EXCEPT ![1] = q][1] = q /\ DOMAIN [a EXCEPT ![1] = q] = 1..1 BY <3>1
    <3>5. b = [a EXCEPT ![1] = q] BY <2>2
    <3> HIDE DEF b, q
    <3>6. \A k \in DOMAIN b : b[k] = q BY <3>4, <3>5
    <3> QED BY <3>3, <3>6 DEF NodesIn
  <2>3. CASE ~(t \in FunctionNodes /\ Arity[t] = Unbounded)
    <3>1. s \notin NodesIn([j \in DOMAIN a |-> AllBut(a[j], s)]) BY <2>1, FilteredNamesOthers
    <3> QED BY <2>3, <3>1
  <2> QED BY <2>2, <2>3
<1>4. DOMAIN SetInputs(cut, t, b) = DOMAIN cut BY DEF SetInputs
<1>5. t \in DOMAIN cut => SetInputs(cut, t, b)[t].inputs = b
  <2> HIDE DEF cut, b
  <2>1. t \in DOMAIN cut => cut[t] \in EntryOf(t) BY <1>1 DEF IsDict
  <2>2. t \in DOMAIN cut => SetInputs(cut, t, b)[t] = [cut[t] EXCEPT !.inputs = b] BY DEF SetInputs
  <2> QED BY <2>1, <2>2 DEF EntryOf
<1> HIDE DEF b, cut
<1>6. Named(SetInputs(cut, t, b), t) = IF t \in DOMAIN cut THEN NodesIn(b) ELSE {}
  BY <1>4, <1>5, NamedIsIn
<1> QED BY <1>2, <1>3, <1>6

-----------------------------------------------------------------------------
(* The two ends of a connection. *)
HasEntries(C) == \A n \in Nodes : Named(C, n) \subseteq DOMAIN C
Listed(C) == \A t \in Nodes : \A s \in Named(C, t) : t \in OutputsOf(C, s)

LEMMA ListedHasEntries ==
  ASSUME NEW C, Listed(C)
  PROVE  HasEntries(C)
  BY DEF HasEntries, Listed, OutputsOf

LEMMA LessHasEntries ==
  ASSUME NEW C, NEW D, HasEntries(C), NamesLess(D, C), DOMAIN C \subseteq DOMAIN D
  PROVE  HasEntries(D)
  BY DEF HasEntries, NamesLess

LEMMA MoreHasEntries ==
  ASSUME NEW C, NEW D, NEW s, NEW t, HasEntries(C), NamesMore(D, C, s, t),
         DOMAIN C \subseteq DOMAIN D, s \in Nodes => s \in DOMAIN D
  PROVE  HasEntries(D)
<1> SUFFICES ASSUME NEW n \in Nodes, NEW v \in Named(D, n) PROVE v \in DOMAIN D BY DEF HasEntries
<1>1. v \in Nodes BY NamedAreNodes
<1>2. v \in Named(C, n) \/ v = s BY DEF NamesMore
<1> QED BY <1>1, <1>2 DEF HasEntries

LEMMA LessIsListed ==
  ASSUME NEW C, NEW D, Listed(C), NamesLess(D, C),
         \A t \in Nodes : \A s \in Named(D, t) : t \in OutputsOf(C, s) => t \in OutputsOf(D, s)
  PROVE  Listed(D)
  BY DEF Listed, NamesLess

LEMMA MoreIsListed ==
  ASSUME NEW C, NEW D, NEW s, NEW t, Listed(C), NamesMore(D, C, s, t),
         \A m : OutputsOf(C, m) \subseteq OutputsOf(D, m), s \in Nodes => t \in OutputsOf(D, s)
  PROVE  Listed(D)
<1> SUFFICES ASSUME NEW n \in Nodes, NEW v \in Named(D, n) PROVE n \in OutputsOf(D, v) BY DEF Listed
<1>1. v \in Nodes BY NamedAreNodes
<1>2. v \in Named(C, n) \/ (v = s /\ n = t) BY DEF NamesMore
<1> QED BY <1>1, <1>2 DEF Listed

LEMMA WithEntryLinks ==
  ASSUME NEW C, IsDict(C), NEW n \in Nodes
  PROVE  /\ HasEntries(C) => HasEntries(WithEntry(C, n))
         /\ Listed(C) => Listed(WithEntry(C, n))
<1>1. \A m : Named(WithEntry(C, n), m) = Named(C, m) BY WithEntryNamesTheSame
<1>2. \A m : OutputsOf(WithEntry(C, n), m) = OutputsOf(C, m) BY WithEntryOutputs
<1>3. DOMAIN C \subseteq DOMAIN WithEntry(C, n) BY WithEntryIsDict
<1> QED BY <1>1, <1>2, <1>3 DEF HasEntries, Listed

LEMMA ConnectLinks ==
  ASSUME NEW C, IsDict(C), NEW s \in Givers, NEW t \in Takers, Roomy(C, t)
  PROVE  /\ HasEntries(C) => HasEntries(Connect(C, s, t))
         /\ Listed(C) => Listed(Connect(C, s, t))
<1>1. NamesMore(Connect(C, s, t), C, s, t) BY ConnectNames
<1>2. /\ DOMAIN Connect(C, s, t) = DOMAIN C \cup {s, t}
      /\ \A m : OutputsOf(Connect(C, s, t), m) = OutputsOf(C, m) \cup (IF m = s THEN {t} ELSE {})
  BY ConnectOutputs
<1>3. DOMAIN Connect(C, s, t) = DOMAIN C \cup {s, t} BY <1>2
<1>4. \A m : OutputsOf(C, m) \subseteq OutputsOf(Connect(C, s, t), m) BY <1>2
<1>5. t \in OutputsOf(Connect(C, s, t), s) BY <1>2
<1> QED BY <1>1, <1>3, <1>4, <1>5, MoreHasEntries, MoreIsListed

(* Any other field that a node with one field is asked for does not exist. *)
LEMMA SetValueElsewhere ==
  ASSUME NEW C, IsDict(C), NEW t \in Takers, Single(t), NEW i \in Nat \ {0, 1}, NEW v \in InputValues
  PROVE  /\ NamesLess(SetValue(C, t, i, v), C)
         /\ \A m : OutputsOf(C, m) \subseteq OutputsOf(SetValue(C, t, i, v), m)
<1> DEFINE E == WithEntry(C, t)
           W == WithValue(E, t, i, v)
           a == E[t].inputs
           b == IF v = Empty THEN [a EXCEPT ![i] = <<>>] ELSE [a EXCEPT ![i] = Put(a[i], 1, v)]
<1>0. t \in Nodes BY DEF Takers, Nodes, SchemaNodes
<1>1. IsDict(E) /\ t \in DOMAIN E /\ \A m : Named(E, m) = Named(C, m) /\ OutputsOf(E, m) = OutputsOf(C, m)
  BY <1>0, WithEntryIsDict, WithEntryNamesTheSame, WithEntryOutputs
<1>2. Held(C, t, i) = Empty
  <2>1. SUFFICES ASSUME t \in DOMAIN C PROVE i \notin Fields(C, t) BY DEF Held
  <2>2. C[t].inputs \in Filled(t) BY <2>1, EntryIsTyped DEF IsDict
  <2>3. DOMAIN C[t].inputs \subseteq {1} BY <1>0, <2>2, FilledIsTyped, SingleSlot
  <2> QED BY <2>3 DEF Fields, Single
<1>3. SetValue(C, t, i, v) = IF v \in Nodes THEN WithOutput(W, v, t) ELSE W
  BY <1>2, NodesAreDistinct DEF SetValue
<1>4. W = SetInputs(E, t, b)
  <2> HIDE DEF E
  <2> QED BY DEF WithValue, SetInputs, Single
<1> HIDE DEF E
<1>5. a \in Filled(t) BY <1>1, EntryIsTyped DEF IsDict
<1>6. DOMAIN a \subseteq {1} BY <1>0, <1>5, FilledIsTyped, SingleSlot
<1>7. b \in Filled(t) /\ NodesIn(b) \subseteq NodesIn(a)
  <2>1. a = [j \in DOMAIN a |-> a[j]] BY <1>5 DEF Filled
  <2>2. i \notin DOMAIN a BY <1>6
  <2>3. b = a
    <3> HIDE DEF a
    <3> QED BY <2>1, <2>2
  <2> HIDE DEF b
  <2> QED BY <1>5, <2>3
<1> HIDE DEF b
<1>8. IsDict(W) /\ NamesLess(W, C) /\ \A m : OutputsOf(W, m) = OutputsOf(C, m)
  <2>1. IsDict(W) BY <1>1, <1>4, <1>7, InputsWritten
  <2>2. NodesIn(b) \subseteq Named(E, t) \cup {} BY <1>1, <1>7, NamedIsIn
  <2>3. \A n : Named(W, n) \subseteq Named(E, n) \cup (IF n = t THEN {} ELSE {})
    BY <1>1, <1>4, <1>7, <2>2, SetInputsNames
  <2>4. \A m : OutputsOf(W, m) = OutputsOf(E, m) BY <1>1, <1>4, InputsLeaveOutputs
  <2> QED BY <1>1, <2>1, <2>3, <2>4 DEF NamesLess
<1> HIDE DEF W
<1>9. v \in Nodes => /\ \A n : Named(WithOutput(W, v, t), n) = Named(W, n)
                     /\ \A m : OutputsOf(W, m) \subseteq OutputsOf(WithOutput(W, v, t), m)
  BY <1>0, <1>8, WithOutputNamesTheSame, WithOutputOutputs
<1> QED BY <1>3, <1>8, <1>9 DEF NamesLess

LEMMA SetValueLinks ==
  ASSUME NEW C, IsDict(C), NEW t \in Takers, NEW i \in Nat \ {0}, NEW v \in InputValues
  PROVE  /\ HasEntries(C) => HasEntries(SetValue(C, t, i, v))
         /\ Listed(C) /\ Single(t) => Listed(SetValue(C, t, i, v))
<1> DEFINE D == SetValue(C, t, i, v)
<1>1. NamesMore(D, C, v, t) BY SetValueNames
<1>2. /\ DOMAIN D = DOMAIN C \cup {t} \cup ({v} \cap Nodes)
      /\ \A m : OutputsOf(C, m) \ {t} \subseteq OutputsOf(D, m)
      /\ v \in Nodes => t \in OutputsOf(D, v)
  BY SetValueOutputs
<1>5. Single(t) /\ i = 1 => Named(D, t) \subseteq {v} BY SetValueNamesOnly
<1>6. Single(t) /\ i # 1 => NamesLess(D, C) /\ \A m : OutputsOf(C, m) \subseteq OutputsOf(D, m)
  BY SetValueElsewhere
<1> HIDE DEF D
<1>7. HasEntries(C) => HasEntries(D) BY <1>1, <1>2, MoreHasEntries
<1>8. ASSUME Listed(C), Single(t), i = 1, NEW n \in Nodes, NEW m \in Named(D, n)
      PROVE  n \in OutputsOf(D, m)
  <2>1. m \in Nodes BY NamedAreNodes
  <2>2. CASE n = t BY <1>2, <1>5, <1>8, <2>1, <2>2
  <2>3. CASE n # t
    <3>1. m \in Named(C, n) BY <1>1, <1>8, <2>3 DEF NamesMore
    <3>2. n \in OutputsOf(C, m) BY <1>8, <3>1 DEF Listed
    <3> QED BY <1>2, <2>3, <3>2
  <2> QED BY <2>2, <2>3
<1>9. Listed(C) /\ Single(t) => Listed(D) BY <1>6, <1>8, LessIsListed DEF Listed
<1> QED BY <1>7, <1>9 DEF D

LEMMA DisconnectLinks ==
  ASSUME NEW C, IsDict(C), NEW s \in Nodes, NEW t, NEW i
  PROVE  /\ HasEntries(C) => HasEntries(Disconnect(C, s, t, i))
         /\ Listed(C) /\ (i = 0 \/ ~(t \in FunctionNodes /\ Arity[t] = Unbounded))
              => Listed(Disconnect(C, s, t, i))
<1> DEFINE D == Disconnect(C, s, t, i)
<1>1. NamesLess(D, C) /\ DOMAIN D = DOMAIN C BY DisconnectNames, DisconnectIsDict
<1>2. \A m : OutputsOf(D, m) = IF m = s THEN OutputsOf(C, m) \ {t} ELSE OutputsOf(C, m)
  BY DisconnectOutputs
<1>3. i = 0 \/ ~(t \in FunctionNodes /\ Arity[t] = Unbounded) => s \notin Named(D, t)
  BY DisconnectNamesOthers
<1> HIDE DEF D
<1>4. HasEntries(C) => HasEntries(D) BY <1>1, LessHasEntries
<1>5. ASSUME Listed(C), s \notin Named(D, t) PROVE Listed(D)
  <2>1. \A n \in Nodes : \A m \in Named(D, n) : n \in OutputsOf(C, m) => n \in OutputsOf(D, m)
    BY <1>2, <1>5
  <2> QED BY <1>1, <1>5, <2>1, LessIsListed
<1> QED BY <1>3, <1>4, <1>5 DEF D

LEMMA CutLinks ==
  ASSUME NEW C, IsDict(C), NEW p, NEW T
  PROVE  /\ HasEntries(C) => HasEntries(Cut(C, p, T))
         /\ Listed(C) => Listed(Cut(C, p, T))
<1> DEFINE D == Cut(C, p, T)
<1>1. NamesLess(D, C) /\ DOMAIN D = DOMAIN C BY CutNames, CutIsDict
<1>2. HasEntries(C) => HasEntries(D) BY <1>1, LessHasEntries
<1>3. ASSUME NEW t \in Nodes, NEW s \in Named(D, t), t \in OutputsOf(C, s) PROVE t \in OutputsOf(D, s)
  <2>1. s \in DOMAIN C /\ OutputsOf(C, s) = C[s].outputs /\ OutputsOf(D, s) = D[s].outputs
    BY <1>1, <1>3 DEF OutputsOf
  <2>2. CASE s # p /\ s \notin T
    <3>1. D[s] = C[s] BY <2>1, <2>2 DEF Cut
    <3> QED BY <1>3, <2>1, <3>1
  <2>3. CASE s # p /\ s \in T
    <3>1. D[s] = Disconnect(C, p, s, 0)[s] BY <2>1, <2>3 DEF Cut
    <3>2. DOMAIN Disconnect(C, p, s, 0) = DOMAIN C BY DisconnectIsDict
    <3>3. OutputsOf(Disconnect(C, p, s, 0), s) = OutputsOf(C, s) BY <2>3, DisconnectOutputs
    <3>4. Disconnect(C, p, s, 0)[s].outputs = C[s].outputs BY <2>1, <3>2, <3>3 DEF OutputsOf
    <3> QED BY <1>3, <2>1, <3>1, <3>4
  <2>4. CASE s = p
    <3>1. t \in DOMAIN C BY <1>1, <1>3 DEF Named
    <3>2. t \notin T
      <4>1. SUFFICES ASSUME t \in T PROVE FALSE OBVIOUS
      <4>2. D[t] = Disconnect(C, p, t, 0)[t] BY <3>1, <4>1 DEF Cut
      <4>3. DOMAIN Disconnect(C, p, t, 0) = DOMAIN C BY DisconnectIsDict
      <4> DEFINE B == Disconnect(C, p, t, 0)
      <4>4. p \notin Named(B, t)
        <5>1. p \in Nodes /\ 0 = 0 BY <1>3, <2>4, NamedAreNodes
        <5> QED BY <5>1, DisconnectNamesOthers
      <4>5. Named(B, t) = NodesIn(B[t].inputs) /\ Named(D, t) = NodesIn(D[t].inputs)
        <5> HIDE DEF B, D
        <5> QED BY <1>1, <3>1, <4>3, NamedIsIn DEF B
      <4> HIDE DEF B, D
      <4> QED BY <1>3, <2>4, <4>2, <4>4, <4>5 DEF B
    <3>3. CASE p \in T
      <4>1. D[p] = Disconnect(C, p, p, 0)[p] BY <2>1, <2>4, <3>3 DEF Cut
      <4>2. DOMAIN Disconnect(C, p, p, 0) = DOMAIN C BY DisconnectIsDict
      <4>3. OutputsOf(Disconnect(C, p, p, 0), p) = OutputsOf(C, p) \ {p} BY DisconnectOutputs
      <4>4. Disconnect(C, p, p, 0)[p].outputs = C[p].outputs \ {p} BY <2>1, <2>4, <4>2, <4>3 DEF OutputsOf
      <4>5. t # p BY <3>2, <3>3
      <4> QED BY <1>3, <2>1, <2>4, <4>1, <4>4, <4>5
    <3>4. CASE p \notin T
      <4>1. D[p] = [C[p] EXCEPT !.outputs = @ \ T] BY <2>1, <2>4, <3>4 DEF Cut
      <4>2. C[p] \in EntryOf(p) BY <2>1, <2>4 DEF IsDict
      <4>3. D[p].outputs = C[p].outputs \ T BY <4>1, <4>2 DEF EntryOf
      <4> QED BY <1>3, <2>1, <2>4, <3>2, <4>3
    <3> QED BY <3>3, <3>4
  <2> QED BY <2>2, <2>3, <2>4
<1> HIDE DEF D
<1>4. Listed(C) => Listed(D) BY <1>1, <1>3, LessIsListed
<1> QED BY <1>2, <1>4 DEF D

LEMMA WithoutLinks ==
  ASSUME NEW C, IsDict(C), NEW n, Listed(C)
  PROVE  Listed(Without(C, n))
<1> DEFINE Inputs(m) == IF m \in C[n].outputs
                        THEN [j \in DOMAIN C[m].inputs |-> AllBut(C[m].inputs[j], n)]
                        ELSE C[m].inputs
           Outputs(m) == IF m \in Named(C, n) THEN C[m].outputs \ {n} ELSE C[m].outputs
           W == [m \in DOMAIN C \ {n} |-> [inputs |-> Inputs(m), outputs |-> Outputs(m)]]
<1>1. Without(C, n) = IF n \in DOMAIN C THEN W ELSE C BY DEF Without
<1>2. SUFFICES ASSUME n \in DOMAIN C PROVE Listed(W) BY <1>1
<1>3. DOMAIN W = DOMAIN C \ {n} /\ \A m \in DOMAIN W : W[m].inputs = Inputs(m) /\ W[m].outputs = Outputs(m)
  OBVIOUS
<1>4. NamesLess(W, C) BY <1>1, <1>2, WithoutNames
<1>5. ASSUME NEW t \in Nodes, NEW s \in Named(W, t), t \in OutputsOf(C, s) PROVE t \in OutputsOf(W, s)
  <2> HIDE DEF W
  <2>1. t \in DOMAIN W /\ t # n /\ t \in DOMAIN C BY <1>3, <1>5, NamedIsIn
  <2>2. s # n
    <3>1. SUFFICES ASSUME s = n PROVE FALSE OBVIOUS
    <3>2. t \in C[n].outputs BY <1>2, <1>5, <3>1 DEF OutputsOf
    <3>3. C[t].inputs \in Filled(t) BY <2>1, EntryIsTyped DEF IsDict
    <3>4. n \notin NodesIn([j \in DOMAIN C[t].inputs |-> AllBut(C[t].inputs[j], n)])
      BY <3>3, FilteredNamesOthers
    <3>5. Named(W, t) = NodesIn(W[t].inputs) BY <2>1, NamedIsIn
    <3> QED BY <1>3, <1>5, <2>1, <3>1, <3>2, <3>4, <3>5
  <2>3. s \in DOMAIN C /\ t \in C[s].outputs BY <1>5 DEF OutputsOf
  <2>4. s \in DOMAIN W BY <1>3, <2>2, <2>3
  <2>5. t \in Outputs(s) BY <2>1, <2>3
  <2> QED BY <1>3, <2>4, <2>5 DEF OutputsOf
<1> HIDE DEF W
<1> QED BY <1>4, <1>5, LessIsListed

-----------------------------------------------------------------------------
(* Edits that never leave an input its node does not list: with one field  *)
(* to a node there is no second place where a node may still be named; and *)
(* drags alone put nothing in the place of anything else.                  *)
ListsAreKept ==
  \/ \A t \in Takers : Single(t)
  \/ /\ \A f \in FunctionNodes : Arity[f] # Unbounded
     /\ MapEdits \cap {"handle", "input", "inline"} = {}

Linked(C) == HasEntries(C) /\ (ListsAreKept => Listed(C))

LEMMA ListsAreBounded ==
  ASSUME ListsAreKept, NEW f \in FunctionNodes
  PROVE  ~Manifold(f)
<1>1. f \in Takers BY DEF Takers
<1>2. Arity[f] # Unbounded BY <1>1 DEF ListsAreKept, Single, Manifold
<1>3. f \notin Repeating BY SchemasAreTrees, NodesAreDistinct
<1> QED BY <1>2, <1>3 DEF Manifold

LEMMA LessIsTransitive ==
  ASSUME NEW B, NEW C, NEW D, NamesLess(B, C), NamesLess(C, D)
  PROVE  NamesLess(B, D)
  BY DEF NamesLess

LEMMA ConnectEnters ==
  ASSUME NEW C, IsDict(C), NEW s \in Givers, NEW t \in Takers, Roomy(C, t)
  PROVE  DOMAIN Connect(C, s, t) = DOMAIN C \cup {s, t}
<1>1. /\ DOMAIN Connect(C, s, t) = DOMAIN C \cup {s, t}
      /\ \A m : OutputsOf(Connect(C, s, t), m) = OutputsOf(C, m) \cup (IF m = s THEN {t} ELSE {})
  BY ConnectOutputs
<1> QED BY <1>1

LEMMA SetValueEnters ==
  ASSUME NEW C, IsDict(C), NEW t \in Takers, NEW i \in Nat \ {0}, NEW v \in InputValues
  PROVE  DOMAIN SetValue(C, t, i, v) = DOMAIN C \cup {t} \cup ({v} \cap Nodes)
<1> DEFINE D == SetValue(C, t, i, v)
<1>1. /\ DOMAIN D = DOMAIN C \cup {t} \cup ({v} \cap Nodes)
      /\ \A m : OutputsOf(C, m) \ {t} \subseteq OutputsOf(D, m)
      /\ v \in Nodes => t \in OutputsOf(D, v)
  BY SetValueOutputs
<1> QED BY <1>1

LEMMA DisconnectIsLinked ==
  ASSUME NEW C, IsDict(C), NEW s \in Nodes, NEW t, NEW i, Linked(C)
  PROVE  Linked(Disconnect(C, s, t, i))
<1>1. ListsAreKept => i = 0 \/ ~(t \in FunctionNodes /\ Arity[t] = Unbounded)
  BY ListsAreBounded DEF Manifold
<1> QED BY <1>1, DisconnectLinks DEF Linked

LEMMA DeletedArraysAreLinked ==
  ASSUME NEW C, IsDict(C), Linked(C), NEW s \in SourceNodes, NEW D \in DeletedArrays(C, s)
  PROVE  Linked(D) /\ NamesLess(D, C)
<1> DEFINE E == {B \in Extensions(C) : Linked(B) /\ NamesLess(B, C)}
<1>1. C \in E /\ \A B \in E : Linked(B) /\ NamesLess(B, C) BY ExtensionsAreDicts DEF NamesLess
<1>2. ASSUME NEW B \in E, NEW p, NEW T PROVE Cut(B, p, T) \in E
  <2>1. IsDict(B) /\ Linked(B) /\ NamesLess(B, C) /\ DOMAIN C \subseteq DOMAIN B BY ExtensionsAreDicts
  <2>2. IsDict(Cut(B, p, T)) /\ DOMAIN Cut(B, p, T) = DOMAIN B BY <2>1, CutIsDict
  <2>3. NamesLess(Cut(B, p, T), C) BY <2>1, CutNames, LessIsTransitive
  <2>4. Linked(Cut(B, p, T)) BY <2>1, CutLinks DEF Linked
  <2> QED BY <2>1, <2>2, <2>3, <2>4, ExtensionsAreDicts
<1> HIDE DEF E
<1>3. D \in E BY <1>1, <1>2, DeletedArraysAreWithin
<1> QED BY <1>1, <1>3

LEMMA WithAllArraysIsLinked ==
  ASSUME NEW C, IsDict(C), Linked(C), NEW S \in SUBSET SourceNodes, NEW t \in TargetNodes
  PROVE  /\ Linked(WithAllArrays(C, S, t))
         /\ DOMAIN WithAllArrays(C, S, t) \cap FunctionNodes \subseteq DOMAIN C
<1> DEFINE E == {D \in Extensions(C) : Linked(D) /\ DOMAIN D \cap FunctionNodes \subseteq DOMAIN C}
<1>1. ArraysConnectWithin(E)
  <2> SUFFICES ASSUME NEW B \in E, NEW o \in ArrayEnds PROVE Connect(B, o[1], o[2]) \in E
    BY DEF ArraysConnectWithin
  <2>1. /\ o[1] \in Givers /\ o[2] \in Takers /\ o[1] \in SchemaNodes /\ o[2] \in SchemaNodes
    BY DEF ArrayEnds, Givers, Takers, SchemaNodes
  <2>2. IsDict(B) /\ Linked(B) /\ B \in Extensions(C) /\ DOMAIN B \cap FunctionNodes \subseteq DOMAIN C
    BY ExtensionsAreDicts
  <2>3. Connect(B, o[1], o[2]) \in Extensions(C)
    BY <2>2, ConnectedExtensions DEF ArraysConnectWithin
  <2>4. Linked(Connect(B, o[1], o[2]))
    BY <2>1, <2>2, SchemaNodesAreRoomy, ConnectLinks DEF Linked
  <2>5. Roomy(B, o[2]) BY <2>1, SchemaNodesAreRoomy
  <2>6. DOMAIN Connect(B, o[1], o[2]) = DOMAIN B \cup {o[1], o[2]}
    <3>1. \A a \in Givers, b \in Takers : Roomy(B, b) => DOMAIN Connect(B, a, b) = DOMAIN B \cup {a, b}
      BY <2>2, ConnectEnters
    <3> QED BY <2>1, <2>5, <3>1
  <2>7. DOMAIN Connect(B, o[1], o[2]) \cap FunctionNodes \subseteq DOMAIN C
    BY <2>1, <2>2, <2>6, NodesAreDistinct
  <2> QED BY <2>3, <2>4, <2>7
<1>2. C \in E BY ExtensionsAreDicts
<1>3. \A D \in E : Linked(D) /\ DOMAIN D \cap FunctionNodes \subseteq DOMAIN C OBVIOUS
<1> HIDE DEF E
<1>4. WithAllArrays(C, S, t) \in E BY <1>1, <1>2, WithAllArraysIsWithin
<1> QED BY <1>3, <1>4

LEMMA NoArraysNoMore ==
  ASSUME Repeating = {}, NEW C, NEW S \in SUBSET SourceNodes, NEW t \in TargetNodes
  PROVE  WithAllArrays(C, S, t) = C
<1>1. ArraysConnectWithin({C}) BY DEF ArraysConnectWithin, ArrayEnds
<1>2. C \in {C} OBVIOUS
<1>3. WithAllArrays(C, S, t) \in {C} BY <1>1, <1>2, WithAllArraysIsWithin
<1> QED BY <1>3

LEMMA MadeIsLinked ==
  ASSUME SoundMap(cur), NEW s \in Givers, NEW t \in Takers, NEW i \in Nat, Linked(cur.conns),
         t \in FunctionNodes /\ i = 0 => Roomy(cur.conns, t), ListsAreKept => i = 0 \/ Single(t)
  PROVE  /\ Linked(Made(s, t, i))
         /\ DOMAIN Made(s, t, i) = DOMAIN cur.conns \cup {s, t}
         /\ NamesMore(Made(s, t, i), cur.conns, s, t)
<1>1. IsDict(cur.conns) BY DEF SoundMap
<1>2. CASE i = 0
  <2>1. t \in FunctionNodes \/ t \in SchemaNodes BY DEF Takers, SchemaNodes
  <2>2. Roomy(cur.conns, t) BY <1>2, <2>1, SchemaNodesAreRoomy
  <2>3. Made(s, t, i) = Connect(cur.conns, s, t) BY <1>2 DEF Made
  <2>4. NamesMore(Connect(cur.conns, s, t), cur.conns, s, t) BY <1>1, <2>2, ConnectNames
  <2>5. DOMAIN Connect(cur.conns, s, t) = DOMAIN cur.conns \cup {s, t} BY <1>1, <2>2, ConnectEnters
  <2>6. Linked(Connect(cur.conns, s, t)) BY <1>1, <2>2, ConnectLinks DEF Linked
  <2> QED BY <2>3, <2>4, <2>5, <2>6
<1>3. CASE i # 0
  <2>1. Made(s, t, i) = SetValue(cur.conns, t, i, s) BY <1>3 DEF Made
  <2>2. s \in InputValues /\ i \in Nat \ {0} BY <1>3 DEF InputValues
  <2>3. s \in Nodes BY DEF Givers, Nodes, SchemaNodes
  <2>4. NamesMore(SetValue(cur.conns, t, i, s), cur.conns, s, t) BY <1>1, <2>2, SetValueNames
  <2>5. DOMAIN SetValue(cur.conns, t, i, s) = DOMAIN cur.conns \cup {t} \cup ({s} \cap Nodes)
    BY <1>1, <2>2, SetValueEnters
  <2>6. Linked(SetValue(cur.conns, t, i, s)) BY <1>1, <1>3, <2>2, SetValueLinks DEF Linked
  <2> QED BY <2>1, <2>3, <2>4, <2>5, <2>6
<1> QED BY <1>2, <1>3

-----------------------------------------------------------------------------
(* Functions and their cards.                                              *)

(* The source nodes an input names stay on the canvas. *)
SourcesAreKept == ListsAreKept /\ Repeating = {} /\ "inline" \notin MapEdits

FilledTargets(C) == {t \in TargetNodes : t \in DOMAIN C /\ Values(C, t) # {}}
Served(C) == Upstream(C, FilledTargets(C))

(* On a level every function of the dictionary has a card; in the overview *)
(* none has, but each serves a target, so that its card comes back.        *)
Joined(C, S, F, l) ==
  /\ Linked(C)
  /\ l = NoNode => F = {} /\ FunctionNodes \cap DOMAIN C \subseteq Served(C)
  /\ l # NoNode => /\ Children(l) # {} /\ FunctionNodes \cap DOMAIN C \subseteq F
                   /\ SourcesAreKept => \A n \in Nodes : Named(C, n) \cap SourceNodes \subseteq S

(* A step on the current level that leaves the functions F their cards. *)
JoinedTo(F) ==
  \E C, S, keys : cur' = MapOf(C, S, F, cur.level, keys) /\ Joined(C, S, F, cur.level)

OnShownLevel ==
  SoundMap(cur) /\ cur.level # NoNode /\ Joined(cur.conns, cur.canvas, cur.functions, cur.level)

LEMMA ShownParts ==
  ASSUME OnShownLevel
  PROVE  /\ cur = MapOf(cur.conns, cur.canvas, cur.functions, cur.level, cur.inline)
         /\ IsDict(cur.conns) /\ Linked(cur.conns) /\ cur.functions \subseteq FunctionNodes
         /\ cur.canvas \subseteq SourceNodes
         /\ FunctionNodes \cap DOMAIN cur.conns \subseteq cur.functions
         /\ SourcesAreKept => \A n \in Nodes : Named(cur.conns, n) \cap SourceNodes \subseteq cur.canvas
         /\ cur.level \in TargetNodes /\ Children(cur.level) # {}
  BY SoundParts DEF OnShownLevel, Joined

LEMMA EditJoins ==
  ASSUME OnShownLevel, NEW C, NEW S, NEW F, NEW keys, cur' = MapOf(C, S, F, cur.level, keys),
         Linked(C), FunctionNodes \cap DOMAIN C \subseteq F,
         SourcesAreKept => \A n \in Nodes : Named(C, n) \cap SourceNodes \subseteq S
  PROVE  JoinedTo(F)
  BY ShownParts DEF Joined, JoinedTo, OnShownLevel

(* Nothing but the source nodes shown, or the edge being worked on. *)
LEMMA CanvasJoins ==
  ASSUME OnShownLevel, NEW S, NEW keys,
         SourcesAreKept => \A n \in Nodes : Named(cur.conns, n) \cap SourceNodes \subseteq S,
         cur' = [cur EXCEPT !.canvas = S] \/ cur' = [cur EXCEPT !.inline = keys]
  PROVE  JoinedTo(cur.functions)
<1>1. cur = MapOf(cur.conns, cur.canvas, cur.functions, cur.level, cur.inline) BY ShownParts
<1>2. /\ Recanvassed(cur, S) = MapOf(cur.conns, S, cur.functions, cur.level, cur.inline)
      /\ Repicked(cur, keys) = MapOf(cur.conns, cur.canvas, cur.functions, cur.level, keys)
  BY <1>1, MapRewritten
<1>3. cur' = Recanvassed(cur, S) \/ cur' = Repicked(cur, keys) BY DEF Recanvassed, Repicked
<1>4. CASE cur' = Recanvassed(cur, S) BY <1>2, <1>4, ShownParts, EditJoins
<1>5. CASE cur' = Repicked(cur, keys) BY <1>2, <1>5, ShownParts, EditJoins
<1> QED BY <1>3, <1>4, <1>5

(* Nothing but the dictionary, and more source nodes. *)
LEMMA RewiredJoins ==
  ASSUME OnShownLevel, NEW C, NEW S, Linked(C), FunctionNodes \cap DOMAIN C \subseteq cur.functions,
         SourcesAreKept => \A n \in Nodes : Named(C, n) \cap SourceNodes \subseteq S,
         \/ cur' = [cur EXCEPT !.conns = C] /\ S = cur.canvas
         \/ cur' = [cur EXCEPT !.conns = C, !.canvas = S]
  PROVE  JoinedTo(cur.functions)
<1>1. cur = MapOf(cur.conns, cur.canvas, cur.functions, cur.level, cur.inline) BY ShownParts
<1>2. /\ Rewired(cur, C) = MapOf(C, cur.canvas, cur.functions, cur.level, cur.inline)
      /\ Redrawn(cur, C, S) = MapOf(C, S, cur.functions, cur.level, cur.inline)
  BY <1>1, MapRewritten
<1>3. (cur' = Rewired(cur, C) /\ S = cur.canvas) \/ cur' = Redrawn(cur, C, S) BY DEF Rewired, Redrawn
<1>4. cur' = MapOf(C, S, cur.functions, cur.level, cur.inline) BY <1>2, <1>3
<1> QED BY <1>4, EditJoins

(* A dictionary in which nothing names more. *)
LEMMA LessJoins ==
  ASSUME OnShownLevel, NEW C, Linked(C), NamesLess(C, cur.conns), DOMAIN C \subseteq DOMAIN cur.conns,
         cur' = [cur EXCEPT !.conns = C]
  PROVE  JoinedTo(cur.functions)
<1> DEFINE S == cur.canvas
<1>1. /\ FunctionNodes \cap DOMAIN cur.conns \subseteq cur.functions
      /\ SourcesAreKept => \A n \in Nodes : Named(cur.conns, n) \cap SourceNodes \subseteq cur.canvas
  BY ShownParts
<1>2. SourcesAreKept => \A n \in Nodes : Named(C, n) \cap SourceNodes \subseteq S BY <1>1 DEF NamesLess
<1>3. FunctionNodes \cap DOMAIN C \subseteq cur.functions BY <1>1
<1> QED BY <1>2, <1>3, RewiredJoins

LEMMA AddSourceJoins ==
  ASSUME OnShownLevel, NEW x, AddSource(x)
  PROVE  JoinedTo(cur.functions)
<1> DEFINE S == WithAncestors(cur.canvas, x)
<1>1. cur' = [cur EXCEPT !.canvas = S] BY DEF AddSource, Commit
<1>2. cur.canvas \subseteq S BY DEF WithAncestors
<1>3. SourcesAreKept => \A n \in Nodes : Named(cur.conns, n) \cap SourceNodes \subseteq S
  BY <1>2, ShownParts
<1> HIDE DEF S
<1> QED BY <1>1, <1>3, CanvasJoins

(* On the one level, a node that names anything is on the canvas. *)
OneLevel == \A l \in TargetNodes : Children(l) # {} => TargetNodes \subseteq {l} \cup Children(l)

LEMMA NamersAreShown ==
  ASSUME OnShownLevel, OneLevel, NEW n, NEW v \in Named(cur.conns, n)
  PROVE  n \in cur.functions \cup OnLevel
<1>1. n \in Takers /\ n \in DOMAIN cur.conns BY ShownParts, NamedAreGivers DEF Named
<1>2. CASE n \in FunctionNodes BY <1>1, <1>2, ShownParts
<1>3. CASE n \in TargetNodes
  <2>1. cur.level \in TargetNodes /\ Children(cur.level) # {} BY ShownParts
  <2>2. n \in {cur.level} \cup Children(cur.level) BY <1>3, <2>1 DEF OneLevel
  <2>3. cur.level # NoNode BY DEF OnShownLevel
  <2> QED BY <2>2, <2>3 DEF OnLevel
<1> QED BY <1>1, <1>2, <1>3 DEF Takers

(* removeSourceSchemaNodes sees every node that names x among its outputs. *)
LEMMA RemoveSourceJoins ==
  ASSUME OnShownLevel, OneLevel, NEW x, RemoveSource(x)
  PROVE  JoinedTo(cur.functions)
<1> DEFINE S == cur.canvas \ {x}
<1>1. cur' = [cur EXCEPT !.canvas = S] BY DEF RemoveSource, Commit
<1>2. OutputsOf(cur.conns, x) \cap (cur.functions \cup OnLevel) = {} BY DEF RemoveSource
<1>3. ASSUME SourcesAreKept, NEW n \in Nodes, x \in Named(cur.conns, n) PROVE FALSE
  <2>1. Listed(cur.conns) BY <1>3, ShownParts DEF SourcesAreKept, Linked
  <2>2. n \in OutputsOf(cur.conns, x) BY <1>3, <2>1 DEF Listed
  <2> QED BY <1>2, <1>3, <2>2, NamersAreShown
<1>4. SourcesAreKept => \A n \in Nodes : Named(cur.conns, n) \cap SourceNodes \subseteq S
  BY <1>3, ShownParts
<1> HIDE DEF S
<1> QED BY <1>1, <1>4, CanvasJoins

LEMMA AddFunctionJoins ==
  ASSUME OnShownLevel, NEW f \in FunctionNodes, AddFunction(f)
  PROVE  JoinedTo(cur.functions \cup {f})
<1> DEFINE C == WithEntry(cur.conns, f)
           F == cur.functions \cup {f}
<1>1. cur' = [cur EXCEPT !.functions = F, !.conns = C] BY DEF AddFunction, Commit
<1>2. f \in Nodes BY DEF Nodes
<1>3. /\ DOMAIN C = DOMAIN cur.conns \cup {f} /\ \A n : Named(C, n) = Named(cur.conns, n)
  BY <1>2, ShownParts, WithEntryIsDict, WithEntryNamesTheSame
<1>4. Linked(C) BY <1>2, ShownParts, WithEntryLinks DEF Linked
<1>5. cur = MapOf(cur.conns, cur.canvas, cur.functions, cur.level, cur.inline) BY ShownParts
<1>6. FunctionNodes \cap DOMAIN C \subseteq F BY <1>3, ShownParts
<1>7. SourcesAreKept => \A n \in Nodes : Named(C, n) \cap SourceNodes \subseteq cur.canvas
  BY <1>3, ShownParts
<1> HIDE DEF C, F
<1>8. Recarded(cur, C, F) = MapOf(C, cur.canvas, F, cur.level, cur.inline) BY <1>5, MapRewritten
<1>9. cur' = MapOf(C, cur.canvas, F, cur.level, cur.inline) BY <1>1, <1>8 DEF Recarded
<1>10. JoinedTo(F) BY <1>4, <1>6, <1>7, <1>9, EditJoins
<1> QED BY <1>10 DEF F

(* What still names a deleted function would have been among its outputs. *)
LEMMA DeleteFunctionJoins ==
  ASSUME OnShownLevel, ListsAreKept, NEW f, DeleteFunction(f)
  PROVE  JoinedTo(cur.functions \ {f})
<1> DEFINE C == Without(cur.conns, f)
           F == cur.functions \ {f}
<1>1. cur' = [cur EXCEPT !.functions = F, !.conns = C] BY DEF DeleteFunction, Commit
<1>2. /\ DOMAIN C = DOMAIN cur.conns \ {f} /\ NamesLess(C, cur.conns)
  BY ShownParts, WithoutIsDict, WithoutNames
<1>3. Linked(C)
  <2>1. Listed(cur.conns) BY ShownParts DEF Linked
  <2>2. Listed(C) BY <2>1, ShownParts, WithoutLinks
  <2> HIDE DEF C
  <2> QED BY <2>2, ListedHasEntries DEF Linked
<1>4. cur = MapOf(cur.conns, cur.canvas, cur.functions, cur.level, cur.inline) BY ShownParts
<1>5. FunctionNodes \cap DOMAIN C \subseteq F BY <1>2, ShownParts
<1>6. SourcesAreKept => \A n \in Nodes : Named(C, n) \cap SourceNodes \subseteq cur.canvas
  BY <1>2, ShownParts DEF NamesLess
<1> HIDE DEF C, F
<1>7. Recarded(cur, C, F) = MapOf(C, cur.canvas, F, cur.level, cur.inline) BY <1>4, MapRewritten
<1>8. cur' = MapOf(C, cur.canvas, F, cur.level, cur.inline) BY <1>1, <1>7 DEF Recarded
<1>9. JoinedTo(F) BY <1>3, <1>5, <1>6, <1>8, EditJoins
<1> QED BY <1>9 DEF F

LEMMA MakeConnectionJoins ==
  ASSUME OnShownLevel, NEW s \in Givers, NEW t \in Takers, NEW i \in Nat,
         t \in FunctionNodes /\ i = 0 => Roomy(cur.conns, t), ListsAreKept => i = 0 \/ Single(t),
         {s, t} \cap FunctionNodes \subseteq cur.functions,
         SourcesAreKept /\ s \in SourceNodes => s \in cur.canvas, MakeConnection(s, t, i)
  PROVE  JoinedTo(cur.functions)
<1> DEFINE conns == Made(s, t, i)
           sources == IF s \in FunctionNodes THEN Upstream(conns, {s}) \cap SourceNodes ELSE {s}
           targets == IF t \in FunctionNodes THEN Downstream(conns, {t}) \cap TargetNodes ELSE {t}
<1>1. SoundMap(cur) BY DEF OnShownLevel
<1>2. IsDict(conns) /\ Linked(conns) /\ DOMAIN conns = DOMAIN cur.conns \cup {s, t}
      /\ NamesMore(conns, cur.conns, s, t)
  BY <1>1, ShownParts, MadeIsDict, MadeIsLinked
<1>3. sources \in SUBSET SourceNodes /\ targets \in SUBSET TargetNodes
  <2> HIDE DEF conns
  <2> QED BY DEF Givers, Takers
<1>4. PICK C, S : /\ cur' = [cur EXCEPT !.conns = C, !.canvas = S] /\ cur.canvas \subseteq S
                  /\ C = conns \/ \E u \in targets : C = WithAllArrays(conns, sources, u)
  <2>1. CASE sources = {} \/ targets = {}
    <3>1. cur' = [cur EXCEPT !.conns = conns, !.canvas = cur.canvas]
      BY <2>1 DEF MakeConnection, Commit
    <3> HIDE DEF conns, sources, targets
    <3> QED BY <3>1
  <2>2. CASE ~(sources = {} \/ targets = {})
    <3>1. PICK u \in targets :
            LET C == WithAllArrays(conns, sources, u)
                S == cur.canvas \cup (Named(C, cur.level) \cap SourceNodes)
            IN  Commit([cur EXCEPT !.conns = C, !.canvas = S], [SharingEntries(C) EXCEPT !.canvas = S])
      BY <2>2 DEF MakeConnection
    <3> DEFINE C == WithAllArrays(conns, sources, u)
               S == cur.canvas \cup (Named(C, cur.level) \cap SourceNodes)
    <3>2. cur' = [cur EXCEPT !.conns = C, !.canvas = S] BY <3>1 DEF Commit
    <3>3. C = WithAllArrays(conns, sources, u) /\ cur.canvas \subseteq S OBVIOUS
    <3> HIDE DEF conns, sources, targets, C, S
    <3> QED BY <3>2, <3>3
  <2> QED BY <2>1, <2>2
<1> HIDE DEF conns, sources, targets
<1>5. /\ Linked(C) /\ FunctionNodes \cap DOMAIN C \subseteq DOMAIN conns
      /\ SourcesAreKept => C = conns
  <2>1. CASE C = conns BY <1>2, <2>1
  <2>2. CASE \E u \in targets : C = WithAllArrays(conns, sources, u)
    <3>1. PICK u \in targets : C = WithAllArrays(conns, sources, u) BY <2>2
    <3>2. u \in TargetNodes BY <1>3
    <3>3. SourcesAreKept => Repeating = {} BY DEF SourcesAreKept
    <3> QED BY <1>2, <1>3, <3>1, <3>2, <3>3, WithAllArraysIsLinked, NoArraysNoMore
  <2> QED BY <1>4, <2>1, <2>2
<1>6. FunctionNodes \cap DOMAIN C \subseteq cur.functions BY <1>2, <1>5, ShownParts
<1>7. ASSUME SourcesAreKept, NEW n \in Nodes, NEW v \in Named(C, n) \cap SourceNodes PROVE v \in S
  <2>1. v \in Named(cur.conns, n) \/ v = s BY <1>2, <1>5, <1>7 DEF NamesMore
  <2> QED BY <1>4, <1>7, <2>1, ShownParts
<1> QED BY <1>4, <1>5, <1>6, <1>7, RewiredJoins

LEMMA DragJoins ==
  ASSUME OnShownLevel, NEW s, NEW t, NEW i \in Nat, i = 0 \/ "handle" \in MapEdits, Drag(s, t, i)
  PROVE  JoinedTo(cur.functions)
<1>1. SoundMap(cur) /\ IsDict(cur.conns) BY DEF OnShownLevel, SoundMap
<1>2. s \in Givers /\ t \in Takers BY <1>1, CardsAreEnds DEF Drag
<1>3. MakeConnection(s, t, i) /\ ~MakeThrows(s, t, i) BY DEF Drag, MakeConnection
<1>4. ASSUME t \in FunctionNodes, i = 0 PROVE Roomy(cur.conns, t)
  <2>1. Arity[t] # 0 BY <1>3, <1>4 DEF MakeThrows
  <2>2. SlotAvailable(cur.conns, t) BY <1>4 DEF Drag
  <2> QED BY <1>1, <1>4, <2>1, <2>2, SlotAvailableIsRoom
<1>5. s \in cur.canvas \cup cur.functions /\ t \in cur.functions \cup OnLevel BY DEF Drag
<1>6. OnLevel \cap FunctionNodes = {} BY <1>1, LevelIsTarget, NodesAreDistinct DEF SchemaNodes
<1>7. cur.canvas \subseteq SourceNodes /\ cur.functions \subseteq FunctionNodes BY ShownParts
<1>8. SourceNodes \cap FunctionNodes = {} BY NodesAreDistinct DEF SchemaNodes
<1>9. {s, t} \cap FunctionNodes \subseteq cur.functions BY <1>5, <1>6, <1>7, <1>8
<1>10. s \in SourceNodes => s \in cur.canvas BY <1>5, <1>7, <1>8
<1>11. ListsAreKept => i = 0 \/ Single(t) BY <1>2 DEF ListsAreKept
<1> QED BY <1>2, <1>3, <1>4, <1>9, <1>10, <1>11, MakeConnectionJoins

LEMMA SetConnectionInputJoins ==
  ASSUME OnShownLevel, NEW t, NEW i \in Nat \ {0}, NEW v, "input" \in MapEdits,
         SetConnectionInput(t, i, v)
  PROVE  JoinedTo(cur.functions)
<1> DEFINE C == SetValue(cur.conns, t, i, v)
           S == cur.canvas
<1>1. SoundMap(cur) /\ IsDict(cur.conns) BY DEF OnShownLevel, SoundMap
<1>2. /\ t \in cur.functions \cup OnLevel
      /\ v \in cur.canvas \cup cur.functions \cup {Custom, Empty}
      /\ cur' = [cur EXCEPT !.conns = C]
  BY DEF SetConnectionInput, Commit
<1>3. t \in Takers /\ v \in InputValues BY <1>1, <1>2, CardsAreEnds DEF InputValues
<1>4. NamesMore(C, cur.conns, v, t) BY <1>1, <1>3, SetValueNames
<1>5. DOMAIN C = DOMAIN cur.conns \cup {t} \cup ({v} \cap Nodes) BY <1>1, <1>3, SetValueEnters
<1>6. Linked(C)
  <2>1. ListsAreKept => Single(t) BY <1>3 DEF ListsAreKept
  <2> QED BY <1>1, <1>3, <2>1, ShownParts, SetValueLinks DEF Linked
<1> HIDE DEF C
<1>7. OnLevel \cap FunctionNodes = {} BY <1>1, LevelIsTarget, NodesAreDistinct DEF SchemaNodes
<1>8. cur.canvas \subseteq SourceNodes /\ cur.functions \subseteq FunctionNodes BY ShownParts
<1>9. SourceNodes \cap FunctionNodes = {} /\ {Custom, Empty} \cap Nodes = {}
  BY NodesAreDistinct DEF SchemaNodes
<1>10. FunctionNodes \subseteq Nodes /\ SourceNodes \subseteq Nodes BY DEF Nodes, SchemaNodes
<1>11. FunctionNodes \cap DOMAIN C \subseteq cur.functions
  BY <1>2, <1>5, <1>7, <1>8, <1>9, <1>10, ShownParts
<1>12. ASSUME SourcesAreKept, NEW n \in Nodes, NEW u \in Named(C, n) \cap SourceNodes PROVE u \in S
  <2>1. u \in Named(cur.conns, n) \/ u = v BY <1>4, <1>12 DEF NamesMore
  <2>2. u = v => u \in cur.canvas BY <1>2, <1>8, <1>9, <1>10, <1>12
  <2> QED BY <1>12, <2>1, <2>2, ShownParts
<1> QED BY <1>2, <1>6, <1>11, <1>12, RewiredJoins

LEMMA ChangeFieldsJoins ==
  ASSUME OnShownLevel, NEW f, ChangeFields(f)
  PROVE  JoinedTo(cur.functions)
<1> DEFINE n == Cardinality(Fields(cur.conns, f)) + 1
<1>1. SoundMap(cur) /\ IsDict(cur.conns) BY DEF OnShownLevel, SoundMap
<1>2. f \in DOMAIN cur.conns /\ f \in cur.functions /\ f \in Takers /\ Manifold(f)
  BY <1>1, CardsAreEnds DEF ChangeFields
<1>3. n \in Nat \ {0} BY <1>1, FieldsAreCounted
<1>4. PICK C \in {SetValue(cur.conns, f, n, Empty)}
                   \cup {RemoveField(cur.conns, f, i) : i \in Fields(cur.conns, f)} :
        cur' = [cur EXCEPT !.conns = C]
  BY DEF ChangeFields, Commit
<1> HIDE DEF n
<1>5. Empty \in InputValues /\ Empty \notin Nodes BY NodesAreDistinct DEF InputValues
<1>6. ~ListsAreKept
  <2>1. f \in FunctionNodes BY <1>2, ShownParts
  <2> QED BY <1>2, <2>1, ListsAreBounded
<1>7. HasEntries(cur.conns) BY ShownParts DEF Linked
<1>8. HasEntries(C) /\ NamesLess(C, cur.conns) /\ DOMAIN C = DOMAIN cur.conns
  <2>1. CASE C = SetValue(cur.conns, f, n, Empty)
    <3>1. DOMAIN C = DOMAIN cur.conns \cup {f} \cup ({Empty} \cap Nodes)
      BY <1>1, <1>2, <1>3, <1>5, <2>1, SetValueEnters
    <3>2. HasEntries(C) BY <1>1, <1>2, <1>3, <1>5, <1>7, <2>1, SetValueLinks
    <3>3. NamesMore(C, cur.conns, Empty, f) BY <1>1, <1>2, <1>3, <1>5, <2>1, SetValueNames
    <3>4. \A m : Named(C, m) \subseteq Nodes BY NamedAreNodes
    <3>5. NamesLess(C, cur.conns) BY <1>5, <3>3, <3>4 DEF NamesLess, NamesMore
    <3> QED BY <1>2, <1>5, <3>1, <3>2, <3>5
  <2>2. CASE \E i \in Fields(cur.conns, f) : C = RemoveField(cur.conns, f, i)
    <3>1. DOMAIN C = DOMAIN cur.conns BY <1>1, <1>2, <2>2, RemoveFieldIsDict
    <3>2. NamesLess(C, cur.conns) BY <1>1, <1>2, <2>2, RemoveFieldNames
    <3> QED BY <1>7, <3>1, <3>2, LessHasEntries
  <2> QED BY <1>4, <2>1, <2>2
<1>9. Linked(C) BY <1>6, <1>8 DEF Linked
<1> QED BY <1>4, <1>8, <1>9, LessJoins

LEMMA DeleteEdgeJoins ==
  ASSUME OnShownLevel, NEW e, DeleteEdge(e)
  PROVE  JoinedTo(cur.functions)
<1> DEFINE cut == Disconnect(cur.conns, e.from, e.to, e.port)
           sources == IF e.from \in SourceNodes THEN {e.from} ELSE Upstream(cut, {e.from}) \cap SourceNodes
<1>1. SoundMap(cur) /\ IsDict(cur.conns) /\ e \in Edges BY DEF OnShownLevel, SoundMap, DeleteEdge
<1>2. IsDict(cut) /\ DOMAIN cut = DOMAIN cur.conns /\ NamesLess(cut, cur.conns)
  BY <1>1, DisconnectIsDict, DisconnectNames
<1>3. Linked(cut)
  <2>1. e.from \in Nodes BY <1>1, EdgeEnds DEF Givers, Nodes, SchemaNodes
  <2> QED BY <1>1, <2>1, ShownParts, DisconnectIsLinked
<1>4. PICK C \in IF sources = {} THEN {cut} ELSE UNION {DeletedArrays(cut, s) : s \in sources} :
        cur' = [cur EXCEPT !.conns = C]
  BY DEF DeleteEdge, Commit
<1>5. sources \subseteq SourceNodes OBVIOUS
<1> HIDE DEF cut, sources
<1>6. Linked(C) /\ NamesLess(C, cur.conns) /\ DOMAIN C = DOMAIN cur.conns
  <2>1. CASE C = cut BY <1>2, <1>3, <2>1
  <2>2. CASE \E s \in sources : C \in DeletedArrays(cut, s)
    BY <1>2, <1>3, <1>5, <2>2, DeletedArraysAreDicts, DeletedArraysAreLinked, LessIsTransitive
  <2> QED BY <1>4, <2>1, <2>2
<1> QED BY <1>4, <1>6, LessJoins

LEMMA SetInlineJoins ==
  ASSUME OnShownLevel, NEW keys, SetInline(keys)
  PROVE  JoinedTo(cur.functions)
<1> DEFINE S == cur.canvas
<1>1. cur' = [cur EXCEPT !.inline = keys] BY DEF SetInline, Commit
<1>2. SourcesAreKept => \A n \in Nodes : Named(cur.conns, n) \cap SourceNodes \subseteq S BY ShownParts
<1> QED BY <1>1, <1>2, CanvasJoins

-----------------------------------------------------------------------------
(* Changing the level.                                                     *)

LEMMA ServedIsReach ==
  ASSUME NEW C
  PROVE  IsReach(Served(C), Names(C), FilledTargets(C))
<1>1. FilledTargets(C) \in SUBSET Nodes BY DEF FilledTargets, Nodes, SchemaNodes
<1> QED BY <1>1, UpstreamIsReach DEF Served

LEMMA RootsAreFilled ==
  ASSUME OneLevel, NEW C, NEW l \in TargetNodes, Children(l) # {}
  PROVE  LevelRoots(C, l) = FilledTargets(C)
<1>1. l # NoNode /\ l \in TargetNodes BY NodesAreDistinct DEF Nodes, SchemaNodes
<1>2. Children(l) \subseteq TargetNodes
  <2> SUFFICES ASSUME NEW n \in Children(l) PROVE n \in TargetNodes OBVIOUS
  <2>1. n \in SchemaNodes /\ ParentOf[n] = l BY DEF Children
  <2>2. n \in SourceNodes => ParentOf[n] \in SourceNodes \cup {NoNode} BY SchemasAreTrees
  <2> QED BY <1>1, <2>1, <2>2, NodesAreDistinct DEF SchemaNodes
<1>3. Children(l) \cup ({l} \ {NoNode}) = TargetNodes BY <1>1, <1>2 DEF OneLevel
<1> QED BY <1>3 DEF LevelRoots, FilledTargets

LEMMA OverviewHasNoRoots ==
  ASSUME NEW C
  PROVE  Upstream(C, LevelRoots(C, NoNode)) = {}
<1>1. LevelRoots(C, NoNode) = {} BY DEF LevelRoots, Children
<1>2. IsReach(Upstream(C, {}), Names(C), {}) BY UpstreamIsReach
<1>3. Upstream(C, {}) \subseteq {} BY <1>2 DEF IsReach
<1> QED BY <1>1, <1>3

(* Where every function serves a target, so does whatever names anything. *)
LEMMA NamersServe ==
  ASSUME NEW C, IsDict(C), NEW n, NEW v \in Named(C, n),
         n \in FunctionNodes => n \in Served(C)
  PROVE  n \in Served(C) /\ v \in Served(C)
<1>1. n \in Takers /\ n \in DOMAIN C /\ n \in Nodes BY NamedAreGivers DEF Named, IsDict
<1>2. IsReach(Served(C), Names(C), FilledTargets(C)) BY ServedIsReach
<1>3. n \in Served(C)
  <2>1. CASE n \in TargetNodes
    <3>1. Values(C, n) # {} BY <1>1 DEF Values, Named
    <3>2. n \in FilledTargets(C) BY <1>1, <2>1, <3>1 DEF FilledTargets
    <3> QED BY <1>2, <3>2 DEF IsReach
  <2> QED BY <1>1, <2>1 DEF Takers
<1>4. Names(C)[n] \subseteq Served(C) BY <1>2, <1>3 DEF IsReach
<1> QED BY <1>1, <1>3, <1>4 DEF Names

(* Of the functions F, those that serve no target are dropped; the others  *)
(* serve one still, and nothing names what was dropped.                    *)
LEMMA DroppedAreNotNamed ==
  ASSUME NEW C, IsDict(C), Linked(C), NEW F, F \subseteq FunctionNodes,
         FunctionNodes \cap DOMAIN C \subseteq F,
         NEW D, D = [n \in DOMAIN C \ (F \ Served(C)) |-> C[n]]
  PROVE  /\ IsDict(D) /\ Linked(D)
         /\ FunctionNodes \cap DOMAIN D \subseteq Served(D)
<1> DEFINE U == Served(C)
           W == Served(D)
<1>1. /\ DOMAIN D = DOMAIN C \ (F \ U) /\ D = [n \in DOMAIN D |-> D[n]]
      /\ \A n \in DOMAIN D : n \in DOMAIN C /\ D[n] = C[n]
  OBVIOUS
<1>2. IsDict(D) BY <1>1 DEF IsDict
<1>3. \A n \in DOMAIN D : Named(D, n) = Named(C, n) BY <1>1, NamedIsIn
<1>4. FilledTargets(D) = FilledTargets(C)
  <2>1. TargetNodes \cap FunctionNodes = {} BY NodesAreDistinct DEF SchemaNodes
  <2>2. \A t \in TargetNodes : t \in DOMAIN D <=> t \in DOMAIN C BY <1>1, <2>1
  <2>3. \A t \in TargetNodes \cap DOMAIN D : Values(D, t) = Values(C, t) BY <1>1 DEF Values
  <2> HIDE DEF U, W
  <2> QED BY <2>2, <2>3 DEF FilledTargets
<1>5. IsReach(U, Names(C), FilledTargets(C)) /\ IsReach(W, Names(D), FilledTargets(C))
  BY <1>4, ServedIsReach
<1> HIDE DEF U, W
<1>6. U \subseteq W \cap U
  <2>1. W \cap U \in SUBSET Nodes /\ FilledTargets(C) \subseteq W \cap U BY <1>5 DEF IsReach
  <2>2. ASSUME NEW n \in W \cap U, NEW v \in Named(C, n) PROVE v \in W \cap U
    <3>1. n \in Nodes BY <2>1
    <3>2. Named(C, n) \subseteq U BY <1>5, <3>1 DEF IsReach, Names
    <3>3. Named(D, n) \subseteq W BY <1>5, <3>1 DEF IsReach, Names
    <3>4. n \in DOMAIN D BY <1>1, <2>2 DEF Named
    <3> QED BY <1>3, <2>2, <3>2, <3>3, <3>4
  <2>3. \A n \in W \cap U : Names(C)[n] \subseteq W \cap U BY <2>1, <2>2 DEF Names
  <2> QED BY <1>5, <2>1, <2>3 DEF IsReach
<1>7. FunctionNodes \cap DOMAIN D \subseteq U BY <1>1
<1>8. HasEntries(D)
  <2> SUFFICES ASSUME NEW n \in Nodes, NEW v \in Named(D, n), v \notin DOMAIN D PROVE FALSE
    BY DEF HasEntries
  <2>1. n \in DOMAIN D /\ v \in Named(C, n) BY <1>3 DEF Named
  <2>2. v \in DOMAIN C BY <2>1 DEF Linked, HasEntries
  <2>3. v \notin U BY <1>1, <2>2
  <2>4. n \in FunctionNodes => n \in Served(C) BY <1>7, <2>1 DEF U
  <2> QED BY <2>1, <2>3, <2>4, NamersServe DEF U
<1>9. ListsAreKept => Listed(D)
  <2>1. NamesLess(D, C)
    <3>1. \A n \in DOMAIN D : n \in DOMAIN C /\ D[n].inputs = C[n].inputs BY <1>1
    <3> QED BY <3>1, CollectedNames
  <2>2. ASSUME NEW t \in Nodes, NEW s \in Named(D, t), t \in OutputsOf(C, s)
        PROVE  t \in OutputsOf(D, s)
    <3>1. s \in DOMAIN D BY <1>8, <2>2 DEF HasEntries
    <3> QED BY <1>1, <2>2, <3>1 DEF OutputsOf
  <2> QED BY <2>1, <2>2, LessIsListed DEF Linked
<1> QED BY <1>2, <1>6, <1>7, <1>8, <1>9 DEF Linked, W

JoinedOn(l) == \E C, S, F, keys : cur' = MapOf(C, S, F, l, keys) /\ Joined(C, S, F, l)

LEMMA SetLevelJoins ==
  ASSUME SoundMap(cur), OneLevel, Joined(cur.conns, cur.canvas, cur.functions, cur.level),
         NEW l, SetLevel(l)
  PROVE  JoinedOn(l)
<1> DEFINE drawn == Upstream(cur.conns, LevelRoots(cur.conns, cur.level))
           clean == [n \in DOMAIN cur.conns \ (cur.functions \ drawn) |-> cur.conns[n]]
           shown == Upstream(clean, LevelRoots(clean, l))
           S == shown \cap SourceNodes
           F == shown \cap FunctionNodes
<1>1. cur' = [cur EXCEPT !.level = l, !.conns = clean, !.canvas = S, !.functions = F]
  BY DEF SetLevel, Commit
<1>2. l \in TargetNodes \cup {NoNode} /\ (l # NoNode => Children(l) # {}) BY DEF SetLevel
<1>3. /\ cur = MapOf(cur.conns, cur.canvas, cur.functions, cur.level, cur.inline)
      /\ IsDict(cur.conns) /\ cur.functions \subseteq FunctionNodes
      /\ cur.level \in TargetNodes \cup {NoNode}
  BY SoundParts
<1>4. Linked(cur.conns) BY DEF Joined
<1>5. IsDict(clean) /\ Linked(clean) /\ FunctionNodes \cap DOMAIN clean \subseteq Served(clean)
  <2>1. CASE cur.level = NoNode
    <3>1. cur.functions = {} /\ FunctionNodes \cap DOMAIN cur.conns \subseteq Served(cur.conns)
      BY <2>1 DEF Joined
    <3>2. clean = [n \in DOMAIN cur.conns |-> cur.conns[n]] BY <3>1
    <3>3. clean = cur.conns
      <4> HIDE DEF clean
      <4> QED BY <1>3, <3>2 DEF IsDict
    <3> HIDE DEF clean
    <3> QED BY <1>3, <1>4, <3>1, <3>3
  <2>2. CASE cur.level # NoNode
    <3>1. FunctionNodes \cap DOMAIN cur.conns \subseteq cur.functions /\ Children(cur.level) # {}
      BY <2>2 DEF Joined
    <3>2. drawn = Served(cur.conns) BY <1>3, <2>2, <3>1, RootsAreFilled DEF Served
    <3>3. clean = [n \in DOMAIN cur.conns \ (cur.functions \ Served(cur.conns)) |-> cur.conns[n]]
      BY <3>2
    <3> HIDE DEF clean
    <3> QED BY <1>3, <1>4, <3>1, <3>3, DroppedAreNotNamed
  <2> QED BY <2>1, <2>2
<1> HIDE DEF clean
<1>6. l = NoNode => F = {} BY OverviewHasNoRoots
<1>7. l # NoNode => shown = Served(clean) BY <1>2, RootsAreFilled DEF Served
<1> HIDE DEF shown
<1>8. ASSUME l # NoNode, NEW n \in Nodes, NEW v \in Named(clean, n) \cap SourceNodes PROVE v \in S
  <2>1. n \in FunctionNodes => n \in Served(clean) BY <1>5, <1>8 DEF Named
  <2>2. v \in Served(clean) BY <1>5, <1>8, <2>1, NamersServe
  <2> QED BY <1>7, <1>8, <2>2
<1>9. l # NoNode => FunctionNodes \cap DOMAIN clean \subseteq F BY <1>5, <1>7
<1> HIDE DEF S, F
<1>10. Joined(clean, S, F, l) BY <1>2, <1>5, <1>6, <1>8, <1>9 DEF Joined
<1>11. Relevelled(cur, l, clean, S, F) = MapOf(clean, S, F, l, cur.inline) BY <1>3, MapRewritten
<1>12. cur' = MapOf(clean, S, F, l, cur.inline) BY <1>1, <1>11 DEF Relevelled
<1> QED BY <1>10, <1>12 DEF JoinedOn

-----------------------------------------------------------------------------
(* The invariant of joined maps.                                           *)

IsJoined(m) == Joined(m.conns, m.canvas, m.functions, m.level)

(* Between its dispatches the handler of the function list relies on the   *)
(* cards of its first one.                                                 *)
InsertingIsJoined ==
  inserting # Idle =>
    /\ "inline" \in MapEdits /\ cur.level # NoNode /\ inserting.fn \in cur.functions
    /\ inserting.step # 1 => {inserting.from, inserting.to} \cap FunctionNodes \subseteq cur.functions

JoinedInv == DataInv /\ IsJoined(cur) /\ IsJoined(pristine) /\ InsertingIsJoined

LEMMA JoinedToParts ==
  ASSUME NEW F, JoinedTo(F)
  PROVE  IsJoined(cur)' /\ cur'.functions = F /\ cur'.level = cur.level
<1>1. PICK C, S, keys : cur' = MapOf(C, S, F, cur.level, keys) /\ Joined(C, S, F, cur.level)
  BY DEF JoinedTo
<1>2. cur'.conns = C /\ cur'.canvas = S /\ cur'.functions = F /\ cur'.level = cur.level
  BY <1>1 DEF MapOf
<1> QED BY <1>1, <1>2 DEF IsJoined

LEMMA JoinedOnParts ==
  ASSUME NEW l, JoinedOn(l)
  PROVE  IsJoined(cur)'
<1>1. PICK C, S, F, keys : cur' = MapOf(C, S, F, l, keys) /\ Joined(C, S, F, l)
  BY DEF JoinedOn
<1>2. cur'.conns = C /\ cur'.canvas = S /\ cur'.functions = F /\ cur'.level = l
  BY <1>1 DEF MapOf
<1> QED BY <1>1, <1>2 DEF IsJoined

LEMMA CanvasEditJoins ==
  ASSUME OnShownLevel, OneLevel, ListsAreKept \/ "deleteFunction" \notin MapEdits, CanvasEdit
  PROVE  \E F : JoinedTo(F)
<1>1. CASE \E x \in SourceNodes : AddSource(x) BY <1>1, AddSourceJoins
<1>2. CASE \E x \in SourceNodes : RemoveSource(x) BY <1>2, RemoveSourceJoins
<1>3. CASE \E f \in FreshFunctions : AddFunction(f) BY <1>3, FreshIsNew, AddFunctionJoins
<1>4. CASE \E s, t \in Nodes : Drag(s, t, 0)
  <2>1. 0 \in Nat OBVIOUS
  <2> QED BY <1>4, <2>1, DragJoins
<1>5. CASE "handle" \in MapEdits
           /\ \E s \in Nodes, t \in FunctionNodes, i \in 1..MaxFields : Drag(s, t, i)
  <2>1. \A i \in 1..MaxFields : i \in Nat OBVIOUS
  <2> QED BY <1>5, <2>1, DragJoins
<1>6. CASE "input" \in MapEdits
           /\ \E t \in Nodes, i \in 1..MaxFields, v \in Nodes \cup {Custom, Empty} :
                SetConnectionInput(t, i, v)
  <2>1. \A i \in 1..MaxFields : i \in Nat \ {0} OBVIOUS
  <2> QED BY <1>6, <2>1, SetConnectionInputJoins
<1>7. CASE \E f \in FunctionNodes : ChangeFields(f) BY <1>7, ChangeFieldsJoins
<1>8. CASE \E e \in Edges : DeleteEdge(e) BY <1>8, DeleteEdgeJoins
<1>9. CASE "deleteFunction" \in MapEdits /\ \E f \in FunctionNodes : DeleteFunction(f)
  BY <1>9, DeleteFunctionJoins
<1>10. CASE \E e \in Edges : SetInline(<<e.from, e.to, e.port>>) BY <1>10, SetInlineJoins
<1>11. CASE SetInline(<<>>) BY <1>11, SetInlineJoins
<1> QED BY <1>1, <1>2, <1>3, <1>4, <1>5, <1>6, <1>7, <1>8, <1>9, <1>10, <1>11 DEF CanvasEdit

LEMMA PickInlineJoins ==
  ASSUME OnShownLevel, "inline" \in MapEdits, NEW f \in FreshFunctions, PickInline(f)
  PROVE  IsJoined(cur)' /\ InsertingIsJoined'
<1>1. f \in FunctionNodes /\ AddFunction(f) BY FreshIsNew DEF PickInline
<1>2. JoinedTo(cur.functions \cup {f}) BY <1>1, AddFunctionJoins
<1>3. IsJoined(cur)' /\ cur'.functions = cur.functions \cup {f} /\ cur'.level = cur.level
  BY <1>2, JoinedToParts
<1>4. inserting'.step = 1 /\ inserting'.fn = f BY DEF PickInline
<1>5. cur'.level # NoNode /\ inserting'.fn \in cur'.functions BY <1>3, <1>4 DEF OnShownLevel
<1> QED BY <1>3, <1>4, <1>5 DEF InsertingIsJoined

LEMMA InlineStepKeepsEdge ==
  ASSUME InsertingIsSound, NEW n \in 1..3, InlineStep(n)
  PROVE  inserting'.fn = inserting.fn /\ inserting'.from = inserting.from /\ inserting'.to = inserting.to
<1>1. inserting # Idle /\ inserting' = [inserting EXCEPT !.step = n + 1] BY DEF InlineStep
<1>2. inserting \in [step : 1..4, fn : FunctionNodes, from : Givers, to : Takers, port : Nat]
  BY <1>1 DEF InsertingIsSound
<1> QED BY <1>1, <1>2

(* A dispatch that leaves the cards alone leaves the handler its cards. *)
LEMMA LaterStepIsJoined ==
  ASSUME InsertingIsSound, InsertingIsJoined, NEW n \in 1..3, InlineStep(n), JoinedTo(cur.functions),
         {inserting.from, inserting.to} \cap FunctionNodes \subseteq cur.functions
  PROVE  IsJoined(cur)' /\ InsertingIsJoined'
<1>1. IsJoined(cur)' /\ cur'.functions = cur.functions /\ cur'.level = cur.level BY JoinedToParts
<1>2. inserting'.fn = inserting.fn /\ inserting'.from = inserting.from /\ inserting'.to = inserting.to
  BY InlineStepKeepsEdge
<1>3. inserting # Idle BY DEF InlineStep
<1> QED BY <1>1, <1>2, <1>3 DEF InsertingIsJoined

LEMMA InlineDisconnectJoins ==
  ASSUME OnShownLevel, InsertingIsSound, InsertingIsJoined, InlineDisconnect
  PROVE  IsJoined(cur)' /\ InsertingIsJoined'
<1> DEFINE C == Disconnect(cur.conns, inserting.from, inserting.to, inserting.port)
<1>1. /\ InlineStep(1) /\ 1 \in 1..3 /\ {inserting.from, inserting.to} \subseteq DOMAIN cur.conns
      /\ cur' = [cur EXCEPT !.conns = C]
  BY DEF InlineDisconnect, InlineEdgeIsKnown, Commit
<1>2. IsDict(cur.conns) /\ Linked(cur.conns) /\ inserting.from \in Nodes
  BY <1>1, ShownParts DEF IsDict
<1>3. Linked(C) /\ NamesLess(C, cur.conns) /\ DOMAIN C = DOMAIN cur.conns
  BY <1>2, DisconnectIsLinked, DisconnectNames, DisconnectIsDict
<1> HIDE DEF C
<1>4. JoinedTo(cur.functions) BY <1>1, <1>3, LessJoins
<1>5. {inserting.from, inserting.to} \cap FunctionNodes \subseteq cur.functions BY <1>1, ShownParts
<1> QED BY <1>1, <1>4, <1>5, LaterStepIsJoined

LEMMA InlineInputJoins ==
  ASSUME OnShownLevel, InsertingIsSound, InsertingIsJoined, InlineInput
  PROVE  IsJoined(cur)' /\ InsertingIsJoined'
<1> DEFINE s == inserting.from
           t == inserting.fn
<1>1. InlineStep(2) /\ 2 \in 1..3 BY DEF InlineInput
<1>2. SoundMap(cur) BY DEF OnShownLevel
<1>3. /\ s \in Givers /\ t \in Takers /\ Roomy(cur.conns, t) /\ MakeConnection(s, t, 0)
  BY <1>2, InsertedHasRoom
<1>4. inserting.step = 2 /\ inserting # Idle BY <1>1 DEF InlineStep
<1>5. /\ {inserting.from, inserting.to} \cap FunctionNodes \subseteq cur.functions
      /\ inserting.fn \in cur.functions /\ "inline" \in MapEdits
  BY <1>4 DEF InsertingIsJoined
<1>6. {s, t} \cap FunctionNodes \subseteq cur.functions /\ ~SourcesAreKept BY <1>5 DEF SourcesAreKept
<1> HIDE DEF s, t
<1>7. 0 \in Nat OBVIOUS
<1>8. JoinedTo(cur.functions) BY <1>3, <1>6, <1>7, MakeConnectionJoins
<1> QED BY <1>1, <1>5, <1>8, LaterStepIsJoined

LEMMA InlineOutputJoins ==
  ASSUME OnShownLevel, InsertingIsSound, InsertingIsJoined, InlineOutput
  PROVE  IsJoined(cur)' /\ InsertingIsJoined'
<1> DEFINE s == inserting.fn
           t == inserting.to
           i == inserting.port
<1>1. InlineStep(3) /\ 3 \in 1..3 /\ MakeConnection(s, t, i) BY DEF InlineOutput
<1>2. /\ s \in FunctionNodes /\ t \in Takers /\ i \in Nat /\ (t \in FunctionNodes => i # 0)
      /\ inserting.step = 3 /\ inserting # Idle
  BY <1>1, InlineStepIsTyped DEF InlineStep
<1>3. s \in Givers BY <1>2 DEF Givers
<1>4. /\ {inserting.from, inserting.to} \cap FunctionNodes \subseteq cur.functions
      /\ inserting.fn \in cur.functions /\ "inline" \in MapEdits
  BY <1>2 DEF InsertingIsJoined
<1>5. {s, t} \cap FunctionNodes \subseteq cur.functions /\ ~SourcesAreKept BY <1>4 DEF SourcesAreKept
<1>6. ListsAreKept => Single(t) BY <1>2, <1>4 DEF ListsAreKept
<1> HIDE DEF s, t, i
<1>7. JoinedTo(cur.functions) BY <1>1, <1>2, <1>3, <1>5, <1>6, MakeConnectionJoins
<1> QED BY <1>1, <1>4, <1>7, LaterStepIsJoined

(* What is saved was the current map. *)
LEMMA PristineIsOld ==
  ASSUME StacksOK, [MapNext]_mapVars
  PROVE  pristine' \in {pristine, cur}
<1>1. IsMapRecord(cur) BY DEF StacksOK
<1>2. Recorded => pristine' = pristine BY DEF Recorded, Commit
<1>3. Undo \/ Redo \/ DiscardDataMap => pristine' = pristine BY DEF Undo, Redo, DiscardDataMap
<1> QED BY <1>1, <1>2, <1>3, StepKinds

(* The functions of a loaded map serve a target. *)
MapsAreJoined == \A C \in Maps : Linked(C) /\ FunctionNodes \cap DOMAIN C \subseteq Served(C)

LEMMA InitIsJoined ==
  ASSUME MapsAreSound, MapsAreJoined, MapInit
  PROVE  JoinedInv
<1>1. PICK C \in Maps : cur = LoadedMap(C) BY DEF MapInit
<1>2. Linked(C) /\ FunctionNodes \cap DOMAIN C \subseteq Served(C) BY DEF MapsAreJoined
<1>3. cur.conns = C /\ cur.functions = {} /\ cur.level = NoNode BY <1>1 DEF LoadedMap
<1>4. IsJoined(cur) BY <1>2, <1>3 DEF IsJoined, Joined
<1>5. pristine = cur /\ inserting = Idle BY DEF MapInit
<1> QED BY <1>4, <1>5, InitIsSound DEF JoinedInv, InsertingIsJoined

LEMMA NextIsJoined ==
  ASSUME OneLevel, ListsAreKept \/ "deleteFunction" \notin MapEdits, "undo" \notin MapEdits,
         JoinedInv, [MapNext]_mapVars
  PROVE  JoinedInv'
<1>1. /\ DataInv /\ StacksOK /\ SoundMap(cur) /\ InsertingIsSound
      /\ IsJoined(cur) /\ IsJoined(pristine) /\ InsertingIsJoined
  BY DEF JoinedInv, DataInv
<1>2. DataInv' BY <1>1, NextIsSound
<1>3. IsJoined(pristine)'
  <2>1. pristine' \in {pristine, cur} BY <1>1, PristineIsOld
  <2> QED BY <1>1, <2>1 DEF IsJoined
<1>4. SUFFICES IsJoined(cur)' /\ InsertingIsJoined' BY <1>2, <1>3 DEF JoinedInv
<1>5. cur.level # NoNode => OnShownLevel BY <1>1 DEF OnShownLevel, IsJoined
<1>6. inserting # Idle => OnShownLevel BY <1>1, <1>5 DEF InsertingIsJoined
<1>7. inserting = Idle /\ UNCHANGED inserting => InsertingIsJoined' BY DEF InsertingIsJoined
<1>8. CASE CanvasIsShown /\ CanvasEdit /\ UNCHANGED inserting
  <2>1. OnShownLevel /\ inserting = Idle BY <1>5, <1>8 DEF CanvasIsShown
  <2>2. \E F : JoinedTo(F) BY <1>8, <2>1, CanvasEditJoins
  <2> QED BY <1>7, <1>8, <2>1, <2>2, JoinedToParts
<1>9. CASE CanvasIsShown /\ "inline" \in MapEdits /\ \E f \in FreshFunctions : PickInline(f)
  BY <1>5, <1>9, PickInlineJoins DEF CanvasIsShown
<1>10. CASE InlineDisconnect
  BY <1>1, <1>6, <1>10, InlineDisconnectJoins DEF InlineDisconnect, InlineStep
<1>11. CASE InlineInput BY <1>1, <1>6, <1>11, InlineInputJoins DEF InlineInput, InlineStep
<1>12. CASE InlineOutput BY <1>1, <1>6, <1>12, InlineOutputJoins DEF InlineOutput, InlineStep
<1>13. CASE InlineEnds
  <2>1. OnShownLevel /\ SetInline(<<>>) /\ inserting' = Idle BY <1>6, <1>13 DEF InlineEnds
  <2>2. JoinedTo(cur.functions) BY <2>1, SetInlineJoins
  <2> QED BY <2>1, <2>2, JoinedToParts DEF InsertingIsJoined
<1>14. CASE InlineThrows
  BY <1>1, <1>14 DEF InlineThrows, IsJoined, InsertingIsJoined
<1>15. CASE inserting = Idle /\ UNCHANGED inserting /\ \E l \in TargetNodes \cup {NoNode} : SetLevel(l)
  BY <1>1, <1>7, <1>15, SetLevelJoins, JoinedOnParts DEF IsJoined
<1>16. CASE inserting = Idle /\ UNCHANGED inserting /\ (SaveDataMap \/ DiscardDataMap)
  BY <1>1, <1>7, <1>16 DEF SaveDataMap, DiscardDataMap, IsJoined
<1>17. CASE UNCHANGED mapVars
  BY <1>1, <1>17 DEF mapVars, IsJoined, InsertingIsJoined
<1> QED BY <1>8, <1>9, <1>10, <1>11, <1>12, <1>13, <1>14, <1>15, <1>16, <1>17 DEF MapNext

-----------------------------------------------------------------------------
(* Dropdowns and circles.                                                  *)

Lists(C) == [n \in Nodes |-> OutputsOf(C, n)]

LEMMA ListsAreTyped ==
  ASSUME NEW C, IsDict(C)
  PROVE  Lists(C) \in [Nodes -> SUBSET Nodes]
<1>1. \A n \in DOMAIN C : C[n].outputs \subseteq Nodes BY EntryIsTyped DEF IsDict
<1> QED BY <1>1 DEF Lists, OutputsOf

LEMMA DownstreamIsReach ==
  ASSUME NEW C, IsDict(C), NEW S \in SUBSET Nodes
  PROVE  IsReach(Downstream(C, S), Lists(C), S)
<1> DEFINE N == Cardinality(Nodes)
           F == Lists(C)
           Next(X) == X \cup UNION {OutputsOf(C, n) : n \in X}
           IsIt(f) == f = [i \in 0..N |-> IF i = 0 THEN S
                             ELSE LET before == f[i - 1]
                                  IN  before \cup UNION {OutputsOf(C, n) : n \in before}]
           r == CHOOSE f : IsIt(f)
<1>1. N \in Nat BY NodesAreFinite, FS_CardinalityType
<1>2. F \in [Nodes -> SUBSET Nodes] BY ListsAreTyped
<1>3. \A X \in SUBSET Nodes : Onwards(F, X) = Next(X) BY DEF Onwards, Lists
<1>4. Downstream(C, S) = r[N] BY DEF Downstream, ReachableBy
<1> HIDE DEF N, F
<1>5. PICK g : Spreads(g, F, S, N) /\ \A i \in 0..N : g[i] \in SUBSET Nodes BY <1>1, <1>2, SpreadExists
<1>6. IsIt(g)
  <2>1. \A i \in 1..N : i - 1 \in 0..N BY <1>1
  <2>2. g = [i \in 0..N |-> IF i = 0 THEN S ELSE Onwards(F, g[i - 1])] BY <1>5 DEF Spreads
  <2>3. \A i \in 0..N : i # 0 => Onwards(F, g[i - 1]) = Next(g[i - 1])
    <3> HIDE DEF Next
    <3> QED BY <1>1, <1>3, <1>5
  <2>4. g = [i \in 0..N |-> IF i = 0 THEN S ELSE Next(g[i - 1])]
    <3> HIDE DEF Next
    <3> QED BY <2>2, <2>3
  <2> QED BY <2>4
<1>7. IsIt(r)
  <2> HIDE DEF IsIt
  <2> QED BY <1>6
<1>8. r = [i \in 0..N |-> IF i = 0 THEN S ELSE Next(r[i - 1])]
  <2> HIDE DEF r
  <2> QED BY <1>7
<1> HIDE DEF r, IsIt, Next
<1>9. Spreads(r, F, S, N)
  <2> DEFINE b == [i \in 0..N |-> IF i = 0 THEN S ELSE Next(r[i - 1])]
  <2>1. r = [i \in 0..N |-> b[i]] BY <1>8
  <2>2. b[0] = S BY <1>1
  <2>3. \A i \in 1..N : r[i - 1] \in SUBSET Nodes => b[i] = Onwards(F, r[i - 1]) BY <1>3
  <2> HIDE DEF b
  <2> QED BY <1>1, <1>2, <2>1, <2>2, <2>3, ComputedSpreads
<1>10. IsReach(r[N], F, S) BY <1>2, <1>9, NodesAreFinite, SpreadIsReach DEF N
<1> QED BY <1>4, <1>10 DEF F

(* What names t is downstream of it where inputs are listed, so a circle   *)
(* that a new input of t closes runs within what is downstream of t.       *)
LEMMA ListedMoreIsAcyclic ==
  ASSUME NEW C, IsDict(C), Listed(C), Acyclic(C), NEW t \in Nodes, NEW s,
         s \notin Downstream(C, {t}), NEW D, NamesMore(D, C, s, t)
  PROVE  Acyclic(D)
<1> SUFFICES ASSUME NEW S \in SUBSET Nodes, \A n \in S : Named(D, n) \cap S # {}, S # {} PROVE FALSE
  BY DEF Acyclic
<1> DEFINE T == Downstream(C, {t})
           X == S \ T
<1>1. {t} \in SUBSET Nodes OBVIOUS
<1>2. IsReach(T, Lists(C), {t}) BY <1>1, DownstreamIsReach
<1> HIDE DEF T
<1>3. t \in T /\ T \subseteq Nodes /\ \A n \in T : OutputsOf(C, n) \subseteq T
  BY <1>2 DEF IsReach, Lists
<1>4. s \notin T BY DEF T
<1>5. \A n \in Nodes : n # t => Named(D, n) \subseteq Named(C, n) BY DEF NamesMore
<1>6. \A n \in Nodes : Named(D, n) \subseteq Named(C, n) \cup {s} BY DEF NamesMore
<1>7. CASE X # {}
  <2>1. X \in SUBSET Nodes OBVIOUS
  <2>2. PICK n \in X : Named(C, n) \cap X = {} BY <1>7, <2>1 DEF Acyclic
  <2>3. n \in Nodes /\ n \notin T /\ n # t BY <1>3, <2>2
  <2>4. PICK m \in Named(D, n) : m \in S BY <2>2
  <2>5. m \in Named(C, n) /\ m \in T BY <1>5, <2>2, <2>3, <2>4
  <2>6. n \in OutputsOf(C, m) BY <2>3, <2>5 DEF Listed
  <2> QED BY <1>3, <2>3, <2>5, <2>6
<1>8. CASE X = {}
  <2>1. PICK n \in S : Named(C, n) \cap S = {} BY DEF Acyclic
  <2>2. Named(D, n) \cap S # {} /\ s \notin S BY <1>4, <1>8, <2>1
  <2> QED BY <1>6, <2>1, <2>2
<1> QED BY <1>7, <1>8

(* Nothing names a target, so no circle runs through one. *)
LEMMA TargetMoreIsAcyclic ==
  ASSUME NEW C, Acyclic(C), NEW t, t \notin Givers, NEW s, NEW D, IsDict(D), NamesMore(D, C, s, t)
  PROVE  Acyclic(D)
<1> SUFFICES ASSUME NEW S \in SUBSET Nodes, \A n \in S : Named(D, n) \cap S # {}, S # {} PROVE FALSE
  BY DEF Acyclic
<1> DEFINE X == S \ {t}
<1>1. \A n : t \notin Named(D, n) BY NamedAreGivers
<1>2. \A n \in S : Named(D, n) \cap X # {} BY <1>1
<1>3. X \in SUBSET Nodes /\ X # {} BY <1>2
<1>4. PICK n \in X : Named(C, n) \cap X = {} BY <1>3 DEF Acyclic
<1>5. Named(D, n) \subseteq Named(C, n) BY <1>4 DEF NamesMore
<1> QED BY <1>2, <1>4, <1>5

LEMMA SetConnectionInputIsOrdered ==
  ASSUME SoundMap(cur), Acyclic(cur.conns), Listed(cur.conns), NEW t, NEW i \in Nat \ {0}, NEW v,
         SetConnectionInput(t, i, v)
  PROVE  Ordered
<1> DEFINE C == SetValue(cur.conns, t, i, v)
           old == SharingEntries(C)
           S == cur.canvas
           F == cur.functions
<1>1. /\ t \in cur.functions \cup OnLevel
      /\ v \in cur.canvas \cup cur.functions \cup {Custom, Empty}
      /\ v \in Nodes /\ t \in FunctionNodes => v \notin Downstream(cur.conns, {t})
      /\ Commit([cur EXCEPT !.conns = C], old)
  BY DEF SetConnectionInput, Circular
<1>2. t \in Takers /\ v \in InputValues /\ IsDict(cur.conns)
  BY <1>1, CardsAreEnds DEF InputValues, SoundMap
<1>3. NamesMore(C, cur.conns, v, t) /\ IsDict(C) /\ DOMAIN cur.conns \subseteq DOMAIN C
  <2>1. NamesMore(C, cur.conns, v, t) BY <1>2, SetValueNames
  <2>2. IsDict(C) /\ DOMAIN cur.conns \subseteq DOMAIN C BY <1>2, SetValueIsDict
  <2> QED BY <2>1, <2>2
<1>4. old = SharingEntries(C) OBVIOUS
<1> HIDE DEF C, old
<1>5. Acyclic(C)
  <2>1. CASE v \notin Nodes BY <1>3, <2>1, MoreIsAcyclic
  <2>2. CASE v \in Nodes /\ t \in FunctionNodes
    <3>1. t \in Nodes BY <2>2 DEF Nodes
    <3>2. v \notin Downstream(cur.conns, {t}) BY <1>1, <2>2
    <3> QED BY <1>2, <1>3, <3>1, <3>2, ListedMoreIsAcyclic
  <2>3. CASE t \notin FunctionNodes
    <3>1. t \notin Givers BY <1>2, <2>3, NodesAreDistinct DEF Takers, Givers
    <3> QED BY <1>3, <3>1, TargetMoreIsAcyclic
  <2> QED BY <2>1, <2>2, <2>3
<1> QED BY <1>1, <1>3, <1>4, <1>5, RewiredIsOrdered

-----------------------------------------------------------------------------
(* What joined maps promise.                                               *)

(* Every input names an entry, so walking up a chain of connections never  *)
(* throws, however functions are put on cards and edges, connected,        *)
(* changed and disconnected, and whichever functions leaving a level or    *)
(* going back to the overview drops: for every target schema on one level, *)
(* every source schema and every set of functions, also unbounded ones.    *)
(* Deletions of functions are among the edits where nodes have one field:  *)
(* elsewhere a node may name what does not list it.  Nor is undo, which    *)
(* shares dictionaries between maps.                                       *)
THEOREM InputsAlwaysHaveEntries ==
  ASSUME MapsAreSound, MapsAreJoined, OneLevel, "undo" \notin MapEdits,
         ListsAreKept \/ "deleteFunction" \notin MapEdits
  PROVE  MapSpec => []InputsHaveEntries
<1>1. MapInit => JoinedInv BY InitIsJoined
<1>2. JoinedInv /\ [MapNext]_mapVars => JoinedInv' BY NextIsJoined
<1>3. JoinedInv => InputsHaveEntries
  <2> SUFFICES ASSUME JoinedInv, NEW n \in DOMAIN cur.conns
               PROVE  Named(cur.conns, n) \subseteq DOMAIN cur.conns
    BY DEF InputsHaveEntries
  <2>1. HasEntries(cur.conns) /\ IsDict(cur.conns)
    BY DEF JoinedInv, DataInv, SoundMap, IsJoined, Joined, Linked
  <2> QED BY <2>1 DEF HasEntries, IsDict
<1> QED BY <1>1, <1>2, <1>3, PTL DEF MapSpec

(* Where no node has two fields, or where drags alone connect, a node is   *)
(* listed among the outputs of all that it names, through deletions of     *)
(* edges, functions and arrays and through changes of level: no half of a  *)
(* connection is ever left behind.                                         *)
THEOREM InputsAreAlwaysListed ==
  ASSUME MapsAreSound, MapsAreJoined, OneLevel, "undo" \notin MapEdits, ListsAreKept
  PROVE  MapSpec => []InputsAreListed
<1>1. MapInit => JoinedInv BY InitIsJoined
<1>2. JoinedInv /\ [MapNext]_mapVars => JoinedInv' BY NextIsJoined
<1>3. JoinedInv => InputsAreListed
  BY DEF JoinedInv, IsJoined, Joined, Linked, Listed, InputsAreListed
<1> QED BY <1>1, <1>2, <1>3, PTL DEF MapSpec

(* There the check of the dropdowns, which follows the outputs alone, sees *)
(* every circle: with dropdowns, too, no function is computed from itself. *)
THEOREM DropdownsCloseNoCircle ==
  ASSUME MapsAreSound, MapsAreJoined, MapsAreOrdered, OneLevel, "undo" \notin MapEdits, ListsAreKept
  PROVE  MapSpec => []MapIsAcyclic
<1>1. MapInit => JoinedInv /\ OrderedInv BY InitIsJoined, InitIsOrdered
<1>2. JoinedInv /\ OrderedInv /\ [MapNext]_mapVars => JoinedInv' /\ OrderedInv'
  <2> SUFFICES ASSUME JoinedInv, OrderedInv, [MapNext]_mapVars PROVE JoinedInv' /\ OrderedInv' OBVIOUS
  <2>1. SoundMap(cur) /\ Acyclic(cur.conns) BY DEF OrderedInv, DataInv, Slice
  <2>2. Listed(cur.conns) BY DEF JoinedInv, IsJoined, Joined, Linked
  <2>3. \A i \in 1..MaxFields : i \in Nat \ {0} OBVIOUS
  <2>4. Dropdown => Ordered BY <2>1, <2>2, <2>3, SetConnectionInputIsOrdered DEF Dropdown
  <2> QED BY <2>4, NextIsJoined, NextIsOrdered
<1>3. OrderedInv => MapIsAcyclic BY AcyclicIsAcyclic DEF OrderedInv, Slice, MapIsAcyclic
<1> QED BY <1>1, <1>2, <1>3, PTL DEF MapSpec

(* Each edge handed to the layout starts at a card of the canvas: a source *)
(* node that an input names is not taken off it (removeSourceSchemaNodes   *)
(* looks at outputs, and finds all of them), a level brings the functions  *)
(* and source nodes its targets are made from, and no function serves a    *)
(* target from behind.  For schemas without arrays, the target's on one    *)
(* level.                                                                  *)
THEOREM DrawnEdgesAlwaysHaveCards ==
  ASSUME MapsAreSound, MapsAreJoined, OneLevel, "undo" \notin MapEdits, SourcesAreKept
  PROVE  MapSpec => []DrawnEdgesHaveCards
<1>0. ListsAreKept BY DEF SourcesAreKept
<1>1. MapInit => JoinedInv BY InitIsJoined
<1>2. JoinedInv /\ [MapNext]_mapVars => JoinedInv' BY <1>0, NextIsJoined
<1>3. JoinedInv => DrawnEdgesHaveCards
  <2> SUFFICES ASSUME JoinedInv, cur.level # NoNode, NEW n \in OnCanvas, NEW v \in Named(cur.conns, n)
               PROVE  v \in OnCanvas
    BY DEF DrawnEdgesHaveCards
  <2>1. OnShownLevel BY DEF JoinedInv, DataInv, IsJoined, OnShownLevel
  <2>2. n \in Nodes /\ v \in DOMAIN cur.conns /\ v \in Givers
    <3>1. IsDict(cur.conns) /\ HasEntries(cur.conns) BY <2>1, ShownParts DEF Linked
    <3>2. n \in Nodes BY <3>1 DEF Named, IsDict
    <3> QED BY <3>1, <3>2, NamedAreGivers DEF HasEntries
  <2>3. CASE v \in FunctionNodes BY <2>1, <2>2, <2>3, ShownParts DEF OnCanvas
  <2>4. CASE v \in SourceNodes BY <2>1, <2>2, <2>4, ShownParts DEF OnCanvas
  <2> QED BY <2>2, <2>3, <2>4 DEF Givers
<1> QED BY <1>1, <1>2, <1>3, PTL DEF MapSpec
=============================================================================
