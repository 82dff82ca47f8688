--------------------------- MODULE MapFilesProofs ---------------------------
(***************************************************************************)
(* For any versions of a map, any number of writes and conversions at one  *)
(* time, and whatever the user, the messages and the disk do: the panel is *)
(* told whether the map is dirty, and the files come to hold the draft and *)
(* the definition they should.                                             *)
(***************************************************************************)
EXTENDS MapFiles, SequenceTheorems, TLAPS

IsSeq(s) == \E S : s \in Seq(S)

(* PanelIsTold for any channel, what the panel knows and what it is to know *)
Told(ch, known, dirty) ==
  /\ \A i \in DOMAIN ch :
       ch[i].kind = "dirty" /\ (\A j \in i + 1..Len(ch) : ch[j].kind # "dirty") => ch[i].dirty = dirty
  /\ (\A i \in DOMAIN ch : ch[i].kind # "dirty") => known = dirty

(* PanelIsTold is Told of the channel there is.                            *)
LEMMA ToldIsPanelIsTold == PanelIsTold <=> (view # "closed" => Told(channel, panelDirty, isDirty))
BY DEF PanelIsTold, Told

-----------------------------------------------------------------------------
(* Sequences.                                                              *)

(* One message makes a sequence.                                           *)
LEMMA SeqOfOne == ASSUME NEW ch, IsSeq(ch), NEW m
                  PROVE  /\ IsSeq(ch \o <<m>>) /\ IsSeq(ch \o <<>>) /\ ch \o <<>> = ch
                         /\ Len(ch \o <<m>>) = Len(ch) + 1 /\ Len(ch) \in Nat
                         /\ DOMAIN ch = 1..Len(ch)
                         /\ \A i \in 1..Len(ch) : (ch \o <<m>>)[i] = ch[i]
                         /\ (ch \o <<m>>)[Len(ch) + 1] = m
<1>1. PICK S : ch \in Seq(S) BY DEF IsSeq
<1>2. ch \in Seq(S \cup {m}) /\ <<m>> \in Seq(S \cup {m}) BY <1>1
<1>3. ch \o <<m>> \in Seq(S \cup {m}) /\ ch \o <<>> = ch BY <1>2
<1> QED BY <1>1, <1>2, <1>3 DEF IsSeq

(* A sequence without its first message is one.                            *)
LEMMA SeqRest == ASSUME NEW ch, IsSeq(ch), ch # <<>>
                 PROVE  /\ IsSeq(Tail(ch)) /\ Len(ch) \in Nat \ {0} /\ Len(Tail(ch)) = Len(ch) - 1
                        /\ DOMAIN ch = 1..Len(ch) /\ DOMAIN Tail(ch) = 1..Len(ch) - 1
                        /\ Head(ch) = ch[1]
                        /\ \A i \in 1..Len(ch) - 1 : Tail(ch)[i] = ch[i + 1]
<1>1. PICK S : ch \in Seq(S) BY DEF IsSeq
<1>2. Tail(ch) \in Seq(S) BY <1>1
<1> QED BY <1>1, <1>2 DEF IsSeq

(* Two messages more make a sequence.                                      *)
LEMMA SeqJoined == ASSUME NEW ch, IsSeq(ch), NEW m, NEW n
                   PROVE  ch \o (<<m>> \o <<n>>) = (ch \o <<m>>) \o <<n>>
<1>1. PICK S : ch \in Seq(S) BY DEF IsSeq
<1>2. ch \in Seq(S \cup {m, n}) /\ <<m>> \in Seq(S \cup {m, n}) /\ <<n>> \in Seq(S \cup {m, n}) BY <1>1
<1> QED BY <1>2

(* Two messages are one and one.                                           *)
LEMMA PairJoined == ASSUME NEW m, NEW n PROVE <<m, n>> = <<m>> \o <<n>>
<1> DEFINE s == <<m>> \o <<n>>
<1>1. <<m>> \in Seq({m, n}) /\ <<n>> \in Seq({m, n}) /\ <<m, n>> \in Seq({m, n}) OBVIOUS
<1>2. s \in Seq({m, n}) /\ Len(s) = 2 BY <1>1
<1>3. s[1] = m /\ s[2] = n BY <1>1
<1> HIDE DEF s
<1>4. Len(<<m, n>>) = Len(s) /\ \A i \in 1..Len(s) : <<m, n>>[i] = s[i] BY <1>2, <1>3
<1>5. <<m, n>> = s BY <1>1, <1>2, <1>4, SeqEqual
<1> QED BY <1>5 DEF s

(* No messages add nothing.                                                *)
LEMMA EmptyJoined == ASSUME NEW m PROVE <<>> \o <<m>> = <<m>> /\ <<m>> \o <<>> = <<m>> /\ <<>> \o <<>> = <<>>
<1>1. <<m>> \in Seq({m}) /\ <<>> \in Seq({m}) OBVIOUS
<1> QED BY <1>1

-----------------------------------------------------------------------------
(* One message more, one message less.                                     *)

(* A message of another kind changes nothing of what the panel is told.    *)
LEMMA OtherPosted == ASSUME NEW ch, IsSeq(ch), NEW known, NEW dirty, Told(ch, known, dirty),
                            NEW m, m.kind # "dirty"
                     PROVE  Told(ch \o <<m>>, known, dirty)
<1> DEFINE new == ch \o <<m>>
<1>1. /\ IsSeq(new) /\ Len(new) = Len(ch) + 1 /\ Len(ch) \in Nat /\ DOMAIN ch = 1..Len(ch)
      /\ \A i \in 1..Len(ch) : new[i] = ch[i]
      /\ new[Len(ch) + 1] = m
  BY SeqOfOne
<1>2. DOMAIN new = 1..Len(ch) + 1 BY <1>1, SeqOfOne
<1> HIDE DEF new
<1>3. ASSUME NEW i \in DOMAIN new, new[i].kind = "dirty", \A j \in i + 1..Len(new) : new[j].kind # "dirty"
      PROVE  new[i].dirty = dirty
  <2>1. i # Len(ch) + 1 BY <1>1, <1>3
  <2>2. i \in DOMAIN ch /\ new[i] = ch[i] BY <2>1, <1>1, <1>2
  <2>3. \A j \in i + 1..Len(ch) : ch[j].kind # "dirty" BY <2>2, <1>1, <1>2, <1>3
  <2> QED BY <2>2, <2>3, <1>3 DEF Told
<1>4. ASSUME \A i \in DOMAIN new : new[i].kind # "dirty" PROVE known = dirty
  <2>1. \A i \in DOMAIN ch : ch[i].kind # "dirty" BY <1>1, <1>2, <1>4
  <2> QED BY <2>1 DEF Told
<1> QED BY <1>3, <1>4 DEF Told, new

(* A dirty message tells the panel, whatever came before.                  *)
LEMMA DirtyPosted == ASSUME NEW ch, IsSeq(ch), NEW known, NEW dirty
                     PROVE  Told(ch \o <<Dirty(dirty)>>, known, dirty)
<1> DEFINE new == ch \o <<Dirty(dirty)>>
           last == Len(ch) + 1
<1>1. /\ IsSeq(new) /\ Len(new) = last /\ Len(ch) \in Nat /\ new[last] = Dirty(dirty)
  BY SeqOfOne
<1>2. DOMAIN new = 1..last BY <1>1, SeqOfOne
<1>3. Dirty(dirty).kind = "dirty" /\ Dirty(dirty).dirty = dirty BY DEF Dirty
<1> HIDE DEF new
<1>4. ASSUME NEW i \in DOMAIN new, new[i].kind = "dirty", \A j \in i + 1..Len(new) : new[j].kind # "dirty"
      PROVE  new[i].dirty = dirty
  <2>1. i = last
    <3>1. SUFFICES ASSUME i # last PROVE FALSE OBVIOUS
    <3>2. last \in i + 1..Len(new) BY <3>1, <1>1, <1>2, <1>4
    <3> QED BY <3>2, <1>1, <1>3, <1>4
  <2> QED BY <2>1, <1>1, <1>3
<1>5. ~(\A i \in DOMAIN new : new[i].kind # "dirty") BY <1>1, <1>2, <1>3
<1> QED BY <1>4, <1>5 DEF Told, new

(* Handling a message of another kind changes nothing either.              *)
LEMMA OtherHandled == ASSUME NEW ch, IsSeq(ch), ch # <<>>, NEW known, NEW dirty, Told(ch, known, dirty),
                             Head(ch).kind # "dirty"
                      PROVE  Told(Tail(ch), known, dirty)
<1> DEFINE new == Tail(ch)
<1>1. /\ Len(ch) \in Nat \ {0} /\ Len(new) = Len(ch) - 1
      /\ DOMAIN ch = 1..Len(ch) /\ DOMAIN new = 1..Len(ch) - 1 /\ Head(ch) = ch[1]
      /\ \A i \in 1..Len(ch) - 1 : new[i] = ch[i + 1]
  BY SeqRest
<1> HIDE DEF new
<1>2. ASSUME NEW i \in DOMAIN new, new[i].kind = "dirty", \A j \in i + 1..Len(new) : new[j].kind # "dirty"
      PROVE  new[i].dirty = dirty
  <2>1. i + 1 \in DOMAIN ch /\ new[i] = ch[i + 1] BY <1>1
  <2>2. ASSUME NEW j \in (i + 1) + 1..Len(ch) PROVE ch[j].kind # "dirty"
    <3>1. j - 1 \in i + 1..Len(new) /\ j - 1 \in 1..Len(ch) - 1 BY <1>1, <2>1
    <3>2. new[j - 1] = ch[(j - 1) + 1] BY <3>1, <1>1
    <3> QED BY <3>1, <3>2, <1>2, <1>1
  <2> QED BY <2>1, <2>2, <1>2 DEF Told
<1>3. ASSUME \A i \in DOMAIN new : new[i].kind # "dirty" PROVE known = dirty
  <2>1. ASSUME NEW i \in DOMAIN ch PROVE ch[i].kind # "dirty"
    <3>1. CASE i = 1 BY <3>1, <1>1
    <3>2. CASE i # 1
      <4>1. i - 1 \in DOMAIN new BY <3>2, <1>1
      <4>2. new[i - 1] = ch[(i - 1) + 1] BY <4>1, <1>1
      <4> QED BY <4>1, <4>2, <1>1, <1>3
    <3> QED BY <3>1, <3>2
  <2> QED BY <2>1 DEF Told
<1> QED BY <1>2, <1>3 DEF Told, new

(* Handling a dirty message tells the panel what it says.                  *)
LEMMA DirtyHandled == ASSUME NEW ch, IsSeq(ch), ch # <<>>, NEW known, NEW dirty, Told(ch, known, dirty),
                             Head(ch).kind = "dirty"
                      PROVE  Told(Tail(ch), Head(ch).dirty, dirty)
<1> DEFINE new == Tail(ch)
<1>1. /\ Len(ch) \in Nat \ {0} /\ Len(new) = Len(ch) - 1
      /\ DOMAIN ch = 1..Len(ch) /\ DOMAIN new = 1..Len(ch) - 1 /\ Head(ch) = ch[1]
      /\ \A i \in 1..Len(ch) - 1 : new[i] = ch[i + 1]
  BY SeqRest
<1> HIDE DEF new
<1>2. ASSUME NEW i \in DOMAIN new, new[i].kind = "dirty", \A j \in i + 1..Len(new) : new[j].kind # "dirty"
      PROVE  new[i].dirty = dirty
  <2>1. i + 1 \in DOMAIN ch /\ new[i] = ch[i + 1] BY <1>1
  <2>2. ASSUME NEW j \in (i + 1) + 1..Len(ch) PROVE ch[j].kind # "dirty"
    <3>1. j - 1 \in i + 1..Len(new) /\ j - 1 \in 1..Len(ch) - 1 BY <1>1, <2>1
    <3>2. new[j - 1] = ch[(j - 1) + 1] BY <3>1, <1>1
    <3> QED BY <3>1, <3>2, <1>2, <1>1
  <2> QED BY <2>1, <2>2, <1>2 DEF Told
<1>3. ASSUME \A i \in DOMAIN new : new[i].kind # "dirty" PROVE Head(ch).dirty = dirty
  <2>1. 1 \in DOMAIN ch BY <1>1
  <2>2. ASSUME NEW j \in 1 + 1..Len(ch) PROVE ch[j].kind # "dirty"
    <3>1. j - 1 \in DOMAIN new BY <1>1
    <3>2. new[j - 1] = ch[(j - 1) + 1] BY <3>1, <1>1
    <3> QED BY <3>1, <3>2, <1>1, <1>3
  <2> QED BY <2>1, <2>2, <1>1 DEF Told
<1> QED BY <1>2, <1>3 DEF Told, new
-----------------------------------------------------------------------------
(* What the webview posts when isDirty becomes b.                          *)

(* After what a rendering posts, the panel is told the new flag.           *)
LEMMA EffectPosted ==
  ASSUME IsSeq(channel), Told(channel, panelDirty, isDirty),
         NEW b, NEW first, first = <<>> \/ \E m : first = <<m>> /\ m.kind # "dirty"
  PROVE  LET new == channel \o (first \o DirtyEffect(b)) IN IsSeq(new) /\ Told(new, panelDirty, b)
<1>1. CASE first = <<>> /\ b = isDirty
  <2>1. channel \o (first \o DirtyEffect(b)) = channel BY <1>1, EmptyJoined, SeqOfOne DEF DirtyEffect
  <2> QED BY <1>1, <2>1
<1>2. CASE first = <<>> /\ b # isDirty
  <2>1. channel \o (first \o DirtyEffect(b)) = channel \o <<Dirty(b)>> BY <1>2, EmptyJoined DEF DirtyEffect
  <2> QED BY <2>1, SeqOfOne, DirtyPosted
<1>3. ASSUME NEW m, first = <<m>>, m.kind # "dirty", b = isDirty
      PROVE  LET new == channel \o (first \o DirtyEffect(b)) IN IsSeq(new) /\ Told(new, panelDirty, b)
  <2>1. channel \o (first \o DirtyEffect(b)) = channel \o <<m>> BY <1>3, EmptyJoined DEF DirtyEffect
  <2>2. IsSeq(channel \o <<m>>) BY SeqOfOne
  <2>3. Told(channel \o <<m>>, panelDirty, b) BY <1>3, OtherPosted
  <2> QED BY <2>1, <2>2, <2>3
<1>4. ASSUME NEW m, first = <<m>>, m.kind # "dirty", b # isDirty
      PROVE  LET new == channel \o (first \o DirtyEffect(b)) IN IsSeq(new) /\ Told(new, panelDirty, b)
  <2>1. channel \o (first \o DirtyEffect(b)) = (channel \o <<m>>) \o <<Dirty(b)>>
    BY <1>4, SeqJoined DEF DirtyEffect
  <2>2. IsSeq(channel \o <<m>>) BY SeqOfOne
  <2> QED BY <2>1, <2>2, SeqOfOne, DirtyPosted
<1> QED BY <1>1, <1>2, <1>3, <1>4

(* A conversion that throws posts nothing, another the draft it makes.     *)
LEMMA DraftsAreOfText ==
  ASSUME NEW v
  PROVE  \/ Drafts(v) = <<Draft(TextOf[v])>> /\ TextOf[v] # Throws
         \/ Drafts(v) = <<>> /\ TextOf[v] = Throws
BY DEF Drafts

(* A rendering posts drafts only.                                          *)
LEMMA RenderedIsOther == ASSUME NEW v, NEW drafts, drafts \in Rendered(v) \/ drafts = Drafts(v)
                         PROVE  drafts = <<>> \/ \E m : drafts = <<m>> /\ m.kind # "dirty"
<1>1. drafts = <<>> \/ drafts = <<Draft(TextOf[v])>> BY DraftsAreOfText DEF Rendered
<1>2. Draft(TextOf[v]).kind # "dirty" BY DEF Draft
<1> QED BY <1>1, <1>2

-----------------------------------------------------------------------------
(* The inductive invariant: a webview that is gone has nothing dirty.      *)

FilesInv ==
  /\ IsSeq(channel)
  /\ view = "closed" => isDirty = FALSE
  /\ PanelIsTold

(* Nothing is open at first.                                               *)
LEMMA FilesInvHoldsAtFirst == FilesInit => FilesInv
<1> SUFFICES ASSUME FilesInit PROVE FilesInv OBVIOUS
<1>1. <<>> \in Seq({}) OBVIOUS
<1> QED BY <1>1 DEF FilesInit, FilesInv, IsSeq, PanelIsTold

(* Every step keeps the panel told.                                        *)
LEMMA FilesInvIsKept == FilesInv /\ [FilesNext]_fileVars => FilesInv'
<1> SUFFICES ASSUME FilesInv, [FilesNext]_fileVars PROVE FilesInv'
  OBVIOUS
<1> USE DEF session, panel, files, history
<1>a. IsSeq(channel) /\ (view # "closed" => Told(channel, panelDirty, isDirty))
  BY ToldIsPanelIsTold DEF FilesInv
<1>b. PanelIsTold' <=> (view' # "closed" => Told(channel', panelDirty', isDirty'))
  BY DEF PanelIsTold, Told
<1>c. ASSUME UNCHANGED <<view, channel, panelDirty, isDirty>> PROVE FilesInv'
  BY <1>c DEF FilesInv, PanelIsTold
<1>d. ASSUME Ready, view' = view, panelDirty' = panelDirty, IsSeq(channel'), Told(channel', panelDirty, isDirty')
      PROVE  FilesInv'
  BY <1>d, <1>b DEF FilesInv, Ready
<1>1. ASSUME NEW v \in Versions, Edit(v) PROVE FilesInv'
  <2>1. PICK drafts \in Rendered(v) : channel' = channel \o (drafts \o DirtyEffect(TRUE)) BY <1>1 DEF Edit, Post
  <2>2. Told(channel, panelDirty, isDirty) BY <1>1, <1>a DEF Edit, Ready
  <2>3. IsSeq(channel') /\ Told(channel', panelDirty, TRUE)
    BY <2>1, <2>2, <1>a, RenderedIsOther, EffectPosted
  <2> QED BY <2>3, <1>1, <1>d DEF Edit
<1>2. CASE Discard
  <2>1. PICK drafts \in Rendered(pristine) : channel' = channel \o (drafts \o DirtyEffect(FALSE))
    BY <1>2 DEF Discard, Post
  <2>2. Told(channel, panelDirty, isDirty) BY <1>2, <1>a DEF Discard, Ready
  <2>3. IsSeq(channel') /\ Told(channel', panelDirty, FALSE)
    BY <2>1, <2>2, <1>a, RenderedIsOther, EffectPosted
  <2> QED BY <2>3, <1>2, <1>d DEF Discard
<1>3. CASE SaveClick BY <1>3, <1>c DEF SaveClick
<1>4. ASSUME NEW i \in DOMAIN converting, Converted(i) PROVE FilesInv'
  <2> DEFINE first == <<Definition(converting[i])>>
  <2>1. channel' = channel \o (first \o DirtyEffect(FALSE)) BY <1>4 DEF Converted, Post
  <2>2. Told(channel, panelDirty, isDirty) BY <1>4, <1>a DEF Converted, Ready
  <2>3. \E m : first = <<m>> /\ m.kind # "dirty"
    <3>1. Definition(converting[i]).kind # "dirty" BY DEF Definition
    <3> QED BY <3>1
  <2>4. IsSeq(channel') /\ Told(channel', panelDirty, FALSE) BY <2>1, <2>2, <2>3, <1>a, EffectPosted
  <2> QED BY <2>4, <1>4, <1>d DEF Converted
<1>5. ASSUME NEW i \in DOMAIN converting, ConversionFails(i) PROVE FilesInv'
  BY <1>5, <1>c DEF ConversionFails
<1>6. CASE AppRenders
  <2>1. channel' = channel \o (Drafts(shown) \o <<Dirty(isDirty)>>) BY <1>6 DEF AppRenders, Post
  <2>2. PICK first : IsSeq(first) /\ channel' = first \o <<Dirty(isDirty)>>
    <3>1. CASE Drafts(shown) = <<>>
      <4>1. channel' = channel \o <<Dirty(isDirty)>> BY <2>1, <3>1, EmptyJoined
      <4> QED BY <4>1, <1>a
    <3>2. CASE Drafts(shown) = <<Draft(TextOf[shown])>>
      <4>1. channel' = (channel \o <<Draft(TextOf[shown])>>) \o <<Dirty(isDirty)>>
        BY <2>1, <3>2, <1>a, SeqJoined
      <4> QED BY <4>1, <1>a, SeqOfOne
    <3> QED BY <3>1, <3>2, DraftsAreOfText
  <2>3. IsSeq(channel') /\ Told(channel', panelDirty, isDirty) BY <2>2, SeqOfOne, DirtyPosted
  <2> QED BY <2>3, <1>6, <1>d DEF AppRenders
<1>7. CASE MapArrives \/ SchemasChosen
  <2>1. PICK v : channel' = channel \o Drafts(v) BY <1>7 DEF MapArrives, SchemasChosen, Post
  <2>2. view # "closed" /\ view' # "closed" /\ UNCHANGED <<panelDirty, isDirty>>
    BY <1>7 DEF MapArrives, SchemasChosen
  <2>3. Told(channel, panelDirty, isDirty) BY <2>2, <1>a
  <2>4. IsSeq(channel') /\ Told(channel', panelDirty, isDirty)
    <3>1. CASE Drafts(v) = <<>> BY <2>1, <2>3, <3>1, <1>a, SeqOfOne
    <3>2. ASSUME NEW m, Drafts(v) = <<m>>, m.kind # "dirty"
          PROVE  IsSeq(channel') /\ Told(channel', panelDirty, isDirty)
      BY <2>1, <2>3, <3>2, <1>a, SeqOfOne, OtherPosted
    <3> QED BY <3>1, <3>2, RenderedIsOther
  <2> QED BY <2>2, <2>4, <1>b DEF FilesInv
<1>8. ASSUME channel # <<>>, channel' = Tail(channel), Head(channel).kind # "dirty",
             UNCHANGED <<view, isDirty, panelDirty>>
      PROVE  FilesInv'
  <2>1. IsSeq(channel') BY <1>8, <1>a, SeqRest
  <2>2. view # "closed" => Told(channel', panelDirty, isDirty) BY <1>8, <1>a, OtherHandled
  <2> QED BY <2>1, <2>2, <1>8, <1>b DEF FilesInv
<1>9. CASE HandleDraft BY <1>9, <1>8 DEF HandleDraft, Handles
<1>10. CASE HandleDefinition BY <1>10, <1>8 DEF HandleDefinition, Handles
<1>11. CASE HandleLoaded BY <1>11, <1>8 DEF HandleLoaded, Handles
<1>12. CASE HandleDirty
  <2>1. /\ channel # <<>> /\ channel' = Tail(channel) /\ Head(channel).kind = "dirty"
        /\ panelDirty' = Head(channel).dirty /\ UNCHANGED <<view, isDirty>>
    BY <1>12 DEF HandleDirty, Handles
  <2>2. IsSeq(channel') BY <2>1, <1>a, SeqRest
  <2>3. view # "closed" => Told(channel', panelDirty', isDirty) BY <2>1, <1>a, DirtyHandled
  <2> QED BY <2>1, <2>2, <2>3, <1>b DEF FilesInv
<1>13. ASSUME NEW i \in DOMAIN writes, FileOpens(i) \/ FileWritten(i) \/ WriteFails(i) PROVE FilesInv'
  BY <1>13, <1>c DEF FileOpens, FileWritten, WriteFails
<1>14. CASE ReadMap \/ NewMap BY <1>14, <1>c DEF ReadMap, NewMap
<1>15. CASE PanelOpens
  <2>1. CASE view # "closed" BY <2>1, <1>15, <1>c DEF PanelOpens
  <2>2. CASE view = "closed"
    <3>1. /\ view' = "loading" /\ panelDirty' = FALSE /\ isDirty' = FALSE
          /\ channel' = <<Dirty(FALSE), WebviewLoaded>>
      BY <2>2, <1>15 DEF PanelOpens, FilesInv
    <3>2. IsSeq(<<>>)
      <4>1. <<>> \in Seq({}) OBVIOUS
      <4> QED BY <4>1 DEF IsSeq
    <3>3. <<Dirty(FALSE), WebviewLoaded>> = (<<>> \o <<Dirty(FALSE)>>) \o <<WebviewLoaded>>
      <4>1. <<>> \o <<Dirty(FALSE)>> = <<Dirty(FALSE)>> BY EmptyJoined
      <4>2. <<Dirty(FALSE), WebviewLoaded>> = <<Dirty(FALSE)>> \o <<WebviewLoaded>> BY PairJoined
      <4> QED BY <4>1, <4>2
    <3>4. IsSeq(<<>> \o <<Dirty(FALSE)>>) /\ Told(<<>> \o <<Dirty(FALSE)>>, FALSE, FALSE)
      BY <3>2, SeqOfOne, DirtyPosted
    <3>5. WebviewLoaded.kind # "dirty" BY DEF WebviewLoaded
    <3>6. IsSeq(channel') BY <3>1, <3>3, <3>4, SeqOfOne
    <3>7. Told(channel', FALSE, FALSE) BY <3>1, <3>3, <3>4, <3>5, OtherPosted
    <3> QED BY <3>1, <3>6, <3>7, <1>b DEF FilesInv
  <2> QED BY <2>1, <2>2
<1>16. CASE ClosePanel \/ Crash
  <2>1. view' = "closed" /\ isDirty' = FALSE /\ channel' = <<>> BY <1>16 DEF ClosePanel, Crash, Gone
  <2>2. <<>> \in Seq({}) OBVIOUS
  <2> QED BY <2>1, <2>2 DEF FilesInv, PanelIsTold, IsSeq
<1>17. CASE UNCHANGED fileVars BY <1>17, <1>c DEF fileVars
<1> QED
  BY <1>1, <1>2, <1>3, <1>4, <1>5, <1>6, <1>7, <1>9, <1>10, <1>11, <1>12, <1>13, <1>14, <1>15, <1>16, <1>17
  DEF FilesNext

(* Whatever is posted, handled, written, closed or crashed: the last word  *)
(* that _handleWebviewMsg has had, or that is on its way to it, about the  *)
(* map being dirty is isDirty of the webview's store.                      *)
THEOREM PanelIsAlwaysTold == FilesSafety => []PanelIsTold
<1>1. FilesInv => PanelIsTold BY DEF FilesInv
<1> QED BY <1>1, FilesInvHoldsAtFirst, FilesInvIsKept, PTL DEF FilesSafety

-----------------------------------------------------------------------------
(* The writes under way.                                                   *)

WriteOf(V) == [file : Files \cup {"removed"}, text : V, opened : BOOLEAN]
IsWrites(W) == \E V : W \in Seq(WriteOf(V))

(* With content in file f, the writes W leave v there.                     *)
Settles(W, content, f, v) ==
  \/ ~Holds(W, f) /\ content = v
  \/ \E i \in DOMAIN W :
       /\ W[i].file = f /\ W[i].text = v
       /\ W[i].opened => content = Broken
       /\ \A j \in DOMAIN W : W[j].file = f => j = i

(* A write that begins is the last of its file.                            *)
LEMMA WriteBegins ==
  ASSUME NEW W, IsWrites(W), NEW f \in Files, NEW v
  PROVE  LET new == W \o Writing(f, v)
         IN  /\ IsWrites(new)
             /\ ~Holds(W, f) => \A c : Settles(new, c, f, v)
             /\ \A g \in Files \ {f} : /\ Holds(new, g) <=> Holds(W, g)
                                       /\ \A c, u : Settles(W, c, g, u) => Settles(new, c, g, u)
<1> DEFINE w == [file |-> f, text |-> v, opened |-> FALSE]
           new == W \o <<w>>
<1>1. PICK V : W \in Seq(WriteOf(V))
  BY DEF IsWrites
<1>2. w \in WriteOf(V \cup {v}) /\ WriteOf(V) \subseteq WriteOf(V \cup {v})
  BY DEF WriteOf
<1> HIDE DEF w
<1>3. W \in Seq(WriteOf(V \cup {v})) /\ <<w>> \in Seq(WriteOf(V \cup {v}))
  <2>1. W \in Seq(WriteOf(V \cup {v}))
    BY <1>1, <1>2, SeqMonotonic
  <2>2. <<w>> \in Seq(WriteOf(V \cup {v}))
    BY <1>2
  <2> QED
    BY <2>1, <2>2
<1>4. /\ new \in Seq(WriteOf(V \cup {v})) /\ Len(W) \in Nat
      /\ DOMAIN W = 1..Len(W) /\ DOMAIN new = 1..Len(W) + 1
      /\ \A i \in 1..Len(W) : new[i] = W[i]
      /\ new[Len(W) + 1] = w
  BY <1>3
<1>5. w.file = f /\ w.text = v /\ w.opened = FALSE
  BY DEF w
<1> HIDE DEF new
<1>6. IsWrites(new)
  BY <1>4 DEF IsWrites
<1>7. ASSUME ~Holds(W, f), NEW c PROVE Settles(new, c, f, v)
  <2>1. \A j \in DOMAIN new : new[j].file = f => j = Len(W) + 1
    BY <1>4, <1>7 DEF Holds
  <2> QED
    BY <1>4, <1>5, <2>1 DEF Settles
<1>8. ASSUME NEW g \in Files \ {f}
      PROVE  /\ Holds(new, g) <=> Holds(W, g)
             /\ \A c, u : Settles(W, c, g, u) => Settles(new, c, g, u)
  <2>1. Holds(new, g) <=> Holds(W, g)
    BY <1>4, <1>5 DEF Holds
  <2>2. \A j \in DOMAIN new : new[j].file = g => j \in DOMAIN W
    BY <1>4, <1>5
  <2> QED
    BY <1>4, <2>1, <2>2 DEF Settles
<1>9. new = W \o Writing(f, v)
  BY DEF Writing, new, w
<1> QED
  BY <1>6, <1>7, <1>8, <1>9

(* Removing the draft leaves what the other files come to.                 *)
LEMMA DraftRemoved ==
  ASSUME NEW W, IsWrites(W)
  PROVE  /\ IsWrites(StillNamed(W))
         /\ \A g \in Files \ {"draft"} :
              /\ Holds(StillNamed(W), g) <=> Holds(W, g)
              /\ \A c, u : Settles(W, c, g, u) => Settles(StillNamed(W), c, g, u)
<1> DEFINE new == StillNamed(W)
<1>1. PICK V : W \in Seq(WriteOf(V))
  BY DEF IsWrites
<1>2. \A i \in DOMAIN W : W[i] \in WriteOf(V)
  BY <1>1
<1>3. /\ DOMAIN new = DOMAIN W
      /\ \A i \in DOMAIN W : /\ new[i] \in WriteOf(V)
                             /\ W[i].file # "draft" => new[i] = W[i]
                             /\ W[i].file = "draft" => new[i].file \in {"draft", "removed"}
  BY <1>2 DEF StillNamed, WriteOf
<1>4. new \in Seq(WriteOf(V))
  <2>1. new = [i \in 1..Len(W) |-> new[i]] /\ Len(W) \in Nat
    BY <1>1 DEF StillNamed
  <2>2. \A i \in 1..Len(W) : new[i] \in WriteOf(V)
    BY <1>1, <1>3
  <2> HIDE DEF new
  <2> QED
    BY <2>1, <2>2
<1> HIDE DEF new
<1>5. ASSUME NEW g \in Files \ {"draft"}
      PROVE  /\ Holds(new, g) <=> Holds(W, g)
             /\ \A c, u : Settles(W, c, g, u) => Settles(new, c, g, u)
  <2>1. \A i \in DOMAIN W : (W[i].file = g <=> new[i].file = g) /\ (W[i].file = g => new[i] = W[i])
    BY <1>3 DEF Files
  <2>2. Holds(new, g) <=> Holds(W, g)
    BY <1>3, <2>1 DEF Holds
  <2> QED
    BY <1>3, <2>1, <2>2 DEF Settles
<1> QED
  BY <1>4, <1>5 DEF new, IsWrites

(* A file that is opened still comes to the last of its writes.            *)
LEMMA WriteOpens ==
  ASSUME NEW W, IsWrites(W), NEW i \in DOMAIN W
  PROVE  LET new == [W EXCEPT ![i].opened = TRUE]
         IN  /\ IsWrites(new)
             /\ \A f, c, u : Settles(W, c, f, u) =>
                  Settles(new, IF W[i].file = f THEN Broken ELSE c, f, u)
<1> DEFINE new == [W EXCEPT ![i].opened = TRUE]
<1>1. PICK V : W \in Seq(WriteOf(V))
  BY DEF IsWrites
<1>2. \A j \in DOMAIN W : W[j] \in WriteOf(V)
  BY <1>1
<1>3. /\ DOMAIN new = DOMAIN W /\ \A j \in DOMAIN W : new[j] \in WriteOf(V)
      /\ \A j \in DOMAIN W : new[j].file = W[j].file /\ new[j].text = W[j].text
      /\ \A j \in DOMAIN W \ {i} : new[j] = W[j]
  BY <1>2 DEF WriteOf
<1>4. new \in Seq(WriteOf(V))
  <2>1. W = [j \in 1..Len(W) |-> W[j]] /\ Len(W) \in Nat /\ DOMAIN W = 1..Len(W)
    BY <1>1
  <2>2. new = [j \in DOMAIN W |-> new[j]]
    BY <2>1
  <2> HIDE DEF new
  <2> QED
    BY <1>3, <2>1, <2>2
<1> HIDE DEF new
<1>5. ASSUME NEW f, NEW c, NEW u, Settles(W, c, f, u)
      PROVE  Settles(new, IF W[i].file = f THEN Broken ELSE c, f, u)
  <2>1. Holds(new, f) <=> Holds(W, f)
    BY <1>3 DEF Holds
  <2>2. CASE ~Holds(W, f) /\ c = u
    BY <1>3, <2>1, <2>2 DEF Settles, Holds
  <2>3. ASSUME NEW k \in DOMAIN W, W[k].file = f, W[k].text = u, W[k].opened => c = Broken,
               \A j \in DOMAIN W : W[j].file = f => j = k
        PROVE  Settles(new, IF W[i].file = f THEN Broken ELSE c, f, u)
    BY <1>3, <2>3 DEF Settles
  <2> QED
    BY <1>5, <2>2, <2>3 DEF Settles
<1> QED
  BY <1>4, <1>5 DEF new, IsWrites

(* A write that ends brings its file to what it was coming to.             *)
LEMMA WriteEnds ==
  ASSUME NEW W, IsWrites(W), NEW i \in DOMAIN W
  PROVE  LET new == Without(W, i)
         IN  /\ IsWrites(new)
             /\ \A f, c, u : Settles(W, c, f, u) =>
                  IF W[i].file = f THEN ~Holds(new, f) /\ W[i].text = u /\ (W[i].opened => c = Broken)
                  ELSE Settles(new, c, f, u)
<1> DEFINE new == Without(W, i)
<1>1. PICK V : W \in Seq(WriteOf(V))
  BY DEF IsWrites
<1>2. Len(W) \in Nat /\ i \in 1..Len(W) /\ DOMAIN W = 1..Len(W)
  BY <1>1
<1> DEFINE before == SubSeq(W, 1, i - 1)
           after == SubSeq(W, i + 1, Len(W))
<1>3. before \in Seq(WriteOf(V)) /\ Len(before) = i - 1 /\ \A k \in 1..i - 1 : before[k] = W[k]
  BY <1>1, <1>2
<1>4. /\ after \in Seq(WriteOf(V)) /\ Len(after) = Len(W) - i
      /\ \A k \in 1..Len(W) - i : after[k] = W[i + k]
  BY <1>1, <1>2
<1>d. new = before \o after
  BY DEF Without
<1> HIDE DEF before, after, new
<1>5. /\ new \in Seq(WriteOf(V)) /\ DOMAIN new = 1..Len(W) - 1
      /\ \A k \in 1..Len(W) - 1 : new[k] = IF k < i THEN W[k] ELSE W[k + 1]
  <2>1. /\ new \in Seq(WriteOf(V)) /\ Len(new) = Len(W) - 1
        /\ \A k \in 1..Len(W) - 1 : new[k] = IF k =< i - 1 THEN before[k] ELSE after[k - (i - 1)]
    <3>1. /\ new \in Seq(WriteOf(V)) /\ Len(new) = Len(before) + Len(after)
          /\ \A k \in 1..Len(before) + Len(after) :
               new[k] = IF k =< Len(before) THEN before[k] ELSE after[k - Len(before)]
      <4>1. before \in Seq(WriteOf(V)) /\ after \in Seq(WriteOf(V))
        BY <1>3, <1>4
      <4>2. before \o after \in Seq(WriteOf(V)) /\ Len(before \o after) = Len(before) + Len(after)
        BY <4>1
      <4>3. \A k \in 1..Len(before) + Len(after) :
              (before \o after)[k] = IF k =< Len(before) THEN before[k] ELSE after[k - Len(before)]
        BY <4>1, ConcatProperties
      <4> QED
        BY <4>2, <4>3, <1>d
    <3>2. Len(before) + Len(after) = Len(W) - 1
      BY <1>2, <1>3, <1>4
    <3> QED
      BY <1>3, <3>1, <3>2
  <2>2. ASSUME NEW k \in 1..Len(W) - 1 PROVE new[k] = IF k < i THEN W[k] ELSE W[k + 1]
    <3>1. CASE k < i
      BY <1>2, <1>3, <2>1, <3>1
    <3>2. CASE ~(k < i)
      <4>1. k - (i - 1) \in 1..Len(W) - i /\ i + (k - (i - 1)) = k + 1
        BY <1>2, <3>2
      <4>2. ~(k =< i - 1) /\ k \in 1..Len(W) - 1
        BY <1>2, <3>2
      <4>3. new[k] = after[k - (i - 1)]
        BY <2>1, <4>2
      <4> QED
        BY <1>4, <3>2, <4>1, <4>3
    <3> QED
      BY <3>1, <3>2
  <2> QED
    BY <2>1, <2>2
<1>6. ASSUME NEW f, NEW c, NEW u, Settles(W, c, f, u)
      PROVE  IF W[i].file = f THEN ~Holds(new, f) /\ W[i].text = u /\ (W[i].opened => c = Broken)
             ELSE Settles(new, c, f, u)
  <2>1. CASE ~Holds(W, f) /\ c = u
    <3>1. W[i].file # f
      BY <2>1 DEF Holds
    <3>2. \A k \in DOMAIN new : k \in DOMAIN W /\ k + 1 \in DOMAIN W
      BY <1>2, <1>5
    <3>3. \A k \in DOMAIN new : new[k].file # f
      BY <1>5, <2>1, <3>2 DEF Holds
    <3> QED
      BY <2>1, <3>1, <3>3 DEF Settles, Holds
  <2>2. ASSUME NEW k \in DOMAIN W, W[k].file = f, W[k].text = u, W[k].opened => c = Broken,
               \A j \in DOMAIN W : W[j].file = f => j = k
        PROVE  IF W[i].file = f THEN ~Holds(new, f) /\ W[i].text = u /\ (W[i].opened => c = Broken)
               ELSE Settles(new, c, f, u)
    <3>1. CASE i = k
      <4>1. ~Holds(new, f)
        BY <1>2, <1>5, <2>2, <3>1 DEF Holds
      <4> QED
        BY <2>2, <3>1, <4>1
    <3>2. CASE i # k
      <4> DEFINE m == IF k < i THEN k ELSE k - 1
      <4>1. m \in DOMAIN new /\ new[m] = W[k]
        BY <1>2, <1>5, <3>2
      <4>2. ASSUME NEW j \in DOMAIN new, new[j].file = f PROVE j = m
        <5>1. CASE j < i
          <6>1. j \in DOMAIN W /\ W[j].file = f
            BY <1>2, <1>5, <4>2, <5>1
          <6> QED
            BY <2>2, <5>1, <6>1
        <5>2. CASE ~(j < i)
          <6>1. j + 1 \in DOMAIN W /\ W[j + 1].file = f
            BY <1>2, <1>5, <4>2, <5>2
          <6>2. j + 1 = k
            BY <2>2, <6>1
          <6> QED
            BY <1>2, <1>5, <5>2, <6>2
        <5> QED
          BY <5>1, <5>2
      <4>3. W[i].file # f
        BY <2>2, <3>2
      <4> HIDE DEF m
      <4> QED
        BY <2>2, <4>1, <4>2, <4>3 DEF Settles
    <3> QED
      BY <3>1, <3>2
  <2> QED
    BY <1>6, <2>1, <2>2 DEF Settles
<1> QED
  BY <1>5, <1>6 DEF new, IsWrites

-----------------------------------------------------------------------------
(* What the files come to.                                                 *)

Becomes(f, v) == f \notin disturbed => Settles(writes, disk[f], f, v)

FilesTyped ==
  /\ IsWrites(writes) /\ disk = [f \in Files |-> disk[f]]
  /\ isDirty \in BOOLEAN /\ panelDirty \in BOOLEAN

(* A draft is only posted of a map, and only ever the first of what is     *)
(* posted together; so is a definition, and it is the last one saved.  The *)
(* last draft is of the map shown, unless that cannot be converted.        *)
Orderly ==
  /\ view # "ready" => ~isDirty
  /\ drafted # None => isDirty /\ (TextOf[shown] # Throws => drafted = TextOf[shown])
  /\ view = "closed" => channel = <<>>
  /\ \A i \in DOMAIN channel :
       /\ channel[i].kind = "draft" => i = 1
       /\ channel[i].kind = "definition" => i = 1 /\ channel[i].text = lastSaved
       /\ channel[i].kind = "dirty" => channel[i].dirty \in BOOLEAN

DefinitionSettles ==
  (\A i \in DOMAIN channel : channel[i].kind # "definition") => Becomes("definition", lastSaved)

Removes(m) == m.kind = "definition" \/ (m.kind = "dirty" /\ ~m.dirty)
RemovalPosted == \E i \in DOMAIN channel : Removes(channel[i])
DraftPosted == \E i \in DOMAIN channel : channel[i].kind = "draft"

(* A removal leaves no draft; a draft that is not followed by one, and     *)
(* that the panel will write, is the last one; else nothing will change.   *)
DraftSettles ==
  view # "closed" =>
    IF RemovalPosted THEN drafted = None
    ELSE IF panelDirty /\ DraftPosted
    THEN \A i \in DOMAIN channel : channel[i].kind = "draft" => channel[i].text = drafted
    ELSE Becomes("draft", drafted)

SettlingInv == FilesInv /\ FilesTyped /\ Orderly /\ DefinitionSettles /\ DraftSettles

-----------------------------------------------------------------------------
(* Posting.                                                                *)

(* What first and DirtyEffect(b) make of an empty channel.                 *)
Together(new, first, m, b) ==
  /\ \A i \in DOMAIN new : new[i] = Dirty(b) \/ (i = 1 /\ first = <<m>> /\ new[i] = m)
  /\ first = <<m>> => 1 \in DOMAIN new /\ new[1] = m
  /\ b # isDirty => \E i \in DOMAIN new : new[i] = Dirty(b)

(* What the webview posts at once settles the draft and the flag together. *)
LEMMA PostedTogether ==
  ASSUME NEW first, NEW m, first = <<>> \/ first = <<m>>, NEW b, channel = <<>>
  PROVE  Together(channel \o (first \o DirtyEffect(b)), first, m, b)
<1> DEFINE new == channel \o (first \o DirtyEffect(b))
<1>1. CASE first = <<>> /\ b = isDirty
  <2>1. new = <<>>
    BY <1>1, EmptyJoined DEF DirtyEffect
  <2>2. Together(<<>>, first, m, b)
    BY <1>1 DEF Together
  <2> QED
    BY <2>1, <2>2
<1>2. CASE first = <<>> /\ b # isDirty
  <2>1. new = <<Dirty(b)>>
    BY <1>2, EmptyJoined DEF DirtyEffect
  <2>2. Together(<<Dirty(b)>>, first, m, b)
    BY <1>2 DEF Together
  <2> QED
    BY <2>1, <2>2
<1>3. CASE first = <<m>> /\ b = isDirty
  <2>1. new = <<m>>
    BY <1>3, EmptyJoined DEF DirtyEffect
  <2>2. Together(<<m>>, first, m, b)
    BY <1>3 DEF Together
  <2> QED
    BY <2>1, <2>2
<1>4. CASE first = <<m>> /\ b # isDirty
  <2>1. new = <<m, Dirty(b)>>
    <3>1. first \o DirtyEffect(b) = <<m, Dirty(b)>>
      BY <1>4, PairJoined DEF DirtyEffect
    <3>2. <<>> \o <<m, Dirty(b)>> = <<m, Dirty(b)>>
      OBVIOUS
    <3> QED
      BY <3>1, <3>2
  <2>2. Together(<<m, Dirty(b)>>, first, m, b)
    BY <1>4 DEF Together
  <2> QED
    BY <2>1, <2>2
<1> QED
  BY <1>1, <1>2, <1>3, <1>4

(* Nothing is posted before the panel has handled what there was.          *)
LEMMA EmptyChannel ==
  ASSUME SettlingInv, channel = <<>>, view # "closed"
  PROVE  /\ panelDirty = isDirty
         /\ Becomes("definition", lastSaved)
         /\ Becomes("draft", drafted)
<1>1. DOMAIN channel = {}
  OBVIOUS
<1>2. panelDirty = isDirty
  BY <1>1, ToldIsPanelIsTold DEF SettlingInv, FilesInv, Told
<1> QED
  BY <1>1, <1>2 DEF SettlingInv, DefinitionSettles, DraftSettles, RemovalPosted, DraftPosted

Standing == UNCHANGED <<writes, disk, disturbed, panelDirty>>

(* The map is edited, discarded or rendered: the draft of v, if it can be  *)
(* converted, and the effect.                                              *)
LEMMA DraftIsPosted ==
  ASSUME SettlingInv, FilesInv', Standing, channel = <<>>, view # "closed", view' = "ready",
         lastSaved' = lastSaved,
         NEW v, shown' = v, NEW b \in BOOLEAN, isDirty' = b,
         NEW drafts, drafts = Drafts(v) \/ (drafts = <<>> /\ v = shown),
         Together(channel', drafts, Draft(TextOf[v]), b),
         drafted' = IF b = isDirty THEN Drafted(isDirty, drafts) ELSE None
  PROVE  SettlingInv'
<1> DEFINE text == TextOf[v]
           m == Draft(text)
<1>1. /\ \A i \in DOMAIN channel' : channel'[i] = Dirty(b) \/ (i = 1 /\ drafts = <<m>> /\ channel'[i] = m)
      /\ drafts = <<m>> => 1 \in DOMAIN channel' /\ channel'[1] = m
      /\ b # isDirty => \E i \in DOMAIN channel' : channel'[i] = Dirty(b)
  BY DEF Together
<1>2. /\ m.kind = "draft" /\ m.text = text
      /\ Dirty(b).kind = "dirty" /\ Dirty(b).dirty = b
  BY DEF Draft, Dirty
<1>3. drafts = <<m>> \/ (drafts = <<>> /\ (v = shown \/ text = Throws))
  BY DraftsAreOfText
<1>4. isDirty \in BOOLEAN /\ (drafted # None => isDirty /\ (TextOf[shown] # Throws => drafted = TextOf[shown]))
  BY DEF SettlingInv, FilesTyped, Orderly
<1>5. drafted' = IF ~(b /\ isDirty) THEN None ELSE IF drafts = <<m>> THEN text ELSE drafted
  <2>1. <<m>> # <<>> /\ Head(<<m>>) = m
    OBVIOUS
  <2>2. drafts = <<m>> => Head(drafts).text = text
    BY <1>2, <2>1
  <2> HIDE DEF m, text
  <2> QED
    BY <1>3, <1>4, <2>1, <2>2 DEF Drafted
<1> HIDE DEF m
<1>6. FilesTyped'
  BY DEF SettlingInv, FilesTyped, Standing
<1>7. Orderly'
  <2>1. drafted' # None => isDirty' /\ (TextOf[shown'] # Throws => drafted' = TextOf[shown'])
    BY <1>3, <1>4, <1>5
  <2> QED
    BY <1>1, <1>2, <2>1 DEF Orderly
<1>8. DefinitionSettles'
  <2>1. Becomes("definition", lastSaved)
    BY EmptyChannel
  <2> QED
    BY <2>1 DEF DefinitionSettles, Becomes, Standing
<1>9. DraftSettles'
  <2>1. CASE RemovalPosted'
    <3>1. ~b
      BY <1>1, <1>2, <2>1 DEF RemovalPosted, Removes
    <3> QED
      BY <1>5, <2>1, <3>1 DEF DraftSettles
  <2>2. CASE ~RemovalPosted' /\ panelDirty' /\ DraftPosted'
    <3>1. isDirty /\ drafts = <<m>>
      BY <1>1, <1>2, <2>2, EmptyChannel DEF DraftPosted, Standing
    <3>2. b
      BY <1>1, <1>2, <1>4, <2>2, <3>1 DEF RemovalPosted, Removes
    <3>3. drafted' = text
      BY <1>5, <3>1, <3>2
    <3> QED
      BY <1>1, <1>2, <2>2, <3>3 DEF DraftSettles
  <2>3. CASE ~RemovalPosted' /\ ~(panelDirty' /\ DraftPosted')
    <3>1. drafted' = drafted
      <4>1. CASE isDirty
        <5>1. drafts # <<m>>
          BY <1>1, <1>2, <2>3, <4>1, EmptyChannel DEF DraftPosted, Standing
        <5>2. b
          BY <1>1, <1>2, <2>3, <4>1 DEF RemovalPosted, Removes
        <5> QED
          BY <1>5, <4>1, <5>1, <5>2
      <4>2. CASE ~isDirty
        BY <1>4, <1>5, <4>2
      <4> QED
        BY <4>1, <4>2
    <3>2. Becomes("draft", drafted')
      BY <3>1, EmptyChannel
    <3> QED
      BY <2>3, <3>2 DEF DraftSettles, Becomes, Standing
  <2> QED
    BY <2>1, <2>2, <2>3
<1> QED
  BY <1>6, <1>7, <1>8, <1>9 DEF SettlingInv

(* onSaveClick's files are written: the definition, and the map is clean.  *)
LEMMA DefinitionIsPosted ==
  ASSUME SettlingInv, FilesInv', Standing, channel = <<>>, view = "ready", view' = "ready",
         isDirty' = FALSE, drafted' = None,
         channel' = channel \o (<<Definition(lastSaved')>> \o DirtyEffect(FALSE))
  PROVE  SettlingInv'
<1> DEFINE m == Definition(lastSaved')
<1>1. /\ \A i \in DOMAIN channel' : channel'[i] = Dirty(FALSE) \/ (i = 1 /\ channel'[i] = m)
      /\ 1 \in DOMAIN channel' /\ channel'[1] = m
  <2>1. Together(channel', <<m>>, m, FALSE)
    BY PostedTogether
  <2> QED
    BY <2>1 DEF Together
<1>2. /\ m.kind = "definition" /\ m.text = lastSaved'
      /\ Dirty(FALSE).kind = "dirty" /\ Dirty(FALSE).dirty = FALSE
  BY DEF Definition, Dirty
<1> HIDE DEF m
<1>3. FilesTyped'
  BY DEF SettlingInv, FilesTyped, Standing
<1>4. Orderly'
  BY <1>1, <1>2 DEF Orderly
<1>5. DefinitionSettles'
  BY <1>1, <1>2 DEF DefinitionSettles
<1>6. DraftSettles'
  BY <1>1, <1>2 DEF DraftSettles, RemovalPosted, Removes
<1> QED
  BY <1>3, <1>4, <1>5, <1>6 DEF SettlingInv

-----------------------------------------------------------------------------
(* Handling.                                                               *)

(* What follows the first message is neither draft nor definition.         *)
LEMMA RestIsOrderly ==
  ASSUME SettlingInv, channel # <<>>, channel' = Tail(channel),
         UNCHANGED <<view, isDirty, drafted, lastSaved, shown>>
  PROVE  /\ Orderly' /\ ~DraftPosted' /\ \A i \in DOMAIN channel' : channel'[i].kind # "definition"
         /\ view # "closed" /\ 1 \in DOMAIN channel /\ Head(channel) = channel[1]
         /\ RemovalPosted <=> Removes(Head(channel)) \/ RemovalPosted'
         /\ DraftPosted <=> Head(channel).kind = "draft"
<1>1. /\ Len(channel) \in Nat \ {0} /\ DOMAIN channel = 1..Len(channel)
      /\ DOMAIN channel' = 1..Len(channel) - 1 /\ Head(channel) = channel[1]
      /\ \A i \in 1..Len(channel) - 1 : channel'[i] = channel[i + 1]
  BY SeqRest DEF SettlingInv, FilesInv
<1>2. \A i \in DOMAIN channel' : i + 1 \in DOMAIN channel /\ i + 1 # 1 /\ channel'[i] = channel[i + 1]
  BY <1>1
<1>3. \A i \in DOMAIN channel : i = 1 \/ (i - 1 \in DOMAIN channel' /\ channel'[i - 1] = channel[i])
  BY <1>1
<1>4. \A i \in DOMAIN channel' : channel'[i].kind \notin {"draft", "definition"}
  BY <1>2 DEF SettlingInv, Orderly
<1>5. Orderly'
  BY <1>2, <1>4 DEF SettlingInv, Orderly
<1>6. RemovalPosted <=> Removes(channel[1]) \/ RemovalPosted'
  BY <1>1, <1>2, <1>3 DEF RemovalPosted
<1>7. DraftPosted <=> channel[1].kind = "draft"
  BY <1>1 DEF DraftPosted, SettlingInv, Orderly
<1> QED
  BY <1>1, <1>4, <1>5, <1>6, <1>7 DEF DraftPosted, SettlingInv, Orderly

(* A removal of the draft, with whatever is written besides.               *)
LEMMA RemovalLeavesNone ==
  ASSUME NEW W, NEW F, "draft" \in F, disturbed' = Begun(F, W),
         Holds(writes', "draft") <=> Holds(W, "draft"), disk'["draft"] = None
  PROVE  "draft" \notin disturbed' => Settles(writes', disk'["draft"], "draft", None)
  BY DEF Begun, Settles, Files

(* Handling a message keeps the invariant: what it writes or removes is    *)
(* what the message stood for.                                             *)
LEMMA HandlingKeeps ==
  ASSUME SettlingInv, FilesInv', HandleDraft \/ HandleDirty \/ HandleDefinition \/ HandleLoaded
  PROVE  SettlingInv'
<1> USE DEF SettlingInv, FilesTyped
<1>1. /\ channel # <<>> /\ channel' = Tail(channel)
      /\ UNCHANGED <<view, isDirty, drafted, lastSaved, shown>>
  BY DEF HandleDraft, HandleDirty, HandleDefinition, HandleLoaded, Handles, session, history
<1>2. /\ Orderly' /\ ~DraftPosted' /\ \A i \in DOMAIN channel' : channel'[i].kind # "definition"
      /\ view # "closed" /\ 1 \in DOMAIN channel /\ Head(channel) = channel[1]
      /\ RemovalPosted <=> Removes(Head(channel)) \/ RemovalPosted'
      /\ DraftPosted <=> Head(channel).kind = "draft"
  BY <1>1, RestIsOrderly
<1>3. Head(channel).kind # "definition" =>
        Becomes("definition", lastSaved)
  BY <1>2 DEF DefinitionSettles, Orderly
<1>4. "draft" \in Files /\ "definition" \in Files /\ "draft" # "definition"
  BY DEF Files
<1>5. CASE HandleDraft
  <2> DEFINE v == Head(channel).text
  <2>1. Head(channel).kind = "draft" /\ panelDirty' = panelDirty /\ disk' = disk
    BY <1>5 DEF HandleDraft, Handles, panel
  <2>2. ~Removes(Head(channel))
    BY <2>1 DEF Removes
  <2>3. CASE panelDirty
    <3>1. writes' = writes \o Writing("draft", v) /\ disturbed' = Begun({"draft"}, writes)
      BY <1>5, <2>3 DEF HandleDraft
    <3>2. /\ IsWrites(writes')
          /\ ~Holds(writes, "draft") => \A c : Settles(writes', c, "draft", v)
          /\ \A c, u : Settles(writes, c, "definition", u) => Settles(writes', c, "definition", u)
      BY <1>4, <3>1, WriteBegins
    <3>3. FilesTyped'
      BY <1>1, <2>1, <3>2
    <3>4. DefinitionSettles'
      BY <1>1, <1>3, <1>4, <2>1, <3>1, <3>2 DEF DefinitionSettles, Becomes, Begun
    <3>5. DraftSettles'
      <4>1. CASE RemovalPosted'
        BY <1>1, <1>2, <4>1 DEF DraftSettles
      <4>2. CASE ~RemovalPosted'
        <5>1. v = drafted
          BY <1>2, <2>1, <2>2, <2>3, <4>2 DEF DraftSettles
        <5>2. "draft" \notin disturbed' => Settles(writes', disk'["draft"], "draft", v)
          BY <3>1, <3>2 DEF Begun
        <5> QED
          BY <1>1, <1>2, <4>2, <5>1, <5>2 DEF DraftSettles, Becomes
      <4> QED
        BY <4>1, <4>2
    <3> QED
      BY <1>2, <3>3, <3>4, <3>5
  <2>4. CASE ~panelDirty
    <3>1. UNCHANGED <<writes, disturbed, disk, panelDirty>>
      BY <1>5, <2>1, <2>4 DEF HandleDraft
    <3>2. FilesTyped'
      BY <1>1, <3>1
    <3>3. DefinitionSettles'
      BY <1>1, <1>3, <2>1, <3>1 DEF DefinitionSettles, Becomes
    <3>4. DraftSettles'
      BY <1>1, <1>2, <2>2, <2>4, <3>1 DEF DraftSettles, Becomes
    <3> QED
      BY <1>2, <3>2, <3>3, <3>4
  <2> QED
    BY <2>3, <2>4
<1>6. CASE HandleDirty
  <2>1. Head(channel).kind = "dirty" /\ panelDirty' = Head(channel).dirty /\ panelDirty' \in BOOLEAN
    BY <1>2, <1>6 DEF HandleDirty, Handles, Orderly
  <2>2. CASE panelDirty'
    <3>1. UNCHANGED <<writes, disturbed, disk>> /\ ~Removes(Head(channel)) /\ ~DraftPosted
      BY <1>2, <1>6, <2>1, <2>2 DEF HandleDirty, Removes
    <3>2. FilesTyped'
      BY <1>1, <2>1, <3>1
    <3>3. DefinitionSettles'
      BY <1>1, <1>3, <2>1, <3>1 DEF DefinitionSettles, Becomes
    <3>4. DraftSettles'
      BY <1>1, <1>2, <3>1 DEF DraftSettles, Becomes
    <3> QED
      BY <1>2, <3>2, <3>3, <3>4
  <2>3. CASE ~panelDirty'
    <3>1. /\ writes' = StillNamed(writes) /\ disk' = [disk EXCEPT !["draft"] = None]
          /\ disturbed' = Begun({"draft"}, StillNamed(writes)) /\ Removes(Head(channel))
      BY <1>6, <2>1, <2>3 DEF HandleDirty, Removes
    <3>2. /\ IsWrites(writes')
          /\ \A c, u : Settles(writes, c, "definition", u) => Settles(writes', c, "definition", u)
      BY <1>4, <3>1, DraftRemoved
    <3>3. /\ disk' = [f \in Files |-> disk'[f]]
          /\ disk'["draft"] = None /\ disk'["definition"] = disk["definition"]
      BY <1>4, <3>1
    <3>4. FilesTyped'
      BY <1>1, <2>1, <3>2, <3>3
    <3>5. DefinitionSettles'
      BY <1>1, <1>3, <1>4, <2>1, <3>1, <3>2, <3>3 DEF DefinitionSettles, Becomes, Begun
    <3>6. "draft" \notin disturbed' => Settles(writes', disk'["draft"], "draft", None)
      BY <3>1, <3>3, RemovalLeavesNone
    <3>7. DraftSettles'
      BY <1>1, <1>2, <3>1, <3>6 DEF DraftSettles, Becomes
    <3> QED
      BY <1>2, <3>4, <3>5, <3>7
  <2> QED
    BY <2>2, <2>3
<1>7. CASE HandleDefinition
  <2> DEFINE v == Head(channel).text
             W == StillNamed(writes)
  <2>1. /\ Head(channel).kind = "definition" /\ v = lastSaved /\ panelDirty' = panelDirty
        /\ writes' = W \o Writing("definition", v) /\ disk' = [disk EXCEPT !["draft"] = None]
        /\ disturbed' = Begun({"draft", "definition"}, W) /\ Removes(Head(channel))
    BY <1>2, <1>7 DEF HandleDefinition, Handles, Removes, Orderly, panel
  <2>2. IsWrites(W)
    BY DraftRemoved
  <2> HIDE DEF W, v
  <2>3. /\ IsWrites(writes') /\ (Holds(writes', "draft") <=> Holds(W, "draft"))
        /\ ~Holds(W, "definition") => \A c : Settles(writes', c, "definition", v)
    BY <1>4, <2>1, <2>2, WriteBegins
  <2>4. /\ disk' = [f \in Files |-> disk'[f]] /\ disk'["draft"] = None
    BY <1>4, <2>1
  <2>5. FilesTyped'
    BY <1>1, <2>1, <2>3, <2>4
  <2>6. DefinitionSettles'
    BY <1>1, <1>4, <2>1, <2>3 DEF DefinitionSettles, Becomes, Begun
  <2>7. "draft" \notin disturbed' => Settles(writes', disk'["draft"], "draft", None)
    BY <2>1, <2>3, <2>4, RemovalLeavesNone
  <2>8. DraftSettles'
    BY <1>1, <1>2, <2>1, <2>7 DEF DraftSettles, Becomes
  <2> QED
    BY <1>2, <2>5, <2>6, <2>8
<1>8. CASE HandleLoaded
  <2>1. /\ Head(channel).kind = "loaded"
        /\ UNCHANGED <<writes, disturbed, disk, panelDirty>>
    BY <1>8 DEF HandleLoaded, Handles, files, history
  <2>2. ~Removes(Head(channel)) /\ ~DraftPosted
    BY <1>2, <2>1 DEF Removes
  <2>3. FilesTyped'
    BY <1>1, <2>1
  <2>4. DefinitionSettles'
    BY <1>1, <1>3, <2>1 DEF DefinitionSettles, Becomes
  <2>5. DraftSettles'
    BY <1>1, <1>2, <2>1, <2>2 DEF DraftSettles, Becomes
  <2> QED
    BY <1>2, <2>3, <2>4, <2>5
<1> QED
  BY <1>5, <1>6, <1>7, <1>8

-----------------------------------------------------------------------------
(* The file system.                                                        *)

(* A file that is not disturbed comes to the same before and after one of  *)
(* its writes goes on.                                                     *)
LEMMA WritesGoOn ==
  ASSUME FilesTyped, NEW i \in DOMAIN writes, FileOpens(i) \/ FileWritten(i) \/ WriteFails(i),
         NEW f \in Files, NEW v, Becomes(f, v)
  PROVE  f \notin disturbed' => Settles(writes', disk'[f], f, v)
<1> SUFFICES ASSUME f \notin disturbed' PROVE Settles(writes', disk'[f], f, v)
  OBVIOUS
<1> USE DEF FilesTyped
<1>1. Settles(writes, disk[f], f, v)
  BY DEF FileOpens, FileWritten, WriteFails, history, Becomes
<1>2. CASE FileOpens(i)
  <2>1. Settles(writes', IF writes[i].file = f THEN Broken ELSE disk[f], f, v)
    BY <1>1, <1>2, WriteOpens DEF FileOpens
  <2>2. disk'[f] = IF writes[i].file = f THEN Broken ELSE disk[f]
    BY <1>2 DEF FileOpens
  <2> QED
    BY <2>1, <2>2
<1>3. CASE FileWritten(i)
  <2>1. IF writes[i].file = f THEN ~Holds(writes', f) /\ writes[i].text = v /\ (writes[i].opened => disk[f] = Broken)
        ELSE Settles(writes', disk[f], f, v)
    BY <1>1, <1>3, WriteEnds DEF FileWritten
  <2>2. CASE writes[i].file = f
    <3>1. disk[f] = Broken /\ f # "removed"
      BY <1>3, <2>1, <2>2 DEF FileWritten, Files
    <3>2. disk'[f] = v
      BY <1>3, <2>1, <2>2, <3>1 DEF FileWritten
    <3> QED
      BY <2>1, <2>2, <3>2 DEF Settles
  <2>3. CASE writes[i].file # f
    <3>1. disk'[f] = disk[f]
      BY <1>3, <2>3 DEF FileWritten
    <3> QED
      BY <2>1, <2>3, <3>1
  <2> QED
    BY <2>2, <2>3
<1>4. CASE WriteFails(i)
  <2>1. writes[i].file # f /\ disk' = disk
    BY <1>4 DEF WriteFails
  <2>2. Settles(writes', disk[f], f, v)
    BY <1>1, <1>4, <2>1, WriteEnds DEF WriteFails
  <2> QED
    BY <2>1, <2>2
<1> QED
  BY <1>2, <1>3, <1>4

(* So do the steps of the file system.                                     *)
LEMMA FileSystemKeeps ==
  ASSUME SettlingInv, FilesInv', NEW i \in DOMAIN writes, FileOpens(i) \/ FileWritten(i) \/ WriteFails(i)
  PROVE  SettlingInv'
<1>1. UNCHANGED <<view, isDirty, shown, drafted, lastSaved, channel, panelDirty>>
  BY DEF FileOpens, FileWritten, WriteFails, session, panel, history
<1>2. FilesTyped'
  <2>1. IsWrites(writes')
    BY WriteOpens, WriteEnds DEF FileOpens, FileWritten, WriteFails, SettlingInv, FilesTyped
  <2>2. disk' = [f \in Files |-> disk'[f]]
    <3>1. disk = [f \in Files |-> disk[f]]
      BY DEF SettlingInv, FilesTyped
    <3>2. \/ disk' = disk \/ \E c : disk' = [disk EXCEPT ![writes[i].file] = c]
      BY DEF FileOpens, FileWritten, WriteFails
    <3> QED
      BY <3>1, <3>2
  <2> QED
    BY <1>1, <2>1, <2>2 DEF SettlingInv, FilesTyped
<1>3. Orderly'
  BY <1>1 DEF SettlingInv, Orderly
<1>4. DefinitionSettles'
  <2>1. Becomes("definition", lastSaved) =>
          ("definition" \notin disturbed' => Settles(writes', disk'["definition"], "definition", lastSaved))
    BY WritesGoOn DEF SettlingInv, Files
  <2> QED
    BY <1>1, <2>1 DEF SettlingInv, DefinitionSettles, Becomes
<1>5. DraftSettles'
  <2> DEFINE v == drafted
  <2>1. Becomes("draft", v) =>
          ("draft" \notin disturbed' => Settles(writes', disk'["draft"], "draft", v))
    BY WritesGoOn DEF SettlingInv, Files
  <2>2. v' = v /\ (RemovalPosted' <=> RemovalPosted) /\ (DraftPosted' <=> DraftPosted)
    BY <1>1 DEF RemovalPosted, DraftPosted
  <2> QED
    BY <1>1, <2>1, <2>2 DEF SettlingInv, DraftSettles, Becomes
<1> QED
  BY <1>2, <1>3, <1>4, <1>5 DEF SettlingInv

-----------------------------------------------------------------------------
(* Opening, closing, crashing.                                             *)

(* A panel that opens keeps the invariant: its first effect says that      *)
(* nothing is dirty, and there is no draft to follow.                      *)
LEMMA OpeningKeeps ==
  ASSUME SettlingInv, FilesInv', PanelOpens, view = "closed"
  PROVE  SettlingInv'
<1>1. /\ view' = "loading" /\ panelDirty' = FALSE /\ ~isDirty /\ drafted = None
      /\ channel = <<>> /\ channel' = <<Dirty(FALSE), WebviewLoaded>>
      /\ UNCHANGED <<isDirty, drafted, lastSaved, writes, disk, disturbed>>
  BY DEF PanelOpens, SettlingInv, Orderly, FilesTyped, files, history
<1>2. /\ DOMAIN channel' = {1, 2} /\ channel'[1] = Dirty(FALSE) /\ channel'[2] = WebviewLoaded
      /\ Dirty(FALSE).kind = "dirty" /\ Dirty(FALSE).dirty = FALSE /\ WebviewLoaded.kind = "loaded"
  BY <1>1 DEF Dirty, WebviewLoaded
<1>3. FilesTyped' /\ Orderly'
  BY <1>1, <1>2 DEF SettlingInv, FilesTyped, Orderly
<1>4. DefinitionSettles'
  BY <1>1 DEF SettlingInv, DefinitionSettles, Becomes
<1>5. DraftSettles'
  BY <1>1, <1>2 DEF DraftSettles, RemovalPosted, Removes
<1> QED
  BY <1>3, <1>4, <1>5 DEF SettlingInv

(* Closing the panel and the end of the host keep it: what was under way   *)
(* may be lost, and is then disturbed.                                     *)
LEMMA ClosingKeeps ==
  ASSUME SettlingInv, FilesInv', ClosePanel \/ Crash
  PROVE  SettlingInv'
<1>1. /\ view' = "closed" /\ isDirty' = FALSE /\ drafted' = None /\ channel' = <<>>
      /\ UNCHANGED <<lastSaved, disk>>
  BY DEF ClosePanel, Crash, Gone, files
<1>2. \A i \in DOMAIN channel : channel[i].kind = "definition" => "definition" \in disturbed'
  BY DEF ClosePanel, Crash, Posted, Files
<1>3. FilesTyped'
  <2>1. <<>> \in Seq(WriteOf({}))
    OBVIOUS
  <2> QED
    BY <1>1, <2>1 DEF ClosePanel, Crash, panel, files, SettlingInv, FilesTyped, IsWrites
<1>4. Orderly' /\ DraftSettles'
  BY <1>1 DEF Orderly, DraftSettles
<1>5. DefinitionSettles'
  <2>1. SUFFICES ASSUME "definition" \notin disturbed'
                 PROVE  Settles(writes', disk'["definition"], "definition", lastSaved')
    BY DEF DefinitionSettles, Becomes
  <2>2. Becomes("definition", lastSaved) /\ "definition" \notin disturbed
    BY <1>2, <2>1 DEF SettlingInv, DefinitionSettles, ClosePanel, Crash
  <2>3. CASE ClosePanel
    BY <1>1, <2>2, <2>3 DEF ClosePanel, files, Becomes
  <2>4. CASE Crash
    <3>1. ~Holds(writes, "definition") /\ writes' = <<>>
      BY <2>1, <2>4 DEF Crash, Files
    <3> QED
      BY <1>1, <2>2, <3>1 DEF Becomes, Settles, Holds
  <2> QED
    BY <2>3, <2>4
<1> QED
  BY <1>3, <1>4, <1>5 DEF SettlingInv

-----------------------------------------------------------------------------

(* Before anything is opened all is settled.                               *)
LEMMA SettlingHoldsAtFirst == FilesInit => SettlingInv
<1> SUFFICES ASSUME FilesInit PROVE SettlingInv
  OBVIOUS
<1>1. <<>> \in Seq(WriteOf({}))
  OBVIOUS
<1>2. /\ FilesTyped /\ Orderly /\ DraftSettles
  <2>1. IsWrites(writes)
    BY <1>1 DEF FilesInit, IsWrites
  <2>2. disk = [f \in Files |-> disk[f]]
    BY DEF FilesInit
  <2>3. Orderly /\ DraftSettles
    BY DEF FilesInit, Orderly, DraftSettles
  <2> QED
    BY <2>1, <2>2, <2>3 DEF FilesInit, FilesTyped
<1>3. DefinitionSettles
  BY DEF FilesInit, DefinitionSettles, Becomes, Settles, Holds, Files
<1> QED
  BY <1>2, <1>3, FilesInvHoldsAtFirst DEF SettlingInv

(* Every step keeps the invariant.                                         *)
LEMMA SettlingIsKept == SettlingInv /\ [FilesNext]_fileVars => SettlingInv'
<1> SUFFICES ASSUME SettlingInv, [FilesNext]_fileVars PROVE SettlingInv'
  OBVIOUS
<1> USE DEF session, panel, files, history
<1>a. FilesInv'
  BY FilesInvIsKept DEF SettlingInv
<1>b. ASSUME UNCHANGED <<view, isDirty, shown, drafted, lastSaved, channel, panelDirty, writes, disk, disturbed>>
      PROVE  SettlingInv'
  BY <1>a, <1>b DEF SettlingInv, FilesTyped, Orderly, DefinitionSettles, DraftSettles,
                    RemovalPosted, DraftPosted, Becomes
<1>c. isDirty \in BOOLEAN /\ (drafted # None => isDirty) /\ (view # "ready" => ~isDirty)
  BY DEF SettlingInv, FilesTyped, Orderly
<1>1. ASSUME NEW v \in Versions, Edit(v) PROVE SettlingInv'
  <2>1. PICK drafts \in Rendered(v) : /\ channel = <<>> /\ channel' = channel \o (drafts \o DirtyEffect(TRUE))
                                      /\ drafted' = Drafted(isDirty, drafts)
    BY <1>1 DEF Edit, Post
  <2>2. drafts = Drafts(v) \/ (drafts = <<>> /\ v = shown)
    BY <2>1 DEF Rendered
  <2>3. /\ Standing /\ view # "closed" /\ view' = "ready" /\ lastSaved' = lastSaved
        /\ shown' = v /\ isDirty' = TRUE
    BY <1>1 DEF Edit, Ready, Standing
  <2>4. Together(channel', drafts, Draft(TextOf[v]), TRUE)
    BY <2>1, <2>2, DraftsAreOfText, PostedTogether
  <2>5. drafted' = IF TRUE = isDirty THEN Drafted(isDirty, drafts) ELSE None
    BY <1>c, <2>1 DEF Drafted
  <2> QED
    BY <1>a, <2>1, <2>2, <2>3, <2>4, <2>5, DraftIsPosted
<1>2. CASE Discard
  <2>1. PICK drafts \in Rendered(pristine) :
          channel = <<>> /\ channel' = channel \o (drafts \o DirtyEffect(FALSE))
    BY <1>2 DEF Discard, Post
  <2>2. drafts = Drafts(pristine) \/ (drafts = <<>> /\ pristine = shown)
    BY <2>1 DEF Rendered
  <2>3. /\ Standing /\ view # "closed" /\ view' = "ready" /\ lastSaved' = lastSaved
        /\ shown' = pristine /\ isDirty' = FALSE /\ drafted' = None /\ FALSE # isDirty
    BY <1>2 DEF Discard, Ready, Standing
  <2>4. Together(channel', drafts, Draft(TextOf[pristine]), FALSE)
    BY <2>1, <2>2, DraftsAreOfText, PostedTogether
  <2> QED
    BY <1>a, <2>1, <2>2, <2>3, <2>4, DraftIsPosted
<1>3. ASSUME NEW i \in DOMAIN converting, Converted(i) PROVE SettlingInv'
  BY <1>a, <1>3, DefinitionIsPosted DEF Converted, Post, Ready, Standing
<1>4. CASE AppRenders
  <2>1. channel = <<>> /\ channel' = channel \o (Drafts(shown) \o <<Dirty(isDirty)>>)
    BY <1>4 DEF AppRenders, Post
  <2>2. /\ Standing /\ view # "closed" /\ view' = "ready" /\ lastSaved' = lastSaved
        /\ shown' = shown /\ isDirty' = isDirty /\ drafted' = Drafted(isDirty, Drafts(shown))
    BY <1>4 DEF AppRenders, Ready, Standing
  <2>3. Together(channel', Drafts(shown), Draft(TextOf[shown]), isDirty)
    <3>1. CASE Drafts(shown) = <<>>
      <4>1. channel' = <<Dirty(isDirty)>>
        BY <2>1, <3>1, EmptyJoined
      <4> QED
        BY <3>1, <4>1 DEF Together
    <3>2. CASE Drafts(shown) = <<Draft(TextOf[shown])>>
      <4>1. channel' = <<Draft(TextOf[shown]), Dirty(isDirty)>>
        <5>1. <<>> \o <<Draft(TextOf[shown]), Dirty(isDirty)>> = <<Draft(TextOf[shown]), Dirty(isDirty)>>
          OBVIOUS
        <5> QED
          BY <2>1, <3>2, <5>1, PairJoined
      <4> QED
        BY <3>2, <4>1 DEF Together
    <3> QED
      BY <3>1, <3>2, DraftsAreOfText
  <2> QED
    BY <1>a, <1>c, <2>1, <2>2, <2>3, DraftIsPosted
<1>5. CASE MapArrives \/ SchemasChosen
  <2>1. PICK v : /\ channel = <<>> /\ channel' = channel \o Drafts(v) /\ shown' = v
                 /\ drafted' = Drafted(isDirty, Drafts(v))
    <3>1. CASE MapArrives
      BY <3>1 DEF MapArrives, Post
    <3>2. CASE SchemasChosen
      <4>1. drafted' = Drafted(isDirty, Drafts(Blank))
        BY <1>c, <3>2 DEF SchemasChosen, Drafted
      <4> QED
        BY <3>2, <4>1 DEF SchemasChosen, Post
    <3> QED
      BY <1>5, <3>1, <3>2
  <2>2. /\ Standing /\ view # "closed" /\ view' = "ready" /\ lastSaved' = lastSaved /\ isDirty' = isDirty
    BY <1>5 DEF MapArrives, SchemasChosen, Standing
  <2>3. channel' = channel \o (Drafts(v) \o DirtyEffect(isDirty))
    BY <2>1, DraftsAreOfText, EmptyJoined DEF DirtyEffect
  <2>4. Together(channel', Drafts(v), Draft(TextOf[v]), isDirty)
    BY <2>1, <2>3, DraftsAreOfText, PostedTogether
  <2> QED
    BY <1>a, <1>c, <2>1, <2>2, <2>4, DraftIsPosted
<1>6. CASE HandleDraft \/ HandleDirty \/ HandleDefinition \/ HandleLoaded
  BY <1>a, <1>6, HandlingKeeps
<1>7. ASSUME NEW i \in DOMAIN writes, FileOpens(i) \/ FileWritten(i) \/ WriteFails(i) PROVE SettlingInv'
  BY <1>a, <1>7, FileSystemKeeps
<1>8. CASE PanelOpens
  <2>1. CASE view = "closed"
    BY <1>a, <1>8, <2>1, OpeningKeeps
  <2>2. CASE view # "closed"
    BY <1>8, <1>b, <2>2 DEF PanelOpens
  <2> QED
    BY <2>1, <2>2
<1>9. CASE ClosePanel \/ Crash
  BY <1>a, <1>9, ClosingKeeps
<1>10. CASE SaveClick \/ (\E i \in DOMAIN converting : ConversionFails(i)) \/ ReadMap \/ NewMap
  BY <1>10, <1>b DEF SaveClick, ConversionFails, ReadMap, NewMap
<1>11. CASE UNCHANGED fileVars
  BY <1>11, <1>b DEF fileVars
<1> QED
  BY <1>1, <1>2, <1>3, <1>4, <1>5, <1>6, <1>7, <1>8, <1>9, <1>10, <1>11 DEF FilesNext

(* What the files come to, once the channel and the writes are empty, is   *)
(* always what the webview was told and showed.                            *)
THEOREM SettlingInvariant == FilesSafety => []SettlingInv
<1> QED
  BY SettlingHoldsAtFirst, SettlingIsKept, PTL DEF FilesSafety

(* With no message and no write under way the definition file holds the    *)
(* text saved last, whatever was closed, opened again or crashed, if the   *)
(* operations on the file met no other and none failed: saveDataMap and    *)
(* what the webview posts in its save effect.                              *)
THEOREM DefinitionIsAlwaysLastSave == FilesSafety => []DefinitionIsLastSave
<1>1. SettlingInv => DefinitionIsLastSave
  <2> SUFFICES ASSUME SettlingInv, channel = <<>>, writes = <<>>, "definition" \notin disturbed
               PROVE  disk["definition"] = lastSaved
    BY DEF DefinitionIsLastSave, Quiet
  <2>1. Settles(writes, disk["definition"], "definition", lastSaved)
    BY DEF SettlingInv, DefinitionSettles, Becomes
  <2> QED
    BY <2>1 DEF Settles
<1> QED
  BY <1>1, SettlingInvariant, PTL

(* With no message and no write under way the draft file holds the text of *)
(* the map shown, or of the last one before it that convertToMapDefinition *)
(* did not throw at; there is none unless one was posted since the map     *)
(* became dirty.  For whatever is made of a map ('' for one that is not    *)
(* valid) and read back from it, if the operations on the file met no      *)
(* other and none failed: the draft and dirty messages of                  *)
(* _handleWebviewMsg.                                                      *)
THEOREM DraftAlwaysFollowsEdits == FilesSafety => []DraftFollowsEdits
<1>1. SettlingInv => DraftFollowsEdits
  <2> SUFFICES ASSUME SettlingInv, view = "ready", channel = <<>>, writes = <<>>, "draft" \notin disturbed
               PROVE  disk["draft"] = IF drafted = None \/ TextOf[shown] = Throws THEN drafted
                                      ELSE TextOf[shown]
    BY DEF DraftFollowsEdits, Quiet, Ready
  <2>1. Settles(writes, disk["draft"], "draft", drafted)
    BY EmptyChannel DEF Becomes
  <2>2. disk["draft"] = drafted
    BY <2>1 DEF Settles
  <2> QED
    BY <2>2 DEF SettlingInv, Orderly
<1> QED
  BY <1>1, SettlingInvariant, PTL
=============================================================================
