------------------------------ MODULE MapFiles ------------------------------
(***************************************************************************)
(* A data map between the webview that edits it and the three files it is  *)
(* kept in (vs-code-data-mapper: DataMapperPanel.ts, DataMapperExt.ts,     *)
(* commands/commands.ts; vs-code-data-mapper-react: app.tsx; data-mapper:  *)
(* ui/DataMapperDesigner.tsx, core/DataMapDataProvider.tsx).               *)
(*                                                                         *)
(* The webview and the panel in the extension host are two processes: what *)
(* the one posts the other handles later, in order.  The panel does not    *)
(* wait for the files it writes, but removes files on the spot.            *)
(***************************************************************************)
EXTENDS Integers, Sequences

CONSTANTS
  Versions,     \* what a map may be
  Blank,        \* the version of a new map
  Texts,        \* the map definitions that can be read
  TextOf,       \* version -> what convertToMapDefinition makes of it
  MapOf,        \* text -> the version that is read from it
  Empty,        \* '', made of a map that is not valid to convert
  Throws,       \* the conversion fails
  None,         \* no file, no version, no text
  Broken,       \* a file that is no map: cut short or mixed up
  MaxWrites,    \* bound: writes on their way when the user goes on
  MaxSaves      \* bound: conversions to XSLT at one time

Files == {"definition", "draft"}

(* Whether reading a text back gives the map it was made of is left open.  *)
ASSUME VersionsAreMaps ==
  /\ Blank \in Versions /\ None \notin Versions
  /\ {Empty, Throws, None, Broken} \cap Texts = {}
  /\ Empty \notin {Throws, None, Broken} /\ Throws \notin {None, Broken} /\ None # Broken
  /\ TextOf \in [Versions -> Texts \cup {Empty, Throws}] /\ TextOf[Blank] \in Texts
  /\ MapOf \in [Texts -> Versions]
  /\ MaxWrites \in Nat /\ MaxSaves \in Nat

VARIABLES
  \* the webview
  view,        \* "closed", "loading" or "ready"
  shown,       \* curDataMapOperation
  pristine,    \* pristineDataMap
  isDirty,
  converting,  \* the texts generateDataMapXslt was asked for and has not answered
  loaded,      \* the text of the mapDefinition it has still to load, or None
  lists,       \* the function lists it still waits for
  channel,     \* the messages it posted that the panel has not handled
  \* the extension host
  panelDirty,  \* dataMapStateIsDirty
  loadData,    \* loadMapDefinitionData
  opening,     \* the text of the map that is being opened
  writes,      \* the writes under way, oldest first
  disk,        \* file -> what it holds
  \* history
  drafted,     \* the last draft the webview sent since its map became dirty, or None
  disturbed,   \* the files whose last operation met another, failed or was cut off
  lastSaved    \* the text of the save that was answered last

session == <<view, shown, pristine, isDirty, converting, loaded, lists>>
panel == <<panelDirty, loadData, opening>>
files == <<writes, disk>>
history == <<drafted, disturbed, lastSaved>>
fileVars == <<session, channel, panel, files, history>>

NotOpening == [text |-> None, asked |-> FALSE]

-----------------------------------------------------------------------------
(* What the webview posts.                                                 *)

Draft(text) == [kind |-> "draft", text |-> text]
Definition(text) == [kind |-> "definition", text |-> text]
Dirty(b) == [kind |-> "dirty", dirty |-> b]
WebviewLoaded == [kind |-> "loaded"]

(* Faulty: posts no draft of a map that is not valid to convert. *)
DraftsOfValid(v) == IF TextOf[v] \in Texts THEN <<Draft(TextOf[v])>> ELSE <<>>

(* dataMapDefinition is computed: convertToMapDefinition makes the text of *)
(* the map, '' if a function lacks an input or a target its source, or it  *)
(* throws and nothing is posted.                                           *)
Drafts(v) == IF TextOf[v] = Throws THEN <<>> ELSE <<Draft(TextOf[v])>>

(* It is computed whenever the connections are another object; they may be *)
(* the same in content.                                                    *)
Rendered(v) == {Drafts(v)} \cup (IF v = shown THEN {<<>>} ELSE {})

(* dataMapDefinition as it is saved: '' as well if the conversion threw.   *)
SavedText(v) == IF TextOf[v] = Throws THEN Empty ELSE TextOf[v]

(* History: the last draft, if the map was dirty before those just posted. *)
Drafted(dirty, drafts) ==
  IF ~dirty THEN None ELSE IF drafts = <<>> THEN drafted ELSE Head(drafts).text

(* Faulty: tells only that the map is dirty. *)
DirtyEffectOnce(b) == IF b /\ ~isDirty THEN <<Dirty(TRUE)>> ELSE <<>>

(* The effect that follows isDirty runs after rendering. *)
DirtyEffect(b) == IF b = isDirty THEN <<>> ELSE <<Dirty(b)>>

Without(seq, i) == SubSeq(seq, 1, i - 1) \o SubSeq(seq, i + 1, Len(seq))

Ready == view = "ready"
(* Bound: the panel has handled what was posted before. *)
Post(messages) == channel = <<>> /\ Len(writes) <= MaxWrites /\ channel' = channel \o messages

-----------------------------------------------------------------------------
(* The user.                                                               *)

(* Any reducer that edits the map, undo and redo. *)
Edit(v) ==
  /\ Ready
  /\ shown' = v /\ isDirty' = TRUE
  /\ \E drafts \in Rendered(v) :
       /\ Post(drafts \o DirtyEffect(TRUE))
       /\ drafted' = Drafted(isDirty, drafts)
  /\ UNCHANGED <<view, pristine, converting, loaded, lists, panel, files, disturbed, lastSaved>>

Discard ==
  /\ Ready /\ isDirty
  /\ shown' = pristine /\ isDirty' = FALSE
  /\ \E drafts \in Rendered(pristine) : Post(drafts \o DirtyEffect(FALSE))
  /\ drafted' = None
  /\ UNCHANGED <<view, pristine, converting, loaded, lists, panel, files, disturbed, lastSaved>>

(* onSaveClick: the files are written when the XSLT has been generated.    *)
(* Errors in the map are shown, and do not stop it.                        *)
SaveClick ==
  /\ Ready
  /\ Len(converting) < MaxSaves
  /\ converting' = Append(converting, SavedText(shown))
  /\ UNCHANGED <<view, shown, pristine, isDirty, loaded, lists, channel, panel, files, history>>

(* Faulty: writes the text of the version shown at the answer. *)
ConvertedShown(i) ==
  /\ Ready /\ i \in DOMAIN converting
  /\ converting' = Without(converting, i)
  /\ Post(<<Definition(SavedText(shown))>> \o DirtyEffect(FALSE))
  /\ pristine' = shown /\ isDirty' = FALSE
  /\ drafted' = None /\ lastSaved' = converting[i]
  /\ UNCHANGED <<view, shown, loaded, lists, panel, files, disturbed>>

(* Its answer: the text converted is written, the version shown is clean. *)
Converted(i) ==
  /\ Ready /\ i \in DOMAIN converting
  /\ converting' = Without(converting, i)
  /\ Post(<<Definition(converting[i])>> \o DirtyEffect(FALSE))
  /\ pristine' = shown /\ isDirty' = FALSE
  /\ drafted' = None /\ lastSaved' = converting[i]
  /\ UNCHANGED <<view, shown, loaded, lists, panel, files, disturbed>>

ConversionFails(i) ==
  /\ Ready /\ i \in DOMAIN converting
  /\ converting' = Without(converting, i)
  /\ UNCHANGED <<view, shown, pristine, isDirty, loaded, lists, channel, panel, files, history>>

(* App renders, for a message or an answer: its callbacks are new, so what *)
(* depends on them is computed and posted again.                           *)
AppRenders ==
  /\ Ready
  /\ Post(Drafts(shown) \o <<Dirty(isDirty)>>)
  /\ drafted' = Drafted(isDirty, Drafts(shown))
  /\ UNCHANGED <<session, panel, files, disturbed, lastSaved>>

(* The schemas and a list of functions are there: setInitialDataMap.  A    *)
(* second list that comes after the schemas starts over again.             *)
MapArrives ==
  /\ view \in {"loading", "ready"} /\ lists > 0 /\ loaded # None
  /\ view' = "ready" /\ lists' = lists - 1
  /\ loaded' = IF lists = 1 THEN None ELSE loaded
  /\ shown' = MapOf[loaded] /\ pristine' = shown'
  /\ Post(Drafts(shown'))
  /\ drafted' = Drafted(isDirty, Drafts(shown'))
  /\ UNCHANGED <<isDirty, converting, panel, files, disturbed, lastSaved>>

(* In a new map the user chooses both schemas. *)
SchemasChosen ==
  /\ view = "loading" /\ loaded = None /\ lists > 0
  /\ view' = "ready" /\ lists' = 0
  /\ shown' = Blank /\ pristine' = Blank
  /\ Post(Drafts(Blank))
  /\ UNCHANGED <<isDirty, converting, loaded, panel, files, history>>

-----------------------------------------------------------------------------
(* The panel: _handleWebviewMsg.                                           *)

Holds(W, f) == \E i \in DOMAIN W : W[i].file = f

(* History: operations begin on the files F while the writes W are open. *)
Begun(F, W) == (disturbed \ F) \cup {f \in F : Holds(W, f)}

Writing(f, text) == <<[file |-> f, text |-> text, opened |-> FALSE]>>

(* A file removed while it is open is written in vain. *)
StillNamed(W) ==
  [i \in DOMAIN W |-> IF W[i].file = "draft" /\ W[i].opened THEN [W[i] EXCEPT !.file = "removed"]
                      ELSE W[i]]

Handles(kind) == channel # <<>> /\ Head(channel).kind = kind /\ channel' = Tail(channel)

(* saveDraftDataMapDefinition, if the panel knows that the map is dirty *)
HandleDraft ==
  /\ Handles("draft")
  /\ IF panelDirty
     THEN /\ writes' = writes \o Writing("draft", Head(channel).text)
          /\ disturbed' = Begun({"draft"}, writes)
     ELSE UNCHANGED <<writes, disturbed>>
  /\ UNCHANGED <<session, panel, disk, drafted, lastSaved>>

(* Faulty: once dirty, always dirty. *)
HandleDirtyStays ==
  /\ Handles("dirty")
  /\ panelDirty' = (panelDirty \/ Head(channel).dirty)
  /\ UNCHANGED <<session, loadData, opening, files, history>>

(* handleUpdateMapDirtyState with deleteDraftDataMapDefinition *)
HandleDirty ==
  /\ Handles("dirty")
  /\ panelDirty' = Head(channel).dirty
  /\ IF panelDirty'
     THEN UNCHANGED <<writes, disk, disturbed>>
     ELSE /\ disk' = [disk EXCEPT !["draft"] = None]
          /\ writes' = StillNamed(writes)
          /\ disturbed' = Begun({"draft"}, StillNamed(writes))
  /\ UNCHANGED <<session, loadData, opening, drafted, lastSaved>>

(* Faulty: takes a definition like a draft, only if the map is dirty. *)
HandleDirtyDefinition ==
  /\ Handles("definition")
  /\ disk' = [disk EXCEPT !["draft"] = None]
  /\ writes' = IF panelDirty THEN StillNamed(writes) \o Writing("definition", Head(channel).text)
               ELSE StillNamed(writes)
  /\ disturbed' = Begun({"draft", "definition"}, StillNamed(writes))
  /\ UNCHANGED <<session, panel, drafted, lastSaved>>

(* saveDataMap: the draft goes before the definition is there. *)
HandleDefinition ==
  /\ Handles("definition")
  /\ disk' = [disk EXCEPT !["draft"] = None]
  /\ writes' = StillNamed(writes) \o Writing("definition", Head(channel).text)
  /\ disturbed' = Begun({"draft", "definition"}, StillNamed(writes))
  /\ UNCHANGED <<session, panel, drafted, lastSaved>>

(* handleLoadMapDefinitionIfAny *)
HandleLoaded ==
  /\ Handles("loaded")
  /\ loaded' = loadData /\ loadData' = None
  /\ lists' \in {1, 2}
  /\ UNCHANGED <<view, shown, pristine, isDirty, converting, panelDirty, opening, files, history>>

-----------------------------------------------------------------------------
(* The file system.                                                        *)

(* The directory is there, the file is opened and with that emptied. *)
FileOpens(i) ==
  /\ i \in DOMAIN writes /\ ~writes[i].opened
  /\ disk' = [disk EXCEPT ![writes[i].file] = Broken]
  /\ writes' = [writes EXCEPT ![i].opened = TRUE]
  /\ UNCHANGED <<session, channel, panel, history>>

(* What another writer put there meanwhile may stick out. *)
FileWritten(i) ==
  /\ i \in DOMAIN writes /\ writes[i].opened
  /\ IF writes[i].file = "removed" THEN UNCHANGED disk
     ELSE \E content \in {writes[i].text} \cup ({Broken} \ {disk[writes[i].file]}) :
            disk' = [disk EXCEPT ![writes[i].file] = content]
  /\ writes' = Without(writes, i)
  /\ UNCHANGED <<session, channel, panel, history>>

WriteFails(i) ==
  /\ i \in DOMAIN writes
  /\ writes' = Without(writes, i)
  /\ disturbed' = disturbed \cup ({writes[i].file} \cap Files)
  /\ UNCHANGED <<session, channel, panel, disk, drafted, lastSaved>>

-----------------------------------------------------------------------------
(* Opening, closing, crashing.                                             *)

(* loadDataMapFileCmd: the draft is read if there is one.  The user cannot *)
(* get past a file that is no map, and an empty one is none: yaml.load of  *)
(* '' is undefined, and looking for its schemas throws.                    *)
ReadMap ==
  LET file == IF disk["draft"] # None THEN "draft" ELSE "definition"
  IN  /\ opening = NotOpening
      /\ disk[file] \in Texts
      /\ opening' = [text |-> disk[file], asked |-> TRUE]
      /\ UNCHANGED <<session, channel, panelDirty, loadData, files, history>>

(* createNewDataMapCmd, with whatever name the user types *)
NewMap ==
  /\ opening = NotOpening
  /\ opening' = [text |-> None, asked |-> TRUE]
  /\ UNCHANGED <<session, channel, panelDirty, loadData, files, history>>

(* createOrShow: a panel that is there is shown as it is. *)
PanelOpens ==
  /\ opening # NotOpening
  /\ opening' = NotOpening
  /\ IF view = "closed"
     THEN /\ view' = "loading"
          /\ loadData' = opening.text
          /\ panelDirty' = FALSE
          /\ channel' = <<Dirty(FALSE), WebviewLoaded>>
     ELSE UNCHANGED <<view, loadData, panelDirty, channel>>
  /\ UNCHANGED <<shown, pristine, isDirty, converting, loaded, lists, files, history>>

Gone ==
  /\ view' = "closed" /\ shown' = None /\ pristine' = None /\ isDirty' = FALSE
  /\ converting' = <<>>
  /\ loaded' = None /\ lists' = 0 /\ drafted' = None
  /\ channel' = <<>>

Posted == {f \in Files : \E i \in DOMAIN channel : channel[i].kind = f}

(* The user closes the panel; the writes go on. *)
ClosePanel ==
  /\ view # "closed" /\ Gone
  /\ disturbed' = disturbed \cup Posted
  /\ UNCHANGED <<panel, files, lastSaved>>

(* The extension host ends, or the window is reloaded. *)
Crash ==
  /\ Gone
  /\ writes' = <<>> /\ opening' = NotOpening
  /\ panelDirty' = FALSE /\ loadData' = None
  /\ disturbed' = disturbed \cup Posted \cup {f \in Files : Holds(writes, f)}
  /\ UNCHANGED <<disk, lastSaved>>

-----------------------------------------------------------------------------
FilesInit ==
  /\ view = "closed" /\ shown = None /\ pristine = None /\ isDirty = FALSE
  /\ converting = <<>>
  /\ loaded = None /\ lists = 0
  /\ channel = <<>> /\ writes = <<>>
  /\ panelDirty = FALSE /\ loadData = None /\ opening = NotOpening
  /\ lastSaved \in {None} \cup Texts
  /\ disk = [f \in Files |-> IF f = "draft" THEN None ELSE lastSaved]
  /\ drafted = None /\ disturbed = {}

Handle == HandleDraft \/ HandleDirty \/ HandleDefinition \/ HandleLoaded

FilesNext ==
  \/ \E v \in Versions : Edit(v)
  \/ Discard
  \/ SaveClick
  \/ \E i \in DOMAIN converting : Converted(i)
  \/ \E i \in DOMAIN converting : ConversionFails(i)
  \/ AppRenders
  \/ MapArrives
  \/ SchemasChosen
  \/ HandleDraft
  \/ HandleDirty
  \/ HandleDefinition
  \/ HandleLoaded
  \/ \E i \in DOMAIN writes : FileOpens(i)
  \/ \E i \in DOMAIN writes : FileWritten(i)
  \/ \E i \in DOMAIN writes : WriteFails(i)
  \/ ReadMap
  \/ NewMap
  \/ PanelOpens
  \/ ClosePanel
  \/ Crash

FilesSafety == FilesInit /\ [][FilesNext]_fileVars

(* Messages are delivered, and the oldest write ends. *)
FilesSpec ==
  /\ FilesSafety
  /\ WF_fileVars(Handle)
  /\ WF_fileVars(FileOpens(1) \/ FileWritten(1))

-----------------------------------------------------------------------------
(* Properties.                                                             *)

(* What the panel was told last, or knows already, is whether the map is   *)
(* dirty: its title and its decision to write a draft depend on nothing    *)
(* else.                                                                   *)
PanelIsTold ==
  view # "closed" =>
    /\ \A i \in DOMAIN channel :
         channel[i].kind = "dirty" /\ (\A j \in i + 1..Len(channel) : channel[j].kind # "dirty")
           => channel[i].dirty = isDirty
    /\ (\A i \in DOMAIN channel : channel[i].kind # "dirty") => panelDirty = isDirty

Quiet == channel = <<>> /\ writes = <<>>

(* When everything has settled the draft on disk is the text of the map    *)
(* shown, '' if it is not valid, or of the last map before it that could   *)
(* be converted.  There is none if no draft was posted since the map       *)
(* became dirty: after a save, a discard or the first edit.  Only          *)
(* operations on the file that overlap can leave another draft behind.     *)
DraftFollowsEdits ==
  Ready /\ Quiet /\ "draft" \notin disturbed =>
    disk["draft"] = IF drafted = None \/ TextOf[shown] = Throws THEN drafted ELSE TextOf[shown]

(* When everything has settled the definition file holds the text that     *)
(* was saved last, also after the panel was closed or the host ended,      *)
(* unless writes of the file overlapped, failed or were cut off.           *)
DefinitionIsLastSave == Quiet /\ "definition" \notin disturbed => disk["definition"] = lastSaved

(* A map that stays dirty, or clean, is shown as such in the title. *)
TitleCatchesUp ==
  \A b \in BOOLEAN : (Ready /\ isDirty = b) ~> (panelDirty = b \/ isDirty # b \/ ~Ready)

(* A save that was answered gets into the definition file, unless another  *)
(* comes after it or the file was disturbed.                               *)
SavesAreWritten ==
  \A text \in Texts \cup {Empty} :
    (lastSaved = text) ~> (disk["definition"] = text \/ lastSaved # text \/ "definition" \in disturbed)

(* The draft that is being opened is not removed while it is the only file *)
(* with that text: a map that is not dirty can do without its draft.       *)
OpenedDraftIsSaved ==
  [][\A text \in Texts : disk["draft"] = text /\ loadData = text /\ disk'["draft"] = None
       => text \in {disk["definition"], lastSaved}]_fileVars
=============================================================================
