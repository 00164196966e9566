--------------------------- MODULE ProjectSession ---------------------------
(***************************************************************************)
(* MainWindow with an open project: how it keeps the copies of the project *)
(* in step, decides whether the document is dirty, saves and opens.        *)
(*                                                                         *)
(*   records (ProjectStateService)  <- commands, undo, redo                *)
(*   design  (DesignEditingService) <- project patches                     *)
(*   projectDocument (ProjectService), graph, disk                         *)
(*                                                                         *)
(* The history is CommandManager over the instance commands: its variable  *)
(* document is [records, selected].  Every action is one handler, up to    *)
(* the return to the event loop; the signals it emits are part of it.      *)
(***************************************************************************)
EXTENDS ProjectDocuments

CONSTANTS
  Shown,        \* instances whose modules have known types, for the graph
  Projects,     \* the projects on other files a user may open
  MaxUndoDepth,
  MaxStateId    \* both as in CommandManager

(* The session judges what is saved by the file, not by the history        *)
(* variable meaning, which is kept constant here.                          *)
Unnamed(doc) == 0

ASSUME ProjectSessionAssumption ==
  /\ MaxUndoDepth \in Nat \ {0} /\ MaxStateId \in Nat \ {0}
  /\ Projects \subseteq [components: Seq(Records), views: Views]

VARIABLES
  undoStack, redoStack, currentStateId, nextStateId, document, meaning,
  projectDocument,  \* ProjectService::m_document; m_design is DesignOf of it
  design,           \* DesignEditingService::m_design
  graph,            \* the instances that have modules in the Graph
  disk,             \* the file at m_currentDocumentPath
  designDirty,      \* m_designEditingDirty
  stateDirty,       \* m_projectStateDirty
  cleanStateId,     \* m_cleanStateId
  dirty,            \* m_documentDirty, what the title and the prompts use
  refreshPending,   \* m_documentStateRefreshPending: the 0 ms timer is armed
  stale             \* m_projectionStale of the node editor

INSTANCE CommandManager WITH
  Command <- Commands, NewCommand <- NewCommands, Document <- Documents,
  InitialDocument <- {OpenedOn(file.components) : file \in Projects},
  Content <- Unnamed, Execute <- ExecuteInstanceCommand, Undo <- UndoInstanceCommand,
  Elsewhere <- SelectInstance, Leads <- LeadsFrom

history == <<undoStack, redoStack, currentStateId, nextStateId, document, meaning>>
copies == <<projectDocument, design, graph, disk>>
flags == <<designDirty, stateDirty, cleanStateId, dirty, refreshPending, stale>>
sessionVars == <<history, copies, flags>>

records == document.records

(* Mutant: a design edit does not count.                                   *)
IsDirtyByState == stateDirty \/ currentStateId # cleanStateId

(* syncDocumentStateFromHistory.                                           *)
IsDirty == designDirty \/ stateDirty \/ currentStateId # cleanStateId

RefreshDirty == dirty' = IsDirty'

-----------------------------------------------------------------------------
(* Mutant: the design is not merged back.                                  *)
SyncForgetsDesign(list) ==
  /\ projectDocument' = WriteToDocument(projectDocument, list)
  /\ design' = DesignOf(projectDocument')
  /\ stateDirty' = TRUE
  /\ refreshPending' = TRUE
  /\ UNCHANGED <<graph, disk, designDirty, cleanStateId, stale>>

(* A record changed while tracking is not suppressed: the records are      *)
(* written to the document, the components a pending design edit has and   *)
(* they have not are merged back, the design is seeded again and the timer *)
(* is armed.  Later signals of the same command repeat this to no effect.  *)
SyncFromRecords(list) ==
  /\ projectDocument' =
       LET written == WriteToDocument(projectDocument, list)
       IN  IF designDirty THEN MergeDesignOnly(written, design) ELSE written
  /\ design' = DesignOf(projectDocument')
  /\ stateDirty' = TRUE
  /\ refreshPending' = TRUE
  /\ UNCHANGED <<graph, disk, designDirty, cleanStateId, stale>>

(* A call on the history took effect if it moved the state id; otherwise   *)
(* no record changed and nothing is emitted.                               *)
ReflectCommand ==
  IF currentStateId' # currentStateId
  THEN SyncFromRecords(document'.records)
  ELSE UNCHANGED <<copies, designDirty, stateDirty, cleanStateId, refreshPending, stale>>

(* The catalog panel adds an instance.  A rejection ends in a message box. *)
AddIpcore(c) ==
  /\ ExecuteCommand(AddCommand(c))
  /\ ReflectCommand
  /\ dirty' = IF nextStateId' # nextStateId THEN IsDirty' ELSE dirty

(* The property panel sets a parameter and leaves the dirty state to the   *)
(* timer.                                                                  *)
SetIpParameter(ref, v) ==
  /\ ExecuteCommand(SetCommand(ref, v))
  /\ ReflectCommand
  /\ UNCHANGED dirty

UndoInSession == UndoLast /\ ReflectCommand /\ RefreshDirty

RedoInSession == RedoLast /\ ReflectCommand /\ RefreshDirty

(* reloadIpcoreCatalog clears the selection and selects again; the signal  *)
(* counts as a change of the records.                                      *)
ReloadCatalog ==
  /\ document.selected # NoInstance
  /\ SyncFromRecords(records)
  /\ UNCHANGED <<history, dirty>>

-----------------------------------------------------------------------------
(* A project patch was applied: syncProjectServiceFromDesignEditingService *)
(* merges the design into the document and rebuilds graph and records from *)
(* it, which fails as a whole if some module has no known type.            *)
ProjectionBuilds(doc) == doc.modules \subseteq Shown

RebuildProjection(doc) ==
  IF ProjectionBuilds(doc)
  THEN /\ graph' = doc.modules
       /\ document' = OpenedOn(RecordsIn(doc))
       /\ stateDirty' = TRUE
       /\ stale' = FALSE
  ELSE /\ stale' = TRUE
       /\ UNCHANGED <<graph, document, stateDirty>>

ApplyPatch(patched) ==
  /\ design' = patched
  /\ projectDocument' = MergeDesign(projectDocument, patched)
  /\ IF patched.components = DesignOf(projectDocument).components
     THEN stale' = FALSE /\ UNCHANGED <<graph, document, stateDirty>>
     ELSE RebuildProjection(projectDocument')
  /\ designDirty' = TRUE
  /\ UNCHANGED <<undoStack, redoStack, currentStateId, nextStateId, meaning,
                 disk, cleanStateId, refreshPending>>
  /\ RefreshDirty

(* Patches of components, by any user of DesignEditingService, and of the  *)
(* views, by the node editor while its projection is current.  A new       *)
(* component's id is not in use.                                           *)
AddComponent(ref, v) ==
  /\ Len(design.components) < MaxRecords
  /\ ref.inst \notin IdsIn(design.components)
  /\ ApplyPatch([design EXCEPT !.components =
                   Append(@, [core |-> ref.core, inst |-> ref.inst, value |-> v])])

RemoveComponent(i) ==
  ApplyPatch([design EXCEPT !.components = RemoveAt(@, i)])

SetComponentConfig(i, v) ==
  /\ design.components[i].value # v
  /\ ApplyPatch([design EXCEPT !.components[i].value = v])

MoveNodes(view) ==
  /\ ~stale
  /\ view # design.views
  /\ ApplyPatch([design EXCEPT !.views = view])

-----------------------------------------------------------------------------
(* saveDocument.  Staged is the document with the records written in; a    *)
(* graph with modules it does not own blocks the save.                     *)
Staged == IF stateDirty THEN WriteToDocument(projectDocument, records) ELSE projectDocument

DocumentToSave ==
  IF stateDirty THEN MergeDesignOnly(Staged, design)
  ELSE IF designDirty THEN MergeDesign(projectDocument, design)
  ELSE projectDocument

SaveDocument ==
  /\ GraphOwned(graph, Staged)
  /\ projectDocument' = DocumentToSave
  /\ disk' = FileOf(DocumentToSave)
  /\ design' = IF stateDirty THEN DesignOf(DocumentToSave) ELSE design
  /\ cleanStateId' = currentStateId
  /\ designDirty' = FALSE
  /\ stateDirty' = FALSE
  /\ UNCHANGED <<history, graph, refreshPending, stale>>
  /\ RefreshDirty

(* The file cannot be written: the document keeps what was merged into it. *)
SaveFails ==
  /\ GraphOwned(graph, Staged)
  /\ projectDocument' = DocumentToSave
  /\ UNCHANGED <<history, design, graph, disk, flags>>

(* loadDocument of a file, and createProjectAt, which writes an empty one. *)
(* drawn are the instances whose graph_config gives the graph its modules. *)
Load(file, drawn) ==
  /\ disk' = file
  /\ projectDocument' = Reading(file, drawn)
  /\ design' = file
  /\ graph' = drawn
  /\ ClearHistory(OpenedOn(file.components))
  /\ designDirty' = FALSE
  /\ stateDirty' = FALSE
  /\ cleanStateId' = currentStateId'
  /\ stale' = FALSE
  /\ RefreshDirty
  /\ UNCHANGED refreshPending

Drawable(file) == SUBSET (RefsIn(file.components) \cap Shown)

(* maybeSaveChanges asks nothing while dirty is not set.                   *)
OpenAtOnce ==
  /\ ~dirty
  /\ \E file \in Projects \cup {disk} : \E drawn \in Drawable(file) : Load(file, drawn)

(* The user was asked and chose to discard the changes.                    *)
DiscardAndOpen ==
  /\ dirty
  /\ \E file \in Projects \cup {disk} : \E drawn \in Drawable(file) : Load(file, drawn)

(* The other file is refused by the projection: the open project stays.    *)
OpenFails ==
  /\ stale' = TRUE
  /\ UNCHANGED <<history, copies, designDirty, stateDirty, cleanStateId, dirty, refreshPending>>

(* Mutant: the timer fires and nothing is looked at.                       *)
RefreshForgets ==
  /\ refreshPending
  /\ refreshPending' = FALSE
  /\ UNCHANGED <<history, copies, designDirty, stateDirty, cleanStateId, dirty, stale>>

(* The timer armed by scheduleDocumentStateRefresh.                        *)
RefreshDocumentState ==
  /\ refreshPending
  /\ refreshPending' = FALSE
  /\ UNCHANGED <<history, copies, designDirty, stateDirty, cleanStateId, stale>>
  /\ RefreshDirty

-----------------------------------------------------------------------------
SessionInit ==
  /\ disk \in Projects
  /\ graph \in Drawable(disk)
  /\ projectDocument = Reading(disk, graph)
  /\ design = disk
  /\ document = OpenedOn(disk.components)
  /\ undoStack = <<>> /\ redoStack = <<>>
  /\ currentStateId = 0 /\ nextStateId = 1
  /\ meaning = [id \in {0} |-> Unnamed(document)]
  /\ designDirty = FALSE /\ stateDirty = FALSE /\ cleanStateId = 0
  /\ dirty = FALSE /\ refreshPending = FALSE /\ stale = FALSE

Commanded ==
  \/ \E c \in Cores : AddIpcore(c)
  \/ \E ref \in Refs, v \in Values : SetIpParameter(ref, v)
  \/ UndoInSession
  \/ RedoInSession

Patched ==
  \/ \E ref \in Refs, v \in Values : AddComponent(ref, v)
  \/ \E i \in DOMAIN design.components : RemoveComponent(i)
  \/ \E i \in DOMAIN design.components, v \in Values : SetComponentConfig(i, v)
  \/ \E view \in Views : MoveNodes(view)

SessionNext ==
  \/ Commanded
  \/ Patched
  \/ ReloadCatalog
  \/ SaveDocument
  \/ SaveFails
  \/ OpenAtOnce
  \/ DiscardAndOpen
  \/ OpenFails
  \/ RefreshDocumentState

(* Only the timer is sure to fire; everything else is up to the user.      *)
SessionSpec ==
  SessionInit /\ [][SessionNext]_sessionVars /\ WF_sessionVars(RefreshDocumentState)

-----------------------------------------------------------------------------
(* When the title shows no change and no refresh is due, the file holds    *)
(* the document, the design and, unless the editor is marked stale, every  *)
(* record on screen with its value: closing without a prompt loses none.   *)
CleanIsSaved ==
  ~dirty /\ ~refreshPending =>
    /\ disk = FileOf(projectDocument)
    /\ disk = design
    /\ ~stale => ToSet(records) \subseteq ToSet(disk.components)

(* Two owners, one document: while a design edit is unsaved, a command     *)
(* that takes effect gives the design its own instances and values and     *)
(* leaves it the components that are the design's alone, and its views.    *)
OwnersMerge ==
  [][currentStateId' # currentStateId /\ designDirty /\ designDirty' =>
       /\ ToSet(document'.records) \subseteq ToSet(design'.components)
       /\ IdsIn(design.components) \subseteq IdsIn(design'.components)
       /\ design'.views = design.views]_sessionVars

(* A save writes the layout the user last gave the canvas, whether the     *)
(* records, the design or neither have unsaved changes, and whatever       *)
(* commands came between the move and the save.                            *)
LayoutIsSaved == [][SaveDocument => disk'.views = design.views]_sessionVars

(* An unsaved edit shows in the end, or is no longer unsaved.              *)
EditsShow == IsDirty ~> (dirty \/ ~IsDirty)

(* Undoing the addition of an instance takes it out of the design too.     *)
UndoneInstanceLeavesDesign ==
  [][UndoInSession =>
       (RefsIn(records) \ RefsIn(document'.records)) \cap RefsIn(design'.components) = {}]_sessionVars

(* A save writes what the design editing service holds.                    *)
DesignEditsAreSaved ==
  [][SaveDocument => ToSet(design.components) \subseteq ToSet(disk'.components)]_sessionVars
=============================================================================
