---------------------------- MODULE ProjectFiles ----------------------------
(***************************************************************************)
(* A project file that is opened, edited through the design and saved, any *)
(* number of times: ProjectReader, ProjectDesignSerializer, ProjectService *)
(* and ProjectWriter with the conversions between them.                    *)
(*                                                                         *)
(* Commands on the instance records are left to ProjectSession; here every *)
(* edit is a patch, and a patch that is not valid is refused.              *)
(***************************************************************************)
EXTENDS ProjectConversions

CONSTANTS
  Files,       \* the files there may be, other than those the editor wrote
  Edited(_)    \* the designs the patches of interest make of a design

VARIABLES
  file,        \* the file on disk, as JSON
  document,    \* ProjectService::m_document; NoFields while no project is open
  design,      \* DesignEditingService::m_design, and ProjectService's
  dirty,       \* m_designEditingDirty
  written,     \* the editor wrote the file
  legacy       \* the open document was read of a legacy file

vars == <<file, document, design, dirty, written, legacy>>

Opened == document # NoFields

(* The file is read, and its document the one that is open.                *)
Load(doc) ==
  /\ document' = doc
  /\ design' = FromDocument(doc)
  /\ dirty' = FALSE

Open ==
  /\ DocumentOf(file) # NoFields
  /\ Load(DocumentOf(file))
  /\ legacy' = IsLegacy(file)
  /\ UNCHANGED <<file, written>>

(* createProjectAt writes a document that has a name only, and adopts it.  *)
NewDocument == ToDocument([EmptyDesign EXCEPT !.id = "project_0", !.name = "Untitled"])

Create ==
  /\ Output(NewDocument) # NoFields
  /\ Load(NewDocument)
  /\ file' = Output(NewDocument)
  /\ written' = TRUE
  /\ legacy' = FALSE

(* A patch was applied: replaceDesign.                                     *)
Edit ==
  /\ Opened
  /\ \E d \in Edited(design) :
       /\ Valid(d)
       /\ design' = d
       /\ document' = MergeDesign(document, d)
  /\ dirty' = TRUE
  /\ UNCHANGED <<file, written, legacy>>

(* saveDocument merges a design with changes once more and writes.         *)
ToSave == IF dirty THEN MergeDesign(document, design) ELSE document

Save ==
  /\ Opened
  /\ Output(ToSave) # NoFields
  /\ document' = ToSave
  /\ file' = Output(ToSave)
  /\ dirty' = FALSE
  /\ written' = TRUE
  /\ UNCHANGED <<design, legacy>>

(* The document is not fit to be written: the message is all that happens. *)
SaveFails ==
  /\ Opened
  /\ Output(ToSave) = NoFields
  /\ document' = ToSave
  /\ UNCHANGED <<file, design, dirty, written, legacy>>

Init ==
  /\ file \in Files
  /\ document = NoFields
  /\ design = EmptyDesign
  /\ dirty = FALSE
  /\ written = FALSE
  /\ legacy = FALSE

Next == Open \/ Create \/ Edit \/ Save \/ SaveFails

Spec == Init /\ [][Next]_vars

-----------------------------------------------------------------------------
(* Properties.                                                             *)

GraphsSound(d) ==
  \A c \in ToSet(d.components) :
    GraphIn(c.extensionData) = NoFields \/ GraphSound(GraphIn(c.extensionData))

(* The reader does not look into the graph_config of a file of today, the  *)
(* writer does: see the README.                                            *)
Modern == Opened /\ ~legacy /\ GraphsSound(design)

(* Whatever the editor wrote it can open again, and saving it at once      *)
(* changes nothing: the checks of shape the reader makes and the writer    *)
(* does not, and the four conversions on the way, agree.                   *)
WrittenIsStable ==
  written => /\ DocumentOf(file) # NoFields
             /\ Output(DocumentOf(file)) = file

(* A project of a file of today can always be saved, after any edits:      *)
(* nothing the reader or the patches let through is refused by the writer. *)
ModernCanBeSaved == Modern => Output(ToSave) # NoFields

(* The design on screen is the one in the file: after opening it, with     *)
(* every package once, the configs flat and a kind for every connection,   *)
(* and after saving it, for whoever opens the file again.  No field is     *)
(* lost between the four forms a project has on the way.                   *)
Shown(d) ==
  LET Flat(c) == [c EXCEPT !.config = RuntimeConfig(@)]
      Kind(c) == IF c.kind = "" THEN [c EXCEPT !.kind = "interface"] ELSE c
  IN  [d EXCEPT !.schema = V1,
                !.packages = PackagesOf([ipcores |-> @, instances |-> <<>>]),
                !.components = [n \in DOMAIN @ |-> Flat(@[n])],
                !.connections = [n \in DOMAIN @ |-> Kind(@[n])]]

FileIsDesign ==
  [][/\ Open /\ ~IsLegacy(file) => design' = Shown(ReadFlat(file))
     /\ Save /\ Modern => design' = FromDocument(DocumentOf(file'))]_vars

(* Opening a legacy file and saving it keeps what the editor shows of it:  *)
(* packages, instances with their configs and graphs, and connections.     *)
(* Of edits to a legacy project this does not hold: its composition stays  *)
(* in the document, and a connection removed is back in the file.          *)
LegacyIsKept ==
  [][Save /\ ~dirty =>
       LET again == FromDocument(DocumentOf(file'))
       IN  /\ \A k \in {"id", "name", "packages", "connections"} : again[k] = design[k]
           /\ \A n \in DOMAIN design.components : \A k \in {"id", "config", "extensionData"} :
                again.components[n][k] = design.components[n][k]]_vars
=============================================================================
