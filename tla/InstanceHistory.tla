-------------------------- MODULE InstanceHistory --------------------------
(***************************************************************************)
(* CommandManager over the editor's two commands, for any catalog.  What   *)
(* the history means of a project is its record list: the selection is     *)
(* part of the document but not of what is saved.                          *)
(***************************************************************************)
EXTENDS CommandManager, InstanceCommands

(* The commands are the instance commands.                                 *)
ASSUME InstanceHistoryAssumption ==
  /\ Command = Commands /\ NewCommand = NewCommands /\ Document = Documents
  /\ \A d \in Documents : Content(d) = RecordsOf(d) /\ Elsewhere(d) = SelectInstance(d)
  /\ \A c \in Commands, d \in Documents :
       /\ Execute(c, d) = ExecuteInstanceCommand(c, d)
       /\ Undo(c, d) = UndoInstanceCommand(c, d)
       /\ Leads(c, d.records) = LeadsFrom(c, d.records)

UniqueIds(records) ==
  \A i, j \in DOMAIN records : records[i].inst = records[j].inst => i = j

(* The limit one entry states for a scope does not bind the instances of   *)
(* another, so that of a scope only the largest limit is sure to hold, and *)
(* only of the instances of the entries that limit it.                     *)
WithinCatalog(records) ==
  /\ \A c \in Cores :
       CoreLimit[c] # Unlimited /\ CoreLimit[c] >= 0 =>
         CountFor(records, LAMBDA r : r.core = c) <= CoreLimit[c]
  /\ \A i \in DOMAIN records : \A s \in DOMAIN ScopeLimits[records[i].core] :
       LimitsScope(records[i].core, s) =>
         \E c \in Cores :
           /\ LimitsScope(c, s)
           /\ CountFor(records, LAMBDA r : LimitsScope(r.core, s)) <= ScopeLimits[c][s]

(* A session is opened on a project that keeps the rules itself.           *)
ASSUME OpenedProjectsAssumption ==
  \A d \in InitialDocument :
    UniqueIds(d.records) /\ WithinCatalog(d.records) /\ SelectionIn(d)

-----------------------------------------------------------------------------
(* No two instances share an id, although nextInstanceIdForIpcore forms it *)
(* from a token that different cores may share: generation names an        *)
(* instance's output directory by the id alone.                            *)
InstanceIdsUnique == UniqueIds(document.records)

(* The selected instance exists: undoing an addition never leaves the      *)
(* workspace on a record that is gone.                                     *)
SelectionExists == SelectionIn(document)

(* Undo and redo, which do not check limits, stay within the limits that   *)
(* creation checks.                                                        *)
LimitsKept == WithinCatalog(document.records)
=============================================================================
