-------------------------- MODULE InstanceCommands --------------------------
(***************************************************************************)
(* The two commands the editor records: AddIpInstanceCommand and           *)
(* SetIpInstanceParameterCommand, as the operators CommandManager takes    *)
(* for execute() and undo().  Both are deterministic, so each gives the    *)
(* set of its one outcome <<command, document>>.                           *)
(***************************************************************************)
EXTENDS ProjectInstances

CONSTANTS
  MaxSuffix,    \* bound of the model: the largest instance suffix
  MaxRecords,   \* bound of the model: the longest record list
  NoRecord, NoValue

Refs == InstanceRefs(MaxSuffix)

(* NoValue is the QJsonValue Undefined: the section has no such key.       *)
Records == [core: Cores, inst: Tokens \X (0 .. MaxSuffix), value: Values \cup {NoValue}]

ASSUME InstanceCommandsAssumption ==
  /\ MaxSuffix \in Nat /\ MaxRecords \in Nat
  /\ NoValue \notin Values /\ NoInstance \notin Refs /\ NoRecord \notin Records

DistinctRefs(records) == \A i, j \in DOMAIN records : Ref(records[i]) = Ref(records[j]) => i = j

Documents ==
  [records: {s \in SeqOf(Records, MaxRecords) : DistinctRefs(s)},
   selected: Refs \cup {NoInstance}]

(* The selected instance exists.                                           *)
SelectionIn(doc) == doc.selected # NoInstance => HasRecord(doc.records, doc.selected)

(* The bounds of the model, which no behaviour of the checked instance     *)
(* meets when the limits of the catalog are below them.                    *)
Room(records) == Len(records) < MaxRecords
NameInBound(records, c) == NextInstanceId(records, c)[2] <= MaxSuffix

AddCommand(c) ==
  [kind |-> "add", core |-> c, created |-> NoRecord, position |-> 0, previous |-> NoInstance,
   executed |-> FALSE, undone |-> FALSE, tore |-> FALSE]

SetCommand(ref, v) ==
  [kind |-> "set", ref |-> ref, new |-> v, old |-> NoValue,
   executed |-> FALSE, undone |-> FALSE, tore |-> FALSE]

NewCommands ==
  {AddCommand(c) : c \in Cores} \cup {SetCommand(ref, v) : ref \in Refs, v \in Values}

Report(command, executed, undone) ==
  [command EXCEPT !.executed = executed, !.undone = undone]

(* The records an addition can create.                                     *)
DefaultRecords == {DefaultRecord(c, inst) : c \in Cores, inst \in Tokens \X (0 .. MaxSuffix)}

AddCommands ==
  [kind: {"add"}, core: Cores, created: DefaultRecords \cup {NoRecord},
   position: 0 .. MaxRecords, previous: Refs \cup {NoInstance},
   executed: BOOLEAN, undone: BOOLEAN, tore: {FALSE}]

SetCommands ==
  [kind: {"set"}, ref: Refs, new: Values, old: Values \cup {NoValue},
   executed: BOOLEAN, undone: BOOLEAN, tore: {FALSE}]

Commands == AddCommands \cup SetCommands

-----------------------------------------------------------------------------
(* AddIpInstanceCommand::execute.  The first call creates the instance and *)
(* remembers the record, its position and the selection before; a later    *)
(* call (redo) puts the same record back and selects it.                   *)
AddFirst(command, doc) ==
  IF CanCreate(doc, command.core) /\ Room(doc.records) /\ NameInBound(doc.records, command.core)
  THEN LET created == CreateInstance(doc, command.core)
           at == IndexOfRecord(created.records, created.selected)
       IN  <<[Report(command, TRUE, FALSE) EXCEPT
                !.created = created.records[at], !.position = at, !.previous = doc.selected],
             created>>
  ELSE <<[Report(command, FALSE, FALSE) EXCEPT !.previous = doc.selected], doc>>

AddAgain(command, doc) ==
  IF CanInsert(doc.records, command.created) /\ Room(doc.records)
  THEN LET records == InsertRecord(doc.records, command.position, command.created)
       IN  <<Report(command, TRUE, FALSE),
             [records |-> records, selected |-> ReselectExactOrClear(records, Ref(command.created))]>>
  ELSE <<Report(command, FALSE, FALSE), doc>>

AddExecute(command, doc) ==
  IF command.created = NoRecord THEN AddFirst(command, doc) ELSE AddAgain(command, doc)

(* Mutant: the selection stays where it is.                                *)
AddUndoKeepsSelection(command, doc) ==
  IF command.created # NoRecord /\ HasRecord(doc.records, Ref(command.created))
  THEN <<[command EXCEPT !.undone = TRUE],
         [doc EXCEPT !.records = TakeRecord(@, Ref(command.created))]>>
  ELSE <<[command EXCEPT !.undone = FALSE], doc>>

(* undo takes the record out again and restores the selection before, if   *)
(* that instance still exists.  The executed flag is left as it is.        *)
AddUndo(command, doc) ==
  IF command.created # NoRecord /\ HasRecord(doc.records, Ref(command.created))
  THEN LET records == TakeRecord(doc.records, Ref(command.created))
       IN  <<[command EXCEPT !.undone = TRUE],
             [records |-> records, selected |-> ReselectExactOrClear(records, command.previous)]>>
  ELSE <<[command EXCEPT !.undone = FALSE], doc>>

(* SetIpInstanceParameterCommand::execute captures the old value every     *)
(* time and rejects a value that is already there.  undo writes the old    *)
(* value back.                                                             *)
SetExecute(command, doc) ==
  LET found == HasRecord(doc.records, command.ref)
      old == IF found THEN ParameterOf(doc.records, command.ref) ELSE NoValue
      noted == [command EXCEPT !.old = old]
  IN  IF found /\ old # command.new
      THEN <<Report(noted, TRUE, FALSE),
             [doc EXCEPT !.records = SetParameter(@, command.ref, command.new)]>>
      ELSE <<Report(noted, FALSE, FALSE), doc>>

SetUndo(command, doc) ==
  IF HasRecord(doc.records, command.ref)
  THEN <<[command EXCEPT !.undone = TRUE],
         [doc EXCEPT !.records = SetParameter(@, command.ref, command.old)]>>
  ELSE <<[command EXCEPT !.undone = FALSE], doc>>

ExecuteInstanceCommand(command, doc) ==
  {IF command.kind = "add" THEN AddExecute(command, doc) ELSE SetExecute(command, doc)}

UndoInstanceCommand(command, doc) ==
  {IF command.kind = "add" THEN AddUndo(command, doc) ELSE SetUndo(command, doc)}

(* Selecting an instance is the user's edit that no command records.       *)
SelectInstance(doc) == {[doc EXCEPT !.selected = ref] : ref \in Selectable(doc)}

RecordsOf(doc) == doc.records

(* The memory of a command leads from one record list to another: an       *)
(* addition to the list with its record at its position, a parameter       *)
(* change to the list with the new value.                                  *)
LeadsFrom(command, x) ==
  IF command.kind = "add"
  THEN IF /\ command.created # NoRecord
          /\ CanInsert(x, command.created) /\ Room(x)
          /\ command.position \in 1 .. Len(x) + 1
       THEN {InsertRecord(x, command.position, command.created)} ELSE {}
  ELSE IF /\ HasRecord(x, command.ref)
          /\ command.old = ParameterOf(x, command.ref)
          /\ command.old # command.new
       THEN {SetParameter(x, command.ref, command.new)} ELSE {}
=============================================================================
