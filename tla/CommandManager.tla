--------------------------- MODULE CommandManager ---------------------------
(***************************************************************************)
(* CommandManager: the undo and redo stacks of the editor, and the state   *)
(* id the main window compares with the id of the last save to decide      *)
(* whether the document is dirty.                                          *)
(*                                                                         *)
(* A command is a virtual class: execute() and undo() change the document  *)
(* and the command's own memory, and report through the flags executed     *)
(* (wasExecuted), undone (wasUndone) and tore (undoFailureChangedState).   *)
(* Here a command is a record with these three fields, and the two calls   *)
(* are operator constants that give the set of pairs                       *)
(* <<command after the call, document after the call>>.                    *)
(***************************************************************************)
EXTENDS Integers, Sequences

CONSTANTS
  Command,          \* the command objects, in every state of their memory
  NewCommand,       \* the commands a client may hand to executeCommand
  Document,         \* the values of what the commands edit
  InitialDocument,  \* the documents a session can be opened on
  Content(_),       \* the part of a document that is saved
  Execute(_, _),    \* Execute(c, d): outcomes of c->execute() on d
  Undo(_, _),       \* Undo(c, d): outcomes of c->undo() on d
  Elsewhere(_),     \* Elsewhere(d): d after an edit no command makes
  Leads(_, _),      \* Leads(c, x): the contents c remembers how to lead x to
  MaxUndoDepth,     \* kMaxUndoDepth, 256 in the code
  MaxStateId        \* bound of the model: ids minted since clearHistory

ASSUME CommandManagerAssumption ==
  /\ MaxUndoDepth \in Nat \ {0}
  /\ MaxStateId \in Nat \ {0}
  /\ InitialDocument \subseteq Document
  /\ NewCommand \subseteq Command
  /\ \A c \in Command : /\ c.executed \in BOOLEAN
                        /\ c.undone \in BOOLEAN
                        /\ c.tore \in BOOLEAN
  /\ \A c \in Command, d \in Document :
       /\ Execute(c, d) \subseteq Command \X Document
       /\ Undo(c, d) \subseteq Command \X Document
  /\ \A d \in Document : Elsewhere(d) \subseteq Document

VARIABLES
  undoStack,        \* m_undoStack: Seq(HistoryEntry), the newest last
  redoStack,        \* m_redoStack
  currentStateId,   \* m_currentStateId
  nextStateId,      \* m_nextStateId
  document,         \* what the commands edit
  meaning           \* history variable: the content each id was minted for

vars == <<undoStack, redoStack, currentStateId, nextStateId, document, meaning>>

HistoryEntry == [command: Command, before: Nat, after: Nat]

Top(stack) == stack[Len(stack)]
Pop(stack) == SubSeq(stack, 1, Len(stack) - 1)

(* Mutant: nothing is trimmed.                                             *)
NoTrim(stack) == stack

(* trimUndoStack drops entries from the front while there are too many.    *)
Trim(stack) ==
  IF Len(stack) > MaxUndoDepth
  THEN SubSeq(stack, Len(stack) - MaxUndoDepth + 1, Len(stack))
  ELSE stack

(* Mutant: the id is used but not counted up.                              *)
MintSameId(d) ==
  /\ nextStateId < MaxStateId
  /\ currentStateId' = nextStateId
  /\ UNCHANGED <<nextStateId, meaning>>

(* m_nextStateId++, remembering what the id stands for.                    *)
MintStateId(d) ==
  /\ nextStateId < MaxStateId
  /\ nextStateId' = nextStateId + 1
  /\ currentStateId' = nextStateId
  /\ meaning' = [id \in 0 .. nextStateId |-> IF id = nextStateId THEN Content(d) ELSE meaning[id]]

KeepStateIds == UNCHANGED <<currentStateId, nextStateId, meaning>>

Init ==
  /\ undoStack = <<>>
  /\ redoStack = <<>>
  /\ currentStateId = 0
  /\ nextStateId = 1
  /\ document \in InitialDocument
  /\ meaning = [id \in {0} |-> Content(document)]

-----------------------------------------------------------------------------
(* Mutant: redo entries outlive a new command.                             *)
AcceptKeepsRedo(c, d) ==
  /\ document' = d
  /\ MintStateId(d)
  /\ undoStack' = Trim(Append(undoStack, [command |-> c, before |-> currentStateId, after |-> nextStateId]))
  /\ UNCHANGED redoStack

(* executeCommand: an accepted command enters the history under a fresh    *)
(* id and clears redo; a rejected one is handed back and nothing changes.  *)
Accept(c, d) ==
  /\ document' = d
  /\ MintStateId(d)
  /\ undoStack' = Trim(Append(undoStack, [command |-> c, before |-> currentStateId, after |-> nextStateId]))
  /\ redoStack' = <<>>

Reject(d) ==
  /\ document' = d
  /\ UNCHANGED <<undoStack, redoStack>>
  /\ KeepStateIds

ExecuteCommand(c) ==
  \E result \in Execute(c, document) :
    IF result[1].executed THEN Accept(result[1], result[2]) ELSE Reject(result[2])

(* undo() calls the command only if it counts as executed, then looks at   *)
(* wasUndone; a refused undo puts the entry back, under a fresh id if the  *)
(* failed attempt changed the document.                                    *)
UndoOutcomes(entry) ==
  IF entry.command.executed THEN Undo(entry.command, document) ELSE {<<entry.command, document>>}

(* Mutant: undo leaves the id as it is.                                    *)
UndoneKeepsId(entry, c, d) ==
  /\ document' = d
  /\ KeepStateIds
  /\ undoStack' = Pop(undoStack)
  /\ redoStack' = Append(redoStack, [entry EXCEPT !.command = c])

Undone(entry, c, d) ==
  /\ document' = d
  /\ currentStateId' = entry.before
  /\ UNCHANGED <<nextStateId, meaning>>
  /\ undoStack' = Pop(undoStack)
  /\ redoStack' = Append(redoStack, [entry EXCEPT !.command = c])

UndoRefused(entry, c, d) ==
  /\ document' = d
  /\ IF c.tore THEN MintStateId(d) ELSE KeepStateIds
  /\ undoStack' = Append(Pop(undoStack), [entry EXCEPT !.command = c])
  /\ UNCHANGED redoStack

UndoLast ==
  /\ undoStack # <<>>
  /\ LET entry == Top(undoStack)
     IN  \E result \in UndoOutcomes(entry) :
           IF result[1].undone THEN Undone(entry, result[1], result[2])
                               ELSE UndoRefused(entry, result[1], result[2])

(* redo() executes the command again and goes back to the id it had.       *)
RedoneUnderOldId(entry) == currentStateId' = entry.after

Redone(entry, c, d) ==
  /\ document' = d
  /\ RedoneUnderOldId(entry)
  /\ UNCHANGED <<nextStateId, meaning>>
  /\ redoStack' = Pop(redoStack)
  /\ undoStack' = Trim(Append(undoStack, [entry EXCEPT !.command = c]))

RedoRefused(entry, c, d) ==
  /\ document' = d
  /\ KeepStateIds
  /\ redoStack' = Append(Pop(redoStack), [entry EXCEPT !.command = c])
  /\ UNCHANGED undoStack

RedoLast ==
  /\ redoStack # <<>>
  /\ LET entry == Top(redoStack)
     IN  \E result \in Execute(entry.command, document) :
           IF result[1].executed THEN Redone(entry, result[1], result[2])
                                 ELSE RedoRefused(entry, result[1], result[2])

(* clearHistory, which every client calls right after it has replaced the  *)
(* document by d.                                                          *)
ClearHistory(d) ==
  /\ document' = d
  /\ undoStack' = <<>>
  /\ redoStack' = <<>>
  /\ currentStateId' = 0
  /\ nextStateId' = 1
  /\ meaning' = [id \in {0} |-> Content(d)]

(* An edit of the unsaved part of the document that no command records,    *)
(* such as selecting another instance.                                     *)
EditElsewhere ==
  /\ document' \in Elsewhere(document)
  /\ UNCHANGED <<undoStack, redoStack, currentStateId, nextStateId, meaning>>

Next ==
  \/ \E c \in NewCommand : ExecuteCommand(c)
  \/ UndoLast
  \/ RedoLast
  \/ \E d \in InitialDocument : ClearHistory(d)
  \/ EditElsewhere

Spec == Init /\ [][Next]_vars

-----------------------------------------------------------------------------
TypeOK ==
  /\ undoStack \in Seq(HistoryEntry)
  /\ redoStack \in Seq(HistoryEntry)
  /\ nextStateId \in 1 .. MaxStateId
  /\ currentStateId \in 0 .. nextStateId - 1
  /\ document \in Document
  /\ DOMAIN meaning = 0 .. nextStateId - 1

(* A state id names one content: whenever the manager reports an id it has *)
(* reported before, the document has the content it had then.  This is     *)
(* what lets MainWindow call the document clean when the id equals the id  *)
(* of the last save (syncDocumentStateFromHistory).                        *)
StateIdNamesContent == meaning[currentStateId] = Content(document)

(* The two stacks together never hold more than kMaxUndoDepth entries:     *)
(* trimming on execute and on redo is enough, although undo() grows the    *)
(* redo stack without any trimming of its own.                             *)
HistoryBounded == Len(undoStack) + Len(redoStack) <= MaxUndoDepth

(* undo() always calls the command it pops.  An entry whose flag executed  *)
(* had been lost would skip undo() and be judged by a stale wasUndone.     *)
UndoReachesCommand ==
  \A i \in DOMAIN undoStack : undoStack[i].command.executed

(* Neighbouring entries meet: what one entry ends in, the next begins in,  *)
(* on both stacks and where they touch, so that a run of undos and redos   *)
(* walks through the states the user passed.                               *)
StacksMeet ==
  /\ \A i \in 1 .. Len(undoStack) - 1 : undoStack[i].after = undoStack[i + 1].before
  /\ \A i \in 1 .. Len(redoStack) - 1 : redoStack[i + 1].after = redoStack[i].before
  /\ undoStack # <<>> => Top(undoStack).after = currentStateId
  /\ redoStack # <<>> => Top(redoStack).before = currentStateId

-----------------------------------------------------------------------------
(* What the manager needs of a command for its ids to mean something.      *)
(* A command knows the way to Leads(c, x) from x, and back.  A failed call *)
(* leaves the content and the memory as they were.                         *)
Contents == {Content(d) : d \in Document}

FirstCallLeads ==
  \A c \in NewCommand, d \in Document : \A r \in Execute(c, d) :
    IF r[1].executed THEN Content(r[2]) \in Leads(r[1], Content(d))
                     ELSE Content(r[2]) = Content(d)

UndoLeadsBack ==
  \A c \in Command, x \in Contents : \A y \in Leads(c, x) :
    \A d \in Document : c.executed /\ Content(d) = y =>
      \A r \in Undo(c, d) :
        /\ y \in Leads(r[1], x)
        /\ IF r[1].undone THEN Content(r[2]) = x
           ELSE r[1].executed /\ ~r[1].tore /\ Content(r[2]) = y

RedoLeadsAgain ==
  \A c \in Command, d \in Document : \A y \in Leads(c, Content(d)) :
    \A r \in Execute(c, d) :
      /\ y \in Leads(r[1], Content(d))
      /\ Content(r[2]) = IF r[1].executed THEN y ELSE Content(d)

ReversibleCommands ==
  /\ FirstCallLeads
  /\ UndoLeadsBack
  /\ RedoLeadsAgain
  /\ \A d \in Document : \A e \in Elsewhere(d) : Content(e) = Content(d)
=============================================================================
