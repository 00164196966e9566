-------------------------- MODULE CompositeCommand --------------------------
(***************************************************************************)
(* CompositeCommand: execute() and undo() of a group of children, one      *)
(* child call per step, every child free to fail at every call.            *)
(*                                                                         *)
(* CommandManager keeps the command on one of its stacks and calls         *)
(* execute() when it is new or on the redo stack, undo() when it is on the *)
(* undo stack.                                                             *)
(***************************************************************************)
EXTENDS Integers

CONSTANT NumChildren   \* m_commands.size(); an empty composite does nothing

ASSUME CompositeCommandAssumption == NumChildren \in Nat \ {0}

VARIABLES
  cell,            \* what each child has done to the document
  count,           \* m_executedCount
  executed,        \* m_executed
  undone,          \* m_undone
  tore,            \* m_undoFailureChangedState
  phase,           \* which loop of which call is running, or "idle"
  index,           \* the loop variable
  originalCount,   \* originalExecutedCount, a local of undo()
  executedBefore,  \* wasExecutedBeforeUndo, a local of undo()
  holder,          \* where CommandManager keeps the command
  atCall           \* history variable: the state when the running call began

vars == <<cell, count, executed, undone, tore, phase, index, originalCount,
          executedBefore, holder, atCall>>

Child == 1 .. NumChildren

Snapshot == [cell |-> cell, executed |-> executed, undone |-> undone,
             tore |-> tore, holder |-> holder]

Init ==
  /\ cell = [i \in Child |-> "off"]
  /\ count = 0
  /\ executed = FALSE /\ undone = FALSE /\ tore = FALSE
  /\ phase = "idle" /\ index = 0
  /\ originalCount = 0 /\ executedBefore = FALSE
  /\ holder = "client"
  /\ atCall = Snapshot

(* The calls on a child and what they may do: execute() applies it or is   *)
(* rejected; undo() takes it back, is refused, or is refused after having  *)
(* changed the document.                                                   *)
ChildExecutes(i) == cell' = [cell EXCEPT ![i] = "on"]
ChildUndoes(i)   == cell' = [cell EXCEPT ![i] = "off"]
ChildTears(i)    == cell' = [cell EXCEPT ![i] = "torn"]

Locals == <<originalCount, executedBefore, holder, atCall>>

Return(where) ==
  /\ phase' = "idle"
  /\ index' = 0
  /\ holder' = where
  /\ UNCHANGED <<originalCount, executedBefore, atCall>>

-----------------------------------------------------------------------------
(* CommandManager calls execute().                                         *)
BeginExecute ==
  /\ phase = "idle"
  /\ holder \in {"client", "redo"}
  /\ executed' = FALSE /\ undone' = FALSE /\ tore' = FALSE
  /\ count' = 0
  /\ phase' = "executing" /\ index' = 1
  /\ atCall' = Snapshot
  /\ UNCHANGED <<cell, originalCount, executedBefore, holder>>

ExecuteChild ==
  /\ phase = "executing" /\ index <= NumChildren
  /\ ChildExecutes(index)
  /\ count' = count + 1
  /\ index' = index + 1
  /\ UNCHANGED <<executed, undone, tore, phase, Locals>>

(* A child is rejected: the rollback starts at the last executed one.      *)
RejectChild ==
  /\ phase = "executing" /\ index <= NumChildren
  /\ phase' = "rollback" /\ index' = count
  /\ UNCHANGED <<cell, count, executed, undone, tore, Locals>>

EndExecute ==
  /\ phase = "executing" /\ index > NumChildren
  /\ executed' = (count > 0)
  /\ Return("undo")
  /\ UNCHANGED <<cell, count, undone, tore>>

(* m_executedCount follows the rollback child by child.                    *)
CountLeft == UNCHANGED count   \* mutant

CountDown == count' = index - 1

RollBackChild ==
  /\ phase = "rollback" /\ index >= 1
  /\ ChildUndoes(index)
  /\ CountDown
  /\ index' = index - 1
  /\ UNCHANGED <<executed, undone, tore, phase, Locals>>

RollBackFails ==
  /\ phase = "rollback" /\ index >= 1
  /\ UNCHANGED cell \/ ChildTears(index)
  /\ executed' = TRUE
  /\ Return("undo")
  /\ UNCHANGED <<count, undone, tore>>

EndRollBack ==
  /\ phase = "rollback" /\ index = 0
  /\ count' = 0
  /\ Return(holder)
  /\ UNCHANGED <<cell, executed, undone, tore>>

-----------------------------------------------------------------------------
(* CommandManager calls undo(), if the command counts as executed.         *)
BeginUndo ==
  /\ phase = "idle"
  /\ holder = "undo" /\ executed
  /\ originalCount' = count
  /\ executedBefore' = executed
  /\ undone' = FALSE /\ tore' = FALSE
  /\ phase' = "undoing" /\ index' = count
  /\ atCall' = Snapshot
  /\ UNCHANGED <<cell, count, executed, holder>>

UndoChild ==
  /\ phase = "undoing" /\ index >= 1
  /\ ChildUndoes(index)
  /\ index' = index - 1
  /\ UNCHANGED <<count, executed, undone, tore, phase, Locals>>

(* A child refuses: the children after it are applied again.  Its own tear *)
(* is passed on.                                                           *)
ForgetTear == UNCHANGED tore   \* mutant

ReportTear == tore' = TRUE

UndoChildRefused ==
  /\ phase = "undoing" /\ index >= 1
  /\ \/ UNCHANGED <<cell, tore>>
     \/ ChildTears(index) /\ ReportTear
  /\ phase' = "reapplying" /\ index' = index + 1
  /\ UNCHANGED <<count, executed, undone, Locals>>

(* Mutant: the loop stops one child short.                                 *)
EndUndoEarly ==
  /\ phase = "undoing" /\ index = 1
  /\ count' = 0
  /\ executed' = FALSE
  /\ undone' = TRUE
  /\ Return("redo")
  /\ UNCHANGED <<cell, tore>>

EndUndo ==
  /\ phase = "undoing" /\ index = 0
  /\ count' = 0
  /\ executed' = FALSE
  /\ undone' = TRUE
  /\ Return("redo")
  /\ UNCHANGED <<cell, tore>>

(* Mutant: the loop runs one child too far.                                *)
ReapplyChildTooFar ==
  /\ phase = "reapplying" /\ index <= originalCount + 1
  /\ ChildExecutes(index)
  /\ index' = index + 1
  /\ UNCHANGED <<count, executed, undone, tore, phase, Locals>>

ReapplyChild ==
  /\ phase = "reapplying" /\ index <= originalCount
  /\ ChildExecutes(index)
  /\ index' = index + 1
  /\ UNCHANGED <<count, executed, undone, tore, phase, Locals>>

ReapplyFails ==
  /\ phase = "reapplying" /\ index <= originalCount
  /\ CountDown
  /\ executed' = (count' > 0)
  /\ tore' = TRUE
  /\ Return(holder)
  /\ UNCHANGED <<cell, undone>>

(* Mutant: the loop has no way out.                                        *)
EndReapplyNever == FALSE /\ UNCHANGED vars

EndReapply ==
  /\ phase = "reapplying" /\ index > originalCount
  /\ count' = originalCount
  /\ executed' = executedBefore
  /\ Return(holder)
  /\ UNCHANGED <<cell, undone, tore>>

Next ==
  \/ BeginExecute \/ ExecuteChild \/ RejectChild \/ EndExecute
  \/ RollBackChild \/ RollBackFails \/ EndRollBack
  \/ BeginUndo \/ UndoChild \/ UndoChildRefused \/ EndUndo
  \/ ReapplyChild \/ ReapplyFails \/ EndReapply

(* A call runs to its end: execute() and undo() are ordinary loops over    *)
(* the children and every child call returns.  Nobody has to call them.    *)
Fairness ==
  WF_vars(ExecuteChild \/ RejectChild \/ EndExecute
          \/ RollBackChild \/ RollBackFails \/ EndRollBack
          \/ UndoChild \/ UndoChildRefused \/ EndUndo
          \/ ReapplyChild \/ ReapplyFails \/ EndReapply)

Spec == Init /\ [][Next]_vars /\ Fairness

-----------------------------------------------------------------------------
Applied(c) == {i \in Child : c[i] # "off"}

TypeOK ==
  /\ cell \in [Child -> {"off", "on", "torn"}]
  /\ count \in 0 .. NumChildren
  /\ executed \in BOOLEAN /\ undone \in BOOLEAN /\ tore \in BOOLEAN
  /\ phase \in {"idle", "executing", "rollback", "undoing", "reapplying"}
  /\ index \in 0 .. NumChildren + 1
  /\ originalCount \in 0 .. NumChildren
  /\ executedBefore \in BOOLEAN
  /\ holder \in {"client", "undo", "redo"}
  /\ atCall.cell \in [Child -> {"off", "on", "torn"}]

(* Between calls m_executedCount says exactly which children are applied,  *)
(* after any sequence of rejections, failed rollbacks and refused undos:   *)
(* the next undo() starts from it, so that a child beyond it would stay in *)
(* the document for ever and a child too many would be undone twice.       *)
CountIsWhatIsApplied ==
  phase = "idle" => Applied(cell) = 1 .. count

(* Between calls the command is on the undo stack exactly while it has     *)
(* some child in the document.                                             *)
UndoableWhileApplied ==
  phase = "idle" => (holder = "undo" <=> Applied(cell) # {})

(* Seen from CommandManager, which observes the command only between       *)
(* calls, the loops behave as one atomic command.                          *)
Atomic == INSTANCE AtomicCommand WITH
  cell     <- IF phase = "idle" THEN cell ELSE atCall.cell,
  executed <- IF phase = "idle" THEN executed ELSE atCall.executed,
  undone   <- IF phase = "idle" THEN undone ELSE atCall.undone,
  tore     <- IF phase = "idle" THEN tore ELSE atCall.tore,
  holder   <- IF phase = "idle" THEN holder ELSE atCall.holder

ImplementsAtomicCommand == Atomic!Spec

(* Every call of execute() or undo() returns.                              *)
EveryCallReturns == phase # "idle" ~> phase = "idle"
=============================================================================
