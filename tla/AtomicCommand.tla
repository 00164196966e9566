---------------------------- MODULE AtomicCommand ----------------------------
(***************************************************************************)
(* What CompositeCommand promises to CommandManager: a group of children   *)
(* behaves as one command.  A call runs to its end in one step.            *)
(*                                                                         *)
(* cell[i] is what child i has done to the document: "off" nothing, "on"   *)
(* its edit, "torn" its edit half taken back (a child whose own undo       *)
(* failed after changing the document).                                    *)
(***************************************************************************)
EXTENDS Integers, FiniteSets

CONSTANT NumChildren

VARIABLES
  cell,       \* [Child -> {"off", "on", "torn"}]
  executed, undone, tore,   \* the flags of the command
  holder      \* who keeps the command: "client", "undo" or "redo" stack

Child == 1 .. NumChildren

AllOff == [i \in Child |-> "off"]
AllOn  == [i \in Child |-> "on"]

Applied(c) == {i \in Child : c[i] # "off"}

(* What is left when the undo of child k fails: the children before it as  *)
(* they were, child k as the failed undo left it, and the later ones up to *)
(* child j applied again.                                                  *)
StuckAt(old, k, at, j) ==
  [i \in Child |-> IF i < k THEN old[i]
                   ELSE IF i = k THEN at
                   ELSE IF i <= j THEN "on" ELSE "off"]

(* execute() applies every child, or none; only a rollback that fails as   *)
(* well leaves some, and then the command counts as executed, so that it   *)
(* stays in the history to be undone later.                                *)
ExecuteResults ==
  [executed: {TRUE}, cell: {AllOn}]
  \cup [executed: {FALSE}, cell: {AllOff}]
  \cup [executed: {TRUE},
        cell: {StuckAt(AllOn, k, at, k) : k \in 1 .. NumChildren - 1, at \in {"on", "torn"}}]

(* undo() takes every child back, or is refused at some child k.  A        *)
(* refused undo leaves the same children applied, or reports that it tore  *)
(* the command: child k half undone, or later children not applied again.  *)
UndoResults(old) ==
  [undone: {TRUE}, tore: {FALSE}, cell: {AllOff}]
  \cup [undone: {FALSE}, tore: {FALSE},
        cell: {StuckAt(old, k, old[k], Cardinality(Applied(old))) : k \in Applied(old)}]
  \cup [undone: {FALSE}, tore: {TRUE},
        cell: UNION {{StuckAt(old, k, "torn", j), StuckAt(old, k, old[k], j)} :
                       k \in Applied(old), j \in Applied(old)}]

Init ==
  /\ cell = AllOff
  /\ executed = FALSE /\ undone = FALSE /\ tore = FALSE
  /\ holder = "client"

CallExecute ==
  /\ holder \in {"client", "redo"}
  /\ \E r \in ExecuteResults :
       /\ cell' = r.cell
       /\ executed' = r.executed
       /\ holder' = IF r.executed THEN "undo" ELSE holder
  /\ undone' = FALSE
  /\ tore' = FALSE

CallUndo ==
  /\ holder = "undo"
  /\ \E r \in UndoResults(cell) :
       /\ cell' = r.cell
       /\ executed' = ~r.undone
       /\ undone' = r.undone
       /\ tore' = r.tore
       /\ holder' = IF r.undone THEN "redo" ELSE "undo"

Next == CallExecute \/ CallUndo

vars == <<cell, executed, undone, tore, holder>>

Spec == Init /\ [][Next]_vars
=============================================================================
