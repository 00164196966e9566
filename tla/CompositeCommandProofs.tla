----------------------- MODULE CompositeCommandProofs -----------------------
(***************************************************************************)
(* What holds of CompositeCommand for any number of children, each free to *)
(* fail at every call.                                                     *)
(***************************************************************************)
EXTENDS CompositeCommand, FiniteSetTheorems, TLAPS

(* Where the loops are: which children are in the document while loop      *)
(* variable and count run, and on which stack the command is meanwhile.    *)
Between ==
  phase = "idle" =>
    /\ Applied(cell) = 1 .. count
    /\ holder = "undo" <=> count > 0
    /\ executed <=> count > 0

Executing ==
  phase = "executing" =>
    /\ index \in 1 .. NumChildren + 1 /\ count = index - 1
    /\ Applied(cell) = 1 .. count
    /\ holder # "undo" /\ ~executed

RollingBack ==
  phase = "rollback" =>
    /\ index \in 0 .. NumChildren /\ count = index
    /\ Applied(cell) = 1 .. count
    /\ holder # "undo" /\ ~executed

Undoing ==
  phase = "undoing" =>
    /\ index \in 0 .. originalCount
    /\ Applied(cell) = 1 .. index
    /\ holder = "undo" /\ executed

Reapplying ==
  phase = "reapplying" =>
    /\ index \in 2 .. originalCount + 1
    /\ Applied(cell) = 1 .. index - 1
    /\ holder = "undo" /\ executed

DuringUndo ==
  phase \in {"undoing", "reapplying"} =>
    originalCount > 0 /\ originalCount = count /\ executedBefore

Inv ==
  /\ TypeOK
  /\ Between /\ Executing /\ RollingBack /\ Undoing /\ Reapplying /\ DuringUndo

(* What the call of a child does to the set of applied children.           *)
LEMMA ChildCalls ==
  ASSUME TypeOK, NEW i \in Child
  PROVE  /\ ChildExecutes(i) =>
              Applied(cell') = Applied(cell) \cup {i} /\ cell' \in [Child -> {"off", "on", "torn"}]
         /\ ChildUndoes(i) =>
              Applied(cell') = Applied(cell) \ {i} /\ cell' \in [Child -> {"off", "on", "torn"}]
         /\ ChildTears(i) =>
              Applied(cell') = Applied(cell) \cup {i} /\ cell' \in [Child -> {"off", "on", "torn"}]
BY DEF TypeOK, Applied, ChildExecutes, ChildUndoes, ChildTears

(* Runs of applied children grow and shrink at their end.                  *)
LEMMA Runs ==
  ASSUME NEW n \in Nat
  PROVE  /\ (1 .. n) \cup {n + 1} = 1 .. n + 1
         /\ n >= 1 => (1 .. n) \ {n} = 1 .. n - 1
         /\ n >= 1 => (1 .. n) \cup {n} = 1 .. n
OBVIOUS

(* The initial state satisfies the invariant.                              *)
LEMMA InitInv == Init => Inv
<1> SUFFICES ASSUME Init PROVE Inv
  OBVIOUS
<1>1. TypeOK
  <2>1. atCall.cell = cell /\ cell \in [Child -> {"off", "on", "torn"}]
    BY DEF Init, Snapshot
  <2>2. /\ count \in 0 .. NumChildren /\ index \in 0 .. NumChildren + 1
        /\ originalCount \in 0 .. NumChildren
    BY CompositeCommandAssumption DEF Init
  <2>3. /\ executed \in BOOLEAN /\ undone \in BOOLEAN /\ tore \in BOOLEAN
        /\ executedBefore \in BOOLEAN
    BY DEF Init
  <2> QED BY <2>1, <2>2, <2>3 DEF Init, TypeOK
<1>2. Applied(cell) = {}
  BY DEF Init, Applied
<1>3. Between
  BY <1>2 DEF Init, Between
<1>4. Executing /\ RollingBack /\ Undoing /\ Reapplying /\ DuringUndo
  BY DEF Init, Executing, RollingBack, Undoing, Reapplying, DuringUndo
<1> QED BY <1>1, <1>3, <1>4 DEF Inv

(* Every step keeps it.                                                    *)
LEMMA StepInv == Inv /\ [Next]_vars => Inv'
<1> SUFFICES ASSUME Inv, [Next]_vars PROVE Inv'
  OBVIOUS
<1>n. NumChildren \in Nat \ {0} /\ Child = 1 .. NumChildren
  BY CompositeCommandAssumption DEF Child
<1> USE DEF Inv, TypeOK, Between, Executing, RollingBack, Undoing, Reapplying, DuringUndo
<1>1. CASE BeginExecute
  <2>1. count = 0 /\ count' = 0 /\ holder # "undo" /\ Applied(cell) = 1 .. 0
    BY <1>1 DEF BeginExecute
  <2>2. TypeOK'
    <3>1. atCall'.cell = cell
      BY <1>1 DEF BeginExecute, Snapshot
    <3>2. index' \in 0 .. NumChildren + 1 /\ count' \in 0 .. NumChildren
          /\ originalCount' \in 0 .. NumChildren
      BY <1>1, <1>n, <2>1 DEF BeginExecute
    <3>3. /\ executed' \in BOOLEAN /\ undone' \in BOOLEAN /\ tore' \in BOOLEAN
          /\ executedBefore' \in BOOLEAN
      BY <1>1 DEF BeginExecute
    <3> QED BY <1>1, <3>1, <3>2, <3>3 DEF BeginExecute
  <2>3. Executing'
    BY <1>1, <1>n, <2>1 DEF BeginExecute
  <2> QED BY <1>1, <2>2, <2>3 DEF BeginExecute
<1>2. CASE ExecuteChild
  <2>1. index \in Child /\ index - 1 \in Nat /\ index - 1 + 1 = index
    BY <1>2, <1>n DEF ExecuteChild
  <2>2. Applied(cell') = (1 .. index - 1) \cup {index} /\ cell' \in [Child -> {"off", "on", "torn"}]
    BY <1>2, <2>1, ChildCalls DEF ExecuteChild
  <2>3. Applied(cell') = 1 .. index
    BY <2>1, <2>2, Runs
  <2> QED BY <1>2, <1>n, <2>1, <2>2, <2>3 DEF ExecuteChild, Locals
<1>3. CASE RejectChild
  BY <1>3, <1>n DEF RejectChild, Locals
<1>4. CASE EndExecute
  <2>0. count = NumChildren /\ count > 0 /\ holder' = "undo"
    BY <1>4, <1>n DEF EndExecute, Return
  <2>1. executed' = TRUE
    <3>1. (count > 0) = TRUE
      BY <2>0
    <3> QED BY <1>4, <3>1, Zenon DEF EndExecute
  <2>2. TypeOK'
    BY <1>4, <1>n, <2>0, <2>1 DEF EndExecute, Return
  <2>3. Between'
    BY <1>4, <1>n, <2>0, <2>1 DEF EndExecute, Return
  <2> QED BY <1>4, <2>2, <2>3 DEF EndExecute, Return
<1>5. CASE RollBackChild
  <2>1. index \in Child /\ index >= 1 /\ index \in Nat
    BY <1>5, <1>n DEF RollBackChild
  <2>2. Applied(cell') = (1 .. index) \ {index} /\ cell' \in [Child -> {"off", "on", "torn"}]
    BY <1>5, <2>1, ChildCalls DEF RollBackChild
  <2>3. Applied(cell') = 1 .. index - 1
    BY <2>1, <2>2, Runs
  <2> QED BY <1>5, <1>n, <2>1, <2>2, <2>3 DEF RollBackChild, CountDown, Locals
<1>6. CASE RollBackFails
  <2>1. index \in Child /\ index >= 1 /\ index \in Nat
    BY <1>6, <1>n DEF RollBackFails
  <2>2. Applied(cell') = 1 .. index /\ cell' \in [Child -> {"off", "on", "torn"}]
    <3>1. CASE UNCHANGED cell
      BY <1>6, <3>1 DEF RollBackFails
    <3>2. CASE ChildTears(index)
      BY <1>6, <2>1, <3>2, ChildCalls, Runs DEF RollBackFails
    <3> QED BY <1>6, <3>1, <3>2 DEF RollBackFails
  <2> QED BY <1>6, <1>n, <2>1, <2>2 DEF RollBackFails, Return
<1>7. CASE EndRollBack
  BY <1>7, <1>n DEF EndRollBack, Return
<1>8. CASE BeginUndo
  <2>1. count > 0 /\ Applied(cell) = 1 .. count /\ executedBefore'
    BY <1>8 DEF BeginUndo
  <2>2. TypeOK'
    <3>1. atCall'.cell = cell
      BY <1>8 DEF BeginUndo, Snapshot
    <3>2. index' \in 0 .. NumChildren + 1 /\ count' \in 0 .. NumChildren
          /\ originalCount' \in 0 .. NumChildren
      BY <1>8, <1>n, <2>1 DEF BeginUndo
    <3>3. /\ executed' \in BOOLEAN /\ undone' \in BOOLEAN /\ tore' \in BOOLEAN
          /\ executedBefore' \in BOOLEAN
      BY <1>8 DEF BeginUndo
    <3> QED BY <1>8, <3>1, <3>2, <3>3 DEF BeginUndo
  <2>3. Undoing' /\ DuringUndo'
    BY <1>8, <1>n, <2>1 DEF BeginUndo
  <2> QED BY <1>8, <2>2, <2>3 DEF BeginUndo
<1>9. CASE UndoChild
  <2>1. index \in Child /\ index >= 1 /\ index \in Nat
    BY <1>9, <1>n DEF UndoChild
  <2>2. Applied(cell') = (1 .. index) \ {index} /\ cell' \in [Child -> {"off", "on", "torn"}]
    BY <1>9, <2>1, ChildCalls DEF UndoChild
  <2>3. Applied(cell') = 1 .. index - 1
    BY <2>1, <2>2, Runs
  <2> QED BY <1>9, <1>n, <2>1, <2>2, <2>3 DEF UndoChild, Locals
<1>10. CASE UndoChildRefused
  <2>1. index \in Child /\ index >= 1 /\ index \in Nat /\ index + 1 - 1 = index
    BY <1>10, <1>n DEF UndoChildRefused
  <2>2. /\ Applied(cell') = 1 .. index /\ cell' \in [Child -> {"off", "on", "torn"}]
        /\ tore' \in BOOLEAN
    <3>1. CASE UNCHANGED <<cell, tore>>
      BY <1>10, <3>1 DEF UndoChildRefused
    <3>2. CASE ChildTears(index) /\ ReportTear
      BY <1>10, <2>1, <3>2, ChildCalls, Runs DEF UndoChildRefused, ReportTear
    <3> QED BY <1>10, <3>1, <3>2 DEF UndoChildRefused
  <2> QED BY <1>10, <1>n, <2>1, <2>2 DEF UndoChildRefused, Locals
<1>11. CASE EndUndo
  <2>1. Applied(cell') = 1 .. 0 /\ count' = 0 /\ executed' = FALSE /\ holder' = "redo"
    BY <1>11 DEF EndUndo, Return
  <2>2. TypeOK'
    <3>1. executed' \in BOOLEAN /\ undone' \in BOOLEAN
      BY <1>11 DEF EndUndo
    <3> QED BY <1>11, <1>n, <2>1, <3>1 DEF EndUndo, Return
  <2>3. Between'
    BY <2>1
  <2> QED BY <1>11, <2>2, <2>3 DEF EndUndo, Return
<1>12. CASE ReapplyChild
  <2>1. index \in Child /\ index - 1 \in Nat /\ index - 1 + 1 = index
    BY <1>12, <1>n DEF ReapplyChild
  <2>2. Applied(cell') = (1 .. index - 1) \cup {index} /\ cell' \in [Child -> {"off", "on", "torn"}]
    BY <1>12, <2>1, ChildCalls DEF ReapplyChild
  <2>3. Applied(cell') = 1 .. index
    BY <2>1, <2>2, Runs
  <2> QED BY <1>12, <1>n, <2>1, <2>2, <2>3 DEF ReapplyChild, Locals
<1>13. CASE ReapplyFails
  <2>1. /\ count' = index - 1 /\ count' \in 1 .. NumChildren
        /\ Applied(cell') = 1 .. count' /\ holder' = "undo"
    BY <1>13, <1>n DEF ReapplyFails, CountDown, Return
  <2>2. executed' = TRUE
    <3>1. (count' > 0) = TRUE
      BY <2>1, <1>n
    <3> QED BY <1>13, <3>1, Zenon DEF ReapplyFails
  <2>3. TypeOK'
    BY <1>13, <1>n, <2>1, <2>2 DEF ReapplyFails, Return
  <2>4. Between'
    BY <1>n, <2>1, <2>2
  <2> QED BY <1>13, <2>3, <2>4 DEF ReapplyFails, Return
<1>14. CASE EndReapply
  BY <1>14, <1>n DEF EndReapply, Return
<1>15. CASE UNCHANGED vars
  BY <1>15 DEF vars
<1> QED BY <1>1, <1>2, <1>3, <1>4, <1>5, <1>6, <1>7, <1>8, <1>9, <1>10, <1>11, <1>12,
           <1>13, <1>14, <1>15 DEF Next

(* The invariant holds throughout.                                         *)
LEMMA Invariance == Spec => []Inv
BY InitInv, StepInv, PTL DEF Spec

(* THEOREM: types, and the bounds of the loop variable and the counts: no  *)
(* loop of execute() or undo() reaches past the list of children.          *)
THEOREM TypeCorrect == Spec => []TypeOK
<1>1. Inv => TypeOK
  BY DEF Inv
<1> QED BY <1>1, Invariance, PTL

(* THEOREM: between calls m_executedCount is exactly the run of children   *)
(* in the document, however many calls failed and wherever.                *)
THEOREM CountIsExact == Spec => []CountIsWhatIsApplied
<1>1. Inv => CountIsWhatIsApplied
  BY DEF Inv, Between, CountIsWhatIsApplied
<1> QED BY <1>1, Invariance, PTL

(* THEOREM: between calls the command is on the undo stack if and only if  *)
(* some of its children are in the document, so none is out of reach.      *)
THEOREM AppliedIsUndoable == Spec => []UndoableWhileApplied
<1>1. Inv => UndoableWhileApplied
  <2>1. ASSUME Inv, phase = "idle" PROVE holder = "undo" <=> Applied(cell) # {}
    <3>1. Applied(cell) = 1 .. count /\ count \in Nat /\ (holder = "undo" <=> count > 0)
      BY <2>1, CompositeCommandAssumption DEF Inv, Between, TypeOK
    <3>2. (1 .. count # {}) <=> count > 0
      BY <3>1
    <3> QED BY <3>1, <3>2
  <2> QED BY <2>1 DEF UndoableWhileApplied
<1> QED BY <1>1, Invariance, PTL

-----------------------------------------------------------------------------
(* The refinement.  Between calls AtomicCommand sees the command as it is; *)
(* during a call it sees the state the call began in, and what has been    *)
(* done since is one of the results it allows, not yet complete.           *)
CellsExecuting ==
  phase = "executing" => \A i \in Child : cell[i] = IF i < index THEN "on" ELSE "off"

CellsRollingBack ==
  phase = "rollback" =>
    /\ \A i \in Child : cell[i] = IF i <= index THEN "on" ELSE "off"
    /\ index < NumChildren

(* The children before the one undo() has come to are as they were.        *)
CellsUndoing ==
  phase = "undoing" =>
    \A i \in Child : cell[i] = IF i <= index THEN atCall.cell[i] ELSE "off"

(* Child k refused: those after it are applied again, up to the loop.      *)
RefusedAt(k) ==
  \A i \in Child :
    cell[i] = IF i < k THEN atCall.cell[i]
              ELSE IF i = k THEN IF tore THEN "torn" ELSE atCall.cell[i]
              ELSE IF i < index THEN "on" ELSE "off"

CellsReapplying ==
  phase = "reapplying" => \E k \in 1 .. index - 1 : RefusedAt(k)

CallInv ==
  /\ phase # "idle" => atCall.holder = holder /\ undone = FALSE
  /\ phase \in {"executing", "rollback", "undoing"} => tore = FALSE
  /\ phase \in {"undoing", "reapplying"} => Applied(atCall.cell) = 1 .. originalCount
  /\ CellsExecuting /\ CellsRollingBack /\ CellsUndoing /\ CellsReapplying

(* It holds between calls, where it says nothing.                          *)
LEMMA InitCall == Init => CallInv
BY DEF Init, CallInv, CellsExecuting, CellsRollingBack, CellsUndoing, CellsReapplying

(* Every step keeps it.                                                    *)
LEMMA StepCall == Inv /\ CallInv /\ [Next]_vars => CallInv'
<1> SUFFICES ASSUME Inv, CallInv, [Next]_vars PROVE CallInv'
  OBVIOUS
<1>n. /\ NumChildren \in Nat \ {0} /\ Child = 1 .. NumChildren
      /\ index \in Int /\ cell \in [Child -> {"off", "on", "torn"}]
  BY CompositeCommandAssumption DEF Child, Inv, TypeOK
<1> USE DEF CallInv, CellsExecuting, CellsRollingBack, CellsUndoing, CellsReapplying
<1>1. CASE BeginExecute
  <2>1. Applied(cell) = 1 .. count /\ count = 0
    BY <1>1, CompositeCommandAssumption DEF BeginExecute, Inv, TypeOK, Between
  <2>2. \A i \in Child : cell[i] = "off"
    BY <2>1 DEF Applied
  <2> QED BY <1>1, <1>n, <2>2 DEF BeginExecute, Snapshot
<1>2. CASE ExecuteChild
  BY <1>2, <1>n DEF ExecuteChild, ChildExecutes, Locals
<1>3. CASE RejectChild
  BY <1>3, <1>n DEF RejectChild, Locals, Inv, Executing
<1>4. CASE EndExecute \/ RollBackFails \/ EndRollBack \/ EndUndo \/ ReapplyFails \/ EndReapply
  BY <1>4 DEF EndExecute, RollBackFails, EndRollBack, EndUndo, ReapplyFails, EndReapply, Return
<1>5. CASE RollBackChild
  BY <1>5, <1>n DEF RollBackChild, ChildUndoes, Locals
<1>6. CASE BeginUndo
  <2>1. Applied(cell) = 1 .. count /\ count \in Nat /\ atCall'.cell = cell /\ atCall'.holder = holder
    BY <1>6 DEF BeginUndo, Snapshot, Inv, TypeOK, Between
  <2>2. \A i \in Child : i > count => cell[i] = "off"
    BY <2>1, <1>n DEF Applied
  <2> QED BY <1>6, <1>n, <2>1, <2>2 DEF BeginUndo
<1>7. CASE UndoChild
  BY <1>7, <1>n DEF UndoChild, ChildUndoes, Locals
<1>8. CASE UndoChildRefused
  <2>1. PICK k \in 1 .. index' - 1 : k = index
    BY <1>8, <1>n DEF UndoChildRefused
  <2>2. /\ index' = k + 1 /\ atCall' = atCall
        /\ \A i \in Child : cell[i] = IF i <= k THEN atCall.cell[i] ELSE "off"
        /\ tore = FALSE
    BY <1>8, <2>1 DEF UndoChildRefused, Locals
  <2>3. RefusedAt(k)'
    <3>1. CASE UNCHANGED <<cell, tore>>
      BY <1>n, <2>1, <2>2, <3>1 DEF RefusedAt
    <3>2. CASE ChildTears(index) /\ ReportTear
      BY <1>n, <2>1, <2>2, <3>2 DEF RefusedAt, ChildTears, ReportTear
    <3> QED BY <1>8, <3>1, <3>2 DEF UndoChildRefused
  <2> QED BY <1>8, <2>1, <2>3 DEF UndoChildRefused, Locals
<1>9. CASE ReapplyChild
  <2>1. PICK k \in 1 .. index - 1 : RefusedAt(k)
    BY <1>9 DEF ReapplyChild
  <2>2. RefusedAt(k)'
    BY <1>9, <1>n, <2>1 DEF ReapplyChild, ChildExecutes, RefusedAt, Locals
  <2>3. k \in 1 .. index' - 1
    BY <1>9, <1>n DEF ReapplyChild
  <2> QED BY <1>9, <2>2, <2>3 DEF ReapplyChild, Locals
<1>10. CASE UNCHANGED vars
  <2>1. CASE phase = "reapplying"
    <3>1. PICK k \in 1 .. index - 1 : RefusedAt(k)
      BY <2>1
    <3>2. RefusedAt(k)' /\ index' = index
      BY <1>10, <3>1 DEF vars, RefusedAt
    <3> QED BY <1>10, <2>1, <3>1, <3>2 DEF vars
  <2>2. CASE phase # "reapplying"
    BY <1>10, <2>2 DEF vars
  <2> QED BY <2>1, <2>2
<1> QED BY <1>1, <1>2, <1>3, <1>4, <1>5, <1>6, <1>7, <1>8, <1>9, <1>10 DEF Next

(* What AtomicCommand sees is what the call began with, or what it         *)
(* returned.                                                               *)
LEMMA SeenBetween ==
  /\ phase = "idle" => Atomic!vars = <<cell, executed, undone, tore, holder>>
  /\ phase # "idle" =>
       Atomic!vars = <<atCall.cell, atCall.executed, atCall.undone, atCall.tore, atCall.holder>>
BY DEF Atomic!vars

(* StuckAt, child by child.                                                *)
LEMMA StuckCells ==
  ASSUME NEW new \in [Child -> {"off", "on", "torn"}], NEW old, NEW k, NEW at, NEW j,
         \A i \in Child : new[i] = IF i < k THEN old[i]
                                   ELSE IF i = k THEN at
                                   ELSE IF i <= j THEN "on" ELSE "off"
  PROVE  new = Atomic!StuckAt(old, k, at, j)
<1>1. Atomic!Child = Child
  BY DEF Child, Atomic!Child
<1> QED BY <1>1 DEF Atomic!StuckAt

(* A call of execute() that returns has one of the results of the atomic   *)
(* one: all children, none, or what a failed rollback left.                *)
LEMMA ExecuteReturns ==
  ASSUME Inv, CallInv, EndExecute \/ RollBackFails \/ EndRollBack
  PROVE  Atomic!CallExecute
<1>n. /\ NumChildren \in Nat \ {0} /\ Child = 1 .. NumChildren
      /\ cell \in [Child -> {"off", "on", "torn"}]
      /\ Atomic!Child = Child
  BY CompositeCommandAssumption DEF Child, Inv, TypeOK, Atomic!Child
<1>1. /\ phase \in {"executing", "rollback"} /\ phase' = "idle"
      /\ holder \in {"client", "redo"} /\ atCall.holder = holder
      /\ undone' = FALSE /\ tore' = FALSE
  BY DEF EndExecute, RollBackFails, EndRollBack, Return, CallInv, Inv, TypeOK,
         Executing, RollingBack
<1>2. \E r \in Atomic!ExecuteResults :
        cell' = r.cell /\ executed' = r.executed
        /\ holder' = IF r.executed THEN "undo" ELSE atCall.holder
  <2>1. CASE EndExecute
    <3>1. index = NumChildren + 1 /\ count > 0
      BY <2>1, <1>n DEF EndExecute, Inv, Executing
    <3>2. executed' = TRUE
      <4>1. (count > 0) = TRUE
        BY <3>1
      <4> QED BY <2>1, <4>1, Zenon DEF EndExecute
    <3>3. cell = Atomic!AllOn
      BY <2>1, <3>1, <1>n DEF EndExecute, CallInv, CellsExecuting, Atomic!AllOn
    <3> DEFINE r == [executed |-> TRUE, cell |-> Atomic!AllOn]
    <3>4. r \in Atomic!ExecuteResults
      BY DEF Atomic!ExecuteResults
    <3>5. cell' = r.cell /\ executed' = r.executed /\ holder' = "undo"
      BY <2>1, <3>2, <3>3 DEF EndExecute, Return
    <3> QED BY <3>4, <3>5
  <2>2. CASE RollBackFails
    <3>1. index \in 1 .. NumChildren - 1
      BY <2>2, <1>n DEF RollBackFails, Inv, RollingBack, CallInv, CellsRollingBack
    <3>2. \E at \in {"on", "torn"} : cell' = Atomic!StuckAt(Atomic!AllOn, index, at, index)
      <4>1. CASE UNCHANGED cell
        <5>1. \A i \in Child : cell'[i] = IF i < index THEN Atomic!AllOn[i]
                                          ELSE IF i = index THEN "on"
                                          ELSE IF i <= index THEN "on" ELSE "off"
          BY <4>1, <2>2, <3>1, <1>n DEF RollBackFails, CallInv, CellsRollingBack, Atomic!AllOn
        <5> QED BY <4>1, <5>1, <1>n, StuckCells
      <4>2. CASE ChildTears(index)
        <5>1. /\ \A i \in Child : cell[i] = IF i <= index THEN "on" ELSE "off"
              /\ cell' = [cell EXCEPT ![index] = "torn"]
          BY <4>2, <2>2 DEF RollBackFails, CallInv, CellsRollingBack, ChildTears
        <5>2. \A i \in Child : cell'[i] = IF i < index THEN Atomic!AllOn[i]
                                          ELSE IF i = index THEN "torn"
                                          ELSE IF i <= index THEN "on" ELSE "off"
          BY <5>1, <3>1, <1>n DEF Atomic!AllOn
        <5>3. cell' \in [Child -> {"off", "on", "torn"}]
          BY <5>1, <1>n
        <5> QED BY <5>2, <5>3, <1>n, StuckCells
      <4> QED BY <2>2, <4>1, <4>2 DEF RollBackFails
    <3>3. PICK at \in {"on", "torn"} : cell' = Atomic!StuckAt(Atomic!AllOn, index, at, index)
      BY <3>2
    <3> DEFINE r == [executed |-> TRUE, cell |-> Atomic!StuckAt(Atomic!AllOn, index, at, index)]
    <3>4. r \in Atomic!ExecuteResults
      <4>1. r.cell \in {Atomic!StuckAt(Atomic!AllOn, k, a, k) : k \in 1 .. NumChildren - 1, a \in {"on", "torn"}}
        BY <3>1, <3>3
      <4> QED BY <4>1 DEF Atomic!ExecuteResults
    <3>5. cell' = r.cell /\ executed' = r.executed /\ holder' = "undo"
      BY <2>2, <3>3 DEF RollBackFails, Return
    <3> QED BY <3>4, <3>5
  <2>3. CASE EndRollBack
    <3>1. cell = Atomic!AllOff
      BY <2>3, <1>n DEF EndRollBack, CallInv, CellsRollingBack, Atomic!AllOff
    <3> DEFINE r == [executed |-> FALSE, cell |-> Atomic!AllOff]
    <3>2. r \in Atomic!ExecuteResults
      BY DEF Atomic!ExecuteResults
    <3>3. cell' = r.cell /\ executed' = r.executed /\ holder' = atCall.holder
      BY <2>3, <3>1, <1>1 DEF EndRollBack, Return, Inv, RollingBack, TypeOK
    <3> QED BY <3>2, <3>3
  <2> QED BY <2>1, <2>2, <2>3
<1> QED BY <1>1, <1>2 DEF Atomic!CallExecute

(* AtomicCommand counts as this module does.                               *)
LEMMA SameCardinality ==
  ASSUME NEW S PROVE Atomic!Cardinality(S) = Cardinality(S)
BY DEF Atomic!Cardinality, Cardinality

(* So does a call of undo(): every child taken back, or refused at some    *)
(* child, with those after it applied again or not.                        *)
LEMMA UndoReturns ==
  ASSUME Inv, CallInv, EndUndo \/ ReapplyFails \/ EndReapply
  PROVE  Atomic!CallUndo
<1>n. /\ NumChildren \in Nat \ {0} /\ Child = 1 .. NumChildren
      /\ cell \in [Child -> {"off", "on", "torn"}]
      /\ Atomic!Child = Child
  BY CompositeCommandAssumption DEF Child, Inv, TypeOK, Atomic!Child
<1>1. /\ phase \in {"undoing", "reapplying"} /\ phase' = "idle"
      /\ holder = "undo" /\ atCall.holder = "undo"
      /\ undone = FALSE
      /\ originalCount \in 1 .. NumChildren /\ executedBefore = TRUE
      /\ Applied(atCall.cell) = 1 .. originalCount
      /\ Atomic!Applied(atCall.cell) = Applied(atCall.cell)
  BY <1>n DEF EndUndo, ReapplyFails, EndReapply, Return, CallInv, Inv, TypeOK,
         Undoing, Reapplying, DuringUndo, Applied, Atomic!Applied
<1>2. Atomic!Cardinality(Atomic!Applied(atCall.cell)) = originalCount
  BY <1>1, FS_Interval, SameCardinality
<1> DEFINE old == atCall.cell
           Returned(r) == /\ cell' = r.cell /\ executed' = ~r.undone
                          /\ undone' = r.undone /\ tore' = r.tore
                          /\ holder' = IF r.undone THEN "redo" ELSE "undo"
<1>3. \E r \in Atomic!UndoResults(old) : Returned(r)
  <2>1. CASE EndUndo
    <3> DEFINE r == [undone |-> TRUE, tore |-> FALSE, cell |-> Atomic!AllOff]
    <3>1. cell = Atomic!AllOff
      BY <2>1, <1>n DEF EndUndo, CallInv, CellsUndoing, Atomic!AllOff
    <3>2. r \in Atomic!UndoResults(old)
      BY DEF Atomic!UndoResults
    <3>3. /\ cell' = Atomic!AllOff /\ executed' = FALSE /\ undone' = TRUE /\ tore' = FALSE
          /\ holder' = "redo"
      BY <2>1, <3>1 DEF EndUndo, Return, CallInv
    <3> QED BY <3>2, <3>3
  <2>2. CASE ReapplyFails \/ EndReapply
    <3>1. PICK k \in 1 .. index - 1 : RefusedAt(k)
      BY <2>2 DEF ReapplyFails, EndReapply, CallInv, CellsReapplying
    <3>2. /\ index \in 2 .. originalCount + 1 /\ cell' = cell
          /\ EndReapply => index = originalCount + 1
          /\ executed' = TRUE /\ undone' = FALSE /\ holder' = "undo"
      <4>1. /\ index \in 2 .. originalCount + 1 /\ cell' = cell
            /\ EndReapply => index = originalCount + 1
        <5>1. phase = "reapplying" /\ cell' = cell /\ (EndReapply => index > originalCount)
          BY <2>2 DEF ReapplyFails, EndReapply
        <5>2. index \in 2 .. originalCount + 1
          BY <5>1 DEF Inv, Reapplying
        <5> QED BY <5>1, <5>2, <1>1
      <4>2. executed' = TRUE
        <5>1. CASE ReapplyFails
          <6>1. count' = index - 1
            BY <5>1 DEF ReapplyFails, CountDown
          <6>2. (count' > 0) = TRUE
            BY <4>1, <6>1, <1>1
          <6> QED BY <5>1, <6>2, Zenon DEF ReapplyFails
        <5>2. CASE EndReapply
          BY <5>2, <1>1 DEF EndReapply
        <5> QED BY <2>2, <5>1, <5>2
      <4>3. undone' = FALSE /\ holder' = "undo"
        BY <2>2, <1>1 DEF ReapplyFails, EndReapply, Return
      <4> QED BY <4>1, <4>2, <4>3
    <3>3. k \in 1 .. originalCount /\ index - 1 \in 1 .. originalCount
      BY <3>1, <3>2, <1>1
    <3>4. CASE tore' = TRUE
      <4>1. \/ cell = Atomic!StuckAt(old, k, "torn", index - 1)
            \/ cell = Atomic!StuckAt(old, k, old[k], index - 1)
        <5>1. CASE tore
          BY <5>1, <3>1, <3>2, <1>1, <1>n, StuckCells DEF RefusedAt
        <5>2. CASE ~tore
          BY <5>2, <3>1, <3>2, <1>1, <1>n, StuckCells DEF RefusedAt
        <5> QED BY <5>1, <5>2
      <4> DEFINE r == [undone |-> FALSE, tore |-> TRUE, cell |-> cell]
      <4>2. r \in Atomic!UndoResults(old)
        <5>1. cell \in UNION {{Atomic!StuckAt(old, m, "torn", j), Atomic!StuckAt(old, m, old[m], j)} :
                               m \in Atomic!Applied(old), j \in Atomic!Applied(old)}
          <6>1. k \in Atomic!Applied(old) /\ index - 1 \in Atomic!Applied(old)
            BY <3>3, <1>1
          <6> DEFINE Left(m, j) == {Atomic!StuckAt(old, m, "torn", j), Atomic!StuckAt(old, m, old[m], j)}
                     Set == {Left(m, j) : m \in Atomic!Applied(old), j \in Atomic!Applied(old)}
          <6>2. cell \in Left(k, index - 1)
            BY <4>1
          <6>3. Left(k, index - 1) \in Set
            <7> HIDE DEF Left
            <7> QED BY <6>1
          <6> HIDE DEF Left, Set
          <6>4. cell \in UNION Set
            BY <6>2, <6>3
          <6> QED BY <6>4 DEF Left, Set
        <5> QED BY <5>1 DEF Atomic!UndoResults
      <4> QED BY <3>2, <3>4, <4>2
    <3>5. CASE tore' # TRUE
      <4>1. EndReapply /\ tore = FALSE /\ tore' = FALSE
        BY <3>5, <2>2 DEF ReapplyFails, EndReapply, Inv, TypeOK
      <4>2. cell = Atomic!StuckAt(old, k, old[k], originalCount)
        BY <4>1, <3>1, <3>2, <1>1, <1>n, StuckCells DEF RefusedAt
      <4> DEFINE r == [undone |-> FALSE, tore |-> FALSE, cell |-> cell]
      <4>3. r \in Atomic!UndoResults(old)
        <5>1. cell \in {Atomic!StuckAt(old, m, old[m], Atomic!Cardinality(Atomic!Applied(old))) :
                         m \in Atomic!Applied(old)}
          BY <4>2, <3>3, <1>1, <1>2
        <5> QED BY <5>1 DEF Atomic!UndoResults
      <4> QED BY <3>2, <4>1, <4>3
    <3> QED BY <3>4, <3>5
  <2> QED BY <2>1, <2>2
<1> QED BY <1>1, <1>3 DEF Atomic!CallUndo

(* Every step of the loops is a step of AtomicCommand or invisible to it.  *)
LEMMA StepImplements ==
  ASSUME Inv, CallInv, [Next]_vars
  PROVE  Atomic!Next \/ UNCHANGED Atomic!vars
<1>1. CASE BeginExecute \/ BeginUndo
  <2>1. phase = "idle" /\ phase' # "idle" /\ atCall' = Snapshot
    BY <1>1 DEF BeginExecute, BeginUndo
  <2> QED BY <2>1 DEF Snapshot, Atomic!vars
<1>2. CASE ExecuteChild \/ RejectChild \/ RollBackChild \/ UndoChild \/ UndoChildRefused \/ ReapplyChild
  <2>1. phase # "idle" /\ phase' # "idle" /\ atCall' = atCall
    BY <1>2 DEF ExecuteChild, RejectChild, RollBackChild, UndoChild, UndoChildRefused,
                ReapplyChild, Locals
  <2> QED BY <2>1 DEF Atomic!vars
<1>3. CASE EndExecute \/ RollBackFails \/ EndRollBack
  BY <1>3, ExecuteReturns DEF Atomic!Next
<1>4. CASE EndUndo \/ ReapplyFails \/ EndReapply
  BY <1>4, UndoReturns DEF Atomic!Next
<1>5. CASE UNCHANGED vars
  BY <1>5 DEF vars, Atomic!vars
<1> QED BY <1>1, <1>2, <1>3, <1>4, <1>5 DEF Next

(* THEOREM: for any number of children, whichever of them fail at which    *)
(* calls, CompositeCommand implements AtomicCommand: CommandManager cannot *)
(* tell the loops from one command, and a refused undo that reports no     *)
(* tear has put every child back.                                          *)
THEOREM ImplementsAtomic == Spec => ImplementsAtomicCommand
<1>1. Init => Atomic!Init
  BY DEF Init, Atomic!Init, Atomic!AllOff, Child, Atomic!Child
<1>2. Inv /\ CallInv /\ [Next]_vars => [Atomic!Next]_(Atomic!vars)
  BY StepImplements
<1> QED BY <1>1, <1>2, InitCall, StepCall, Invariance, PTL
        DEF Spec, ImplementsAtomicCommand, Atomic!Spec
=============================================================================
