SPECIFICATION Spec
CONSTANT NumChildren = 3
INVARIANTS
  TypeOK
  CountIsWhatIsApplied
  UndoableWhileApplied
PROPERTIES
  ImplementsAtomicCommand
  EveryCallReturns
