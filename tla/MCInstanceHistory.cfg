SPECIFICATION Spec
CONSTANTS
  c1 = c1
  c2 = c2
  Cores = {c1, c2}
  TokenOf <- MCTokenOf
  CoreLimit <- MCCoreLimit
  ScopeLimits <- MCScopeLimits
  KindScope <- MCKindScope
  Values = {v0, v1}
  DefaultValue = v0
  Unlimited = Unlimited
  NoInstance = NoInstance
  NoRecord = NoRecord
  NoValue = NoValue
  MaxSuffix = 1
  MaxRecords = 2
  Command <- Commands
  NewCommand <- NewCommands
  Document <- Documents
  InitialDocument <- MCInitialDocument
  Content <- RecordsOf
  Execute <- ExecuteInstanceCommand
  Undo <- UndoInstanceCommand
  Elsewhere <- SelectInstance
  Leads <- LeadsFrom
  MaxUndoDepth = 3
  MaxStateId = 6
INVARIANTS
  TypeOK
  StateIdNamesContent
  HistoryBounded
  StacksMeet
  InstanceIdsUnique
  SelectionExists
  LimitsKept
CHECK_DEADLOCK FALSE
