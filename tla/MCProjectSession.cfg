SPECIFICATION SessionSpec
CONSTANTS
  c1 = c1
  Cores = {c1}
  Shown <- MCShown
  TokenOf <- MCTokenOf
  CoreLimit <- MCCoreLimit
  ScopeLimits <- MCScopeLimits
  KindScope <- MCKindScope
  Values = {v0, v1}
  DefaultValue = v0
  Unlimited = Unlimited
  NoInstance = NoInstance
  NoRecord = NoRecord
  NoValue = NoValue
  NoState = NoState
  Views = {"grid"}
  Projects <- MCProjects
  MaxSuffix = 1
  MaxRecords = 2
  MaxUndoDepth = 2
  MaxStateId = 2
INVARIANTS
  CleanIsSaved
PROPERTIES
  OwnersMerge
  EditsShow
CHECK_DEADLOCK FALSE
