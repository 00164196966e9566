SPECIFICATION Spec

CONSTANTS
  A = A
  B = B
  G = G
  M = M
  r1 = r1
  r2 = r2
  e = e
  b1 = b1
  b2 = b2
  f = f
  NoGraph = NoGraph
  Types <- MCTypes
  Ports <- MCPorts
  Port <- MCPort
  Classes <- MCClasses
  OwnType <- MCOwnType
  Misfits = {M}
  HostTypes = {"router"}
  AttachedTypes = {"endpoint"}
  Attachments <- MCAttachments
  Collapsible = {"router"}
  WholePlaced = {"router"}
  Instances <- MCInstances
  FreshIds = {f}
  Creatable <- MCCreatable
  InitialDesign <- MCDesign
  Presettable = {A}
  MaxSize = 3

INVARIANTS
  ViewIsCanonical
  GraphIsLegal

PROPERTIES
  EditsAreShown
  AcceptedEditsLoad
  FailureKeepsGraph

CHECK_DEADLOCK FALSE
