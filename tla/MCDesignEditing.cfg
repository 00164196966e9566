CONSTANTS
  a = a
  b = b
  k = k
  x = x
  iface = iface
  o1 = o1
  o2 = o2
  pkg = pkg
  other = other
  v1 = v1
  NoVersion = NoVersion
  NotObject = NotObject
  NoRole = NoRole
  Refused = Refused
  Idle = Idle
  LayoutKeys <- MCLayoutKeys
  Patches <- MCPatches
  Seeds <- MCSeeds
  MaxHistory = 4
SPECIFICATION Spec
INVARIANTS TypeOK SnapshotsAreSound
PROPERTIES ImplementsTimeline WholePatchOrNothing RelationshipsKept
