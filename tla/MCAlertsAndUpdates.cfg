SPECIFICATION Spec
CONSTANTS
  dacLost = dacLost
  nodeLost = nodeLost
  Keys <- MCKeys
  CoreKeys <- MCCoreKeys
  Clients = {client1}
  Health = health
  Step = 2
  MaxCount <- MCMaxCount
  MaxStoreFaults = 1
  Nodes = {n1, n2}
  MaxOps = 3
  MaxResets = 2
  MaxStops = 1
CHECK_DEADLOCK FALSE
INVARIANTS
  OneActivePerKey
  CacheMatchesStore
  VerdictsTrue
  FallbackKept
PROPERTIES
  CountsNeverDrop
  AlertsFollowConditions
  Settles
