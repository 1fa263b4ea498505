SPECIFICATION ObservedSpec
CONSTANTS
  node = node
  Keys <- MCKeys
  CoreKeys = {}
  Clients = {}
  Health = health
  Step = 2
  MaxCount <- MCMaxCount
  MaxStoreFaults = 1
PROPERTIES
  ExactFinalCount
