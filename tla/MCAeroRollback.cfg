SPECIFICATION AeroSpec
CONSTANTS
  AeroCommands <- MCCommands
  Held = {0}
  MaxRequests = 1
  MaxAeroFaults = 1
  Kinds = {"protocol"}
PROPERTIES
  RollbackAfterWriteError
