SPECIFICATION RolesSpec
CONSTANTS
  Devices = {a, b}
  Names = {x, y}
  Roles = {supply, extract}
  Clients = {c1, c2}
  None = None
  MaxCommands = 2
  MaxTrouble = 0
CHECK_DEADLOCK FALSE
PROPERTIES
  HolderIsNotReplaced
