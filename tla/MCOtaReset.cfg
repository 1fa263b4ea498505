SPECIFICATION OtaSpec
CONSTANTS
  Nodes = {n1}
  MaxOps = 2
  MaxResets = 1
  MaxStops = 1
CHECK_DEADLOCK FALSE
INVARIANTS
  EveryVerdictTrue
