SPECIFICATION Spec
CONSTANTS
  Nodes = {n1}
  StaleAfter = 1
  Grace = 2
  HistoryLimit = 1
  Conditions = {"well", "sensor_offline"}
  MaxBoots = 2
  MaxSeq = 2
  MaxAir = 2
  MaxTrouble = 2
  FaultCodes = {"unavailable"}
  NetworkParts = {"dhcp"}
  Threshold = 2
CHECK_DEADLOCK FALSE
INVARIANTS
  EveryNumberCounted
PROPERTIES
  NeverBackwards
  FaultNeverHidden
  SilenceIsReal
  LossReported
