SPECIFICATION Spec
CONSTANTS
  Threshold = 2
  MinVolt = 10
  MaxVolt = 100
  Requested <- MCRequested
  MaxDacFaults = 3
  AeroCommands <- MCCommands
  Held <- MCHeld
  MaxRequests = 2
  MaxAeroFaults = 2
  Kinds = {"protocol", "serial"}
INVARIANTS
  KnownOutputsAreTrue
  FaultsAreReported
  ReadyProxyHasReadyWorker
  NoRequestOutlivesItsWorker
PROPERTIES
  ImplementsFanSafety
  LockIsReleased
  FaultsAreRecovered
  ClientIsToldTheTruth
  ControlComesBack
