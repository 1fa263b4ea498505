SPECIFICATION ObservedSpec
CONSTANTS
  Threshold = 2
  MinVolt = 10
  MaxVolt = 100
  Requested <- MCRequested
  MaxDacFaults = 1
PROPERTIES
  ControlledShutdownZeroes
