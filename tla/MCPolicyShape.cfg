SPECIFICATION RestartedCore
CONSTANTS
  Codes = {"DAC_STATE_UNCERTAIN", "DAC_COMMUNICATION_LOST", "DAC_OUTPUT_MISMATCH", "TACHO_MONITOR_UNAVAILABLE", "TACHO_CONFIGURATION_INVALID"}
  Candidates <- MCCandidates
  Default <- MCDefault
  NoDocument = NoDocument
  NotRunning = NotRunning
  MaxPolicyEdits = 1
CHECK_DEADLOCK FALSE
PROPERTIES
  CoreComesUp
