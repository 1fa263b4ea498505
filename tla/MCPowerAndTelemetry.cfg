SPECIFICATION Spec
CONSTANTS
  supply = supply
  extract = extract
  Channels <- MCChannels
  Codes <- MCCodes
  Goals <- MCGoals
  MaxPowerFaults = 2
  NoValue = NoValue
  Resolutions <- MCResolutions
  Width <- MCWidth
  Keep <- MCKeep
  Roles <- MCRoles
  Devices <- MCDevices
  Kept <- MCKept
  RawKeep = 1
  MaxBuckets = 2
  BatchSize = 3
  BodyLimit = 2
  MaxSamples = 3
  MaxClock = 4
  MaxFaults = 1
INVARIANTS
  IsolatedBeforeDown
  OneAction
  ConfirmedMeansOff
  BatchesAreStable
  RollupsFaithful
  HistoryFaithful
PROPERTIES
  RequestsAreSettled
  DeliversBeforeForgetting
  EverySampleSynced
