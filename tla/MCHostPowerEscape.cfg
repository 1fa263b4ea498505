SPECIFICATION PowerFairSpec
CONSTANTS
  supply = supply
  Channels <- MCChannels
  Codes <- MCCodes
  Goals <- MCGoals
  MaxPowerFaults = 0
PROPERTIES
  EscapeStaysOpen
