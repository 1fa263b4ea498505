SPECIFICATION Spec
CONSTANTS
  Addresses = {1}
  QueueSize = 2
  Confirmed = 2
  MaxTime = 3
  MaxMishaps = 1
  Zones = {"workshop", "annex"}
  Days = 2
  DayLength = 3
  Expectations = {"OCCUPIED_EXPECTED"}
  MaxWindows = 2
  MaxEdits = 1
  Devices = {a, b}
  Names = {x, y, z}
  Roles = {supply, extract}
  Clients = {c1, c2}
  None = None
  Absent = Absent
  Readings <- MCReadings
  Tunings <- MCTunings
  MaxCommands = 2
  MaxTrouble = 1
  StaleAfter = 1
  OfflineAfter = 2
  LastHour = 3
  MaxUpsets = 2
  NoTime = NoTime
  NoMessage = NoMessage
  Sensors = {d1, d2}
  Panels = {p1, p2}
  NoDialog = NoDialog
  MaxDialogs = 2
  Lines = {1}
  EdgeTimeout = 3
  MinPeriod = 2
  Averaging = 2
  BufferSize = 2
  LastMoment = 5
  MaxFailures = 1
  Codes = {"DAC_STATE_UNCERTAIN", "DAC_COMMUNICATION_LOST", "DAC_OUTPUT_MISMATCH", "TACHO_MONITOR_UNAVAILABLE", "TACHO_CONFIGURATION_INVALID", "FAN_RPM_OUT_OF_RANGE", "WEATHER_UNAVAILABLE", "SENSOR_DATA_INVALID"}
  Candidates <- MCCandidates
  Default <- MCDefault
  NoDocument = NoDocument
  NotRunning = NotRunning
  MaxPolicyEdits = 1
  Alerts = {1, 2, 3}
  DaySpan = 2
  PageSize = 1
  WindowDays = 1
  LastInstant = 2
  NoAnswer = NoAnswer
  NoCursor = NoCursor
  NoList = NoList
  LastPoll = 2
  LastAnalysis = 2
  FreshFor = 1
  BridgeAhead = 1
  MaxAccidents = 1
  NoFile = NoFile
  Torn = Torn
  NoPayload = NoPayload
  MaxChanges = 1
  NoTiles = NoTiles
SYMMETRY Symmetry
INVARIANTS
  OldReadingsAreSignalled
  AdviceStaysSound
  ScheduleIsExact
  RegistrySound
  SilenceSignalled
  RemovalAsked
  FeedbackTrue
  PolicyStaysHonest
  JournalComplete
  ShownIsTrue
CHECK_DEADLOCK FALSE
