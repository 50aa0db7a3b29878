SPECIFICATION Spec
CONSTANTS
  None = None
  IanaZones = {"Berlin", "Tokyo"}
  Offset <- Offsets
  Utc = "utc"
  Floating = "floating"
  DateOnly = "date"
  DayLength = 2
  Cutoff = 7
  Reminder = "reminder"
  Sources <- ThreeSources
  RuleLists <- UpToTwo
  Calendars <- Known
  Again <- NoRules
CHECK_DEADLOCK FALSE
INVARIANTS
  TypeOK
  OneEventPerIdentity
  MergeKeepsEach
  StableNames
  EveryZoneDefined
  ExpireKeepsWhatIsToCome
