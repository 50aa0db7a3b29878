SPECIFICATION Spec
CONSTANTS
  None = None
  IanaZones = {"Berlin", "Tokyo"}
  Offset <- Offsets
  Utc = "utc"
  Floating = "floating"
  DateOnly = "date"
  DayLength = 2
  Cutoff = 7
  Reminder = "reminder"
  Sources <- TwoSources
  RuleLists <- OnlyDedup
  Calendars <- OfficeHours
  Again = {}
CHECK_DEADLOCK FALSE
INVARIANTS
  DedupKeepsDates
