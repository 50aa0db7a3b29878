SPECIFICATION Spec
CONSTANTS
  Jobs = {"j1", "j2"}
  Requests = {"r1"}
  Directions <- TwoWays
  Exits = {}
  MaxRuns = 2
  MaxFailures = 0
  MaxEdits = 0
PROPERTIES
  RunsFromLatestState
CHECK_DEADLOCK FALSE
