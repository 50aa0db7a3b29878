SPECIFICATION FairSpec
CONSTANTS
  Jobs = {"j1", "j2"}
  Requests = {"r1"}
  Directions <- OneWay
  Exits = {"shutdown", "crash"}
  MaxRuns = 1
  MaxFailures = 1
  MaxEdits = 1
INVARIANTS
  TypeOK
  OnlyOverdueUnrecorded
PROPERTIES
  KeepsThePromise
  DueJobsRun
  JobsAreReleased
