CONSTANTS
  d1 = d1
  w = w
  free = free
  Driver = {d1, w}
  Worker = w
  Free = free
  Task = {"charge", "ship"}
  Topic = {"approval"}
  Value = {"x"}
  MaxCalls = 2
  Version = {"doze", "guard", "pair", "inbox"}
  Workflow <- MCWorkflow
  Origin <- MCOrigin
  Retries <- MCRetries
  Strict = TRUE
  VersionPolicy = "warn"
  MaxCrashes = 0
  MaxResumes = 1
  MaxEvents = 2
  MaxTime = 2
  OtherRuns = FALSE
SPECIFICATION WorkerSpec
INVARIANT NothingTwice
PROPERTIES
  EventWins
  ParkEnds
CHECK_DEADLOCK FALSE
