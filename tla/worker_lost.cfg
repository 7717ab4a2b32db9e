CONSTANTS
  d1 = d1
  w = w
  free = free
  Driver = {d1, w}
  Worker = w
  Free = free
  Task = {"charge", "ship"}
  Topic = {"approval"}
  Value = {"x"}
  MaxCalls = 2
  Version = {"doze"}
  Workflow <- MCWorkflow
  Origin <- MCOrigin
  Retries <- MCRetries
  Strict = TRUE
  VersionPolicy = "warn"
  MaxCrashes = 1
  MaxResumes = 1
  MaxEvents = 0
  MaxTime = 1
  OtherRuns = FALSE
SPECIFICATION WorkerSpec
PROPERTY TimerEndsPark
CHECK_DEADLOCK FALSE
