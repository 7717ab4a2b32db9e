CONSTANTS
  d1 = d1
  w = w
  free = free
  Driver = {d1, w}
  Worker = w
  Free = free
  Task = {"charge", "ship"}
  Topic = {"approval"}
  Value = {"x"}
  MaxCalls = 2
  Version = {"nap", "ship", "guard"}
  Workflow <- MCWorkflow
  Origin <- MCOrigin
  Retries <- MCRetries
  Strict = TRUE
  VersionPolicy = "warn"
  MaxCrashes = 1
  MaxResumes = 1
  MaxEvents = 1
  MaxTime = 2
  OtherRuns = TRUE
SPECIFICATION WorkerSpec
INVARIANTS
  FiresOnceInTime
PROPERTY ImplementsRun
CHECK_DEADLOCK FALSE
