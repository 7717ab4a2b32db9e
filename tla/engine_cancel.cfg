CONSTANTS
  d1 = d1
  d2 = d2
  free = free
  Driver = {d1, d2}
  Free = free
  Task = {"charge", "ship"}
  Topic = {"approval"}
  Value = {"x"}
  MaxCalls = 3
  Version = {"charge"}
  Workflow <- MCWorkflow
  Origin <- MCOrigin
  Retries <- MCRetries
  Strict = TRUE
  VersionPolicy = "warn"
  Model = "charge"
  ToolCalls <- MCToolCalls
  Tools <- MCTools
  MaxSteps = 2
  MaxCrashes = 0
  MaxResumes = 2
  MaxEvents = 1
  MaxTime = 0
SPECIFICATION Spec
PROPERTY OutcomeIsFinal
CHECK_DEADLOCK FALSE
