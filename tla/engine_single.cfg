CONSTANTS
  d1 = d1
  d2 = d2
  free = free
  Driver = {d1}
  Free = free
  Task = {"charge", "ship", "model", "search"}
  Topic = {"approval"}
  Value = {"x", "y"}
  MaxCalls = 4
  Version = {"twice", "other", "agent", "bare"}
  Workflow <- MCWorkflow
  Origin <- MCOrigin
  Retries <- MCRetries
  Strict = TRUE
  VersionPolicy = "strict"
  Model = "model"
  ToolCalls <- MCToolCalls
  Tools <- MCTools
  MaxSteps = 2
  MaxCrashes = 1
  MaxResumes = 2
  MaxEvents = 1
  MaxTime = 1
SPECIFICATION Spec
INVARIANTS
  TypeOK
  TaskRecordedOnce
  ParksAreRecorded
  DriveOutcomeIsFirst
  StatusNeverLeads
  ReplayFollowsJournal
  AttemptsAreCounted
  AgentAnswers
PROPERTY NoReexecution
CHECK_DEADLOCK FALSE
