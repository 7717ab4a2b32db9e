CONSTANTS
  d1 = d1
  free = free
  Driver = {d1}
  Free = free
  Task = {"draft"}
  Topic = {}
  Value = {"x"}
  MaxCalls = 3
  Version = {"twice"}
  Workflow <- MCWorkflow
  Origin <- MCOrigin
  Retries <- MCRetries
  Strict = TRUE
  VersionPolicy = "warn"
  MaxCrashes = 1
  MaxResumes = 1
  MaxEvents = 0
  MaxTime = 0
  MaxForks = 2
  Cuts <- MCCuts
  Specimen = {"login", "other", "moods", "grims", "mood", "used", "flat", "deep", "hid", "pair", "none"}
  Fields <- MCFields
  Members <- MCMembers
  StrEnums <- MCStrEnums
  Words <- MCWords
  MaxDepth = 2
  MaxPaths = 2
  Payload <- MCPayload
  Returns <- MCReturns
  Patterns <- MCPatterns
  Redacting = TRUE
  Metric = {"tokens", "usd"}
  Reports <- MCReports
SPECIFICATION ForkSpec
INVARIANTS
  ViewsAreTrue
  ForkReadsAsCut
  ReplayParity
  DiffIsHonest
  EvalIsHonest
  ForkParkIsComplete
PROPERTIES
  PrefixIsReused
CHECK_DEADLOCK FALSE
