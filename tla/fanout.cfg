CONSTANTS
  k1 = k1
  k2 = k2
  nokey = nokey
  d1 = d1
  free = free
  Driver = {d1}
  Free = free
  Task = {"draft", "charge", "ship"}
  Key = {k1, k2}
  NoKey = nokey
  Value = {"x"}
  Version = {"draft", "inner", "pair", "swap", "bulk"}
  Plan <- MCPlan
  Retries <- MCRetries
  Unsafe <- MCUnsafe
  MaxCrashes = 1
  MaxDrives = 3
SPECIFICATION Spec
INVARIANTS
  VerdictsAreDurable
  NoFalseDivergence
  ParksWhole
  ReadersSeeVerdicts
PROPERTY DriveEnds
CHECK_DEADLOCK FALSE
