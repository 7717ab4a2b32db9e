CONSTANTS
  Run = {r1, r2}
  Blob = {b1}
  NoBlob = nob
  Content = {b1}
  NoRun = nor
  Grace = 0
  MaxEvents = 1
  MaxPasses = 1
  MaxTime = 1
  Caller = {c1}
  MaxRetries = 1
SPECIFICATION Spec
INVARIANTS
  
  ForkIsPrefix
  
PROPERTIES
  
  KeepsPromise
  ShipEnds
SYMMETRY RunsAreAlike
CHECK_DEADLOCK FALSE
