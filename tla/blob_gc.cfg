CONSTANTS
  Run = {r1, r2}
  Blob = {b1}
  NoBlob = nob
  Content = {b1, nob}
  NoRun = nor
  Grace = 1
  MaxEvents = 1
  MaxPasses = 1
  MaxTime = 2
SPECIFICATION LocalSpec
INVARIANT SpilledIsKept
CHECK_DEADLOCK FALSE
