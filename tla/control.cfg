CONSTANTS
  dev = dev
  block = block
  nobody = nobody
  none = none
  r1 = r1
  r2 = r2
  Process = {dev, block}
  Script = {block}
  Nobody = nobody
  Run = {r1, r2}
  NoRun = none
  MaxCommands = 3
  MaxBoots = 2
SPECIFICATION ControlSpec
INVARIANTS
  SingleWriter
  ReadsAreJournal
  
PROPERTIES
  AcceptedIsApplied
CHECK_DEADLOCK FALSE
