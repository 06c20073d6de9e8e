SPECIFICATION Spec
CONSTANTS
  Interval = 2
  Cooldown = 3
  Patience = 2
  Never = never
  MaxTime = 8
  MaxMedia = 2
  MaxFaults = 1
CHECK_DEADLOCK FALSE
INVARIANT CallsSpaced
PROPERTIES
  ScanIsCurrent
  HookNeverBlocks
