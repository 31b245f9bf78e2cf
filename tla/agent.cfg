SPECIFICATION FairSpec
CONSTANTS
  MaxBackoff = 5
  MaxKeys = 4
  MaxFaults = 4
  MaxSaveErrors = 2
INVARIANTS
  TypeOK
  NotLockedOut
  RestartSafe
  LoadableAlways
  BackoffDoubles
PROPERTIES
  ComesBack
CHECK_DEADLOCK FALSE
