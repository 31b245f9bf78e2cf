SPECIFICATION Spec
CONSTANTS
  Chunk = 2
  PushLimit = 2
  ChanCap = 1
  WireCap = 1
  Retention = 1
  SentKeep = 0
  CleanupEvery = 2
  MaxSamples = 2
  MaxCorrupt = 0
  MaxClock = 0
  MaxFaults = 1
  MaxDbErrors = 0
INVARIANT NeverLose
