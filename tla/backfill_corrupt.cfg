SPECIFICATION Spec
CONSTANTS
  Chunk = 1
  PushLimit = 2
  ChanCap = 1
  WireCap = 1
  Retention = 1
  SentKeep = 0
  CleanupEvery = 2
  MaxSamples = 2
  MaxCorrupt = 1
  MaxClock = 0
  MaxFaults = 0
  MaxDbErrors = 0
PROPERTY BackfillDrains
