SPECIFICATION FairSpec
CONSTANTS
  Chunk = 2
  PushLimit = 2
  ChanCap = 1
  WireCap = 1
  Retention = 0
  SentKeep = 0
  CleanupEvery = 2
  MaxSamples = 3
  MaxCorrupt = 1
  MaxClock = 1
  MaxFaults = 1
  MaxDbErrors = 1
INVARIANTS
  TypeOK
  SentWasHandedOver
  NoRowVanishes
  OnlyFaultsLose
  InFlightInOrder
  NoResendOnConnection
PROPERTIES
  ExpiryIsByAge
  ContractSpec
  BackfillDrains
  Drains
