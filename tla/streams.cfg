SPECIFICATION FairSpec
CONSTANTS
  Requests = {r1}
  Capacity = 1
  PipeSize = 1
  MaxOutput = 3
  MaxFaults = 1
INVARIANTS
  TypeOK
  EndIsComplete
PROPERTIES
  EndIsLast
  InOrder
  KeepsContract
  StreamsEnd
  Answered
  NobodyWaits
CHECK_DEADLOCK FALSE
