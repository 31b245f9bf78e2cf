SPECIFICATION FairSpec
CONSTANTS
  Ids = {t1}
  Target = target
  Chunks = 2
  Workers = 2
  Window = 2
  MaxUploads = 2
  MaxErrors = 1
INVARIANTS
  TypeOK
  HashedOnce
  CompleteStays
  RefusedLeavesNothing
PROPERTIES
  CompleteIsOnDisk
  RequestsAnswered
CHECK_DEADLOCK FALSE
