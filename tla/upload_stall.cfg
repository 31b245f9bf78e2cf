SPECIFICATION FairSpec
CONSTANTS
  Ids = {t1}
  Target = target
  Chunks = 2
  Workers = 1
  Window = 2
  MaxUploads = 2
  MaxErrors = 0
PROPERTIES
  RequestsAnswered
CHECK_DEADLOCK FALSE
