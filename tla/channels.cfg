SPECIFICATION FairSpec
CONSTANTS
  PwCap = 2
  UploadCap = 1
  DurableCap = 1
  MaxRequests = 7
  MaxBoots = 1
  Environments <- SomeEnvironments
INVARIANTS TypeOK RingOrdered DeleteQuiesces
PROPERTIES RequestsAnswered StartupCompletes DeletedTasksEnd
CHECK_DEADLOCK FALSE
