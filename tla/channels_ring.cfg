SPECIFICATION FairSpec
CONSTANTS
  PwCap = 2
  UploadCap = 1
  DurableCap = 1
  MaxRequests = 7
  MaxBoots = 0
  Environments <- OnlyProduces
PROPERTIES SubmittedCompletes
CHECK_DEADLOCK FALSE
