\* A segment is sealed between the two messages of a Fetch.
SPECIFICATION ClientsSpec
CONSTANTS
  MaxOffset = 3
  MaxBatch = 2
  MaxBoots = 1
  Configs <- OneConfig
  RetentionEnabled = FALSE
  OpenMayFail = FALSE
  Consumers = {c1}
  MaxRecords = 2
INVARIANT
  FetchNeverSkips
CHECK_DEADLOCK FALSE
