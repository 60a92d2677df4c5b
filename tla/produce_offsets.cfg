\* Two Produces share a group commit.
SPECIFICATION ClientsSpec
CONSTANTS
  MaxOffset = 3
  MaxBatch = 2
  MaxBoots = 1
  Configs <- OneConfig
  RetentionEnabled = FALSE
  OpenMayFail = FALSE
  Consumers = {c1}
  MaxRecords = 2
INVARIANT
  AcksTellAssigned
CHECK_DEADLOCK FALSE
