\* One consumer reads the store while segments are uploaded and uploaded again.
SPECIFICATION ClientsSpec
CONSTANTS
  MaxOffset = 3
  MaxBatch = 2
  MaxBoots = 1
  Configs <- EveryProduce
  RetentionEnabled = FALSE
  OpenMayFail = FALSE
  Consumers = {c1}
  MaxRecords = 2
INVARIANT
  StoreAnswerExact
CHECK_DEADLOCK FALSE
