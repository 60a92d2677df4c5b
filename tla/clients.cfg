\* Producers and one consumer of a live partition.
SPECIFICATION ClientsFairSpec
CONSTANTS
  MaxOffset = 3
  MaxBatch = 2
  MaxBoots = 1
  Configs <- OneConfig
  RetentionEnabled = TRUE
  OpenMayFail = FALSE
  Consumers = {c1}
  MaxRecords = 2
INVARIANTS
  DeliveredDurable
  ToldCommitted
PROPERTIES
  FetchAnswered
  ProduceAnswered
CHECK_DEADLOCK FALSE
