\* No retention; crashes, failing fsyncs, store calls and file removals.
SPECIFICATION Spec
CONSTANTS
  MaxOffset = 6
  MaxBatch = 2
  MaxBoots = 2
  Configs <- TwoConfigs
  RetentionEnabled = FALSE
  OpenMayFail = FALSE
INVARIANTS
  OffsetsUnique
  ManifestTiles
  ShutdownDrained
PROPERTY
  IsCommitLog
CHECK_DEADLOCK FALSE
