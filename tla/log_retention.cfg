\* Retention on: eviction interleaves with uploads, WAL removal and crashes,
\* under a store that may fail any number of times.
SPECIFICATION FairSpec
CONSTANTS
  MaxOffset = 5
  MaxBatch = 2
  MaxBoots = 2
  Configs <- OneConfig
  RetentionEnabled = TRUE
  OpenMayFail = FALSE
INVARIANTS
  TypeOK
  AckedDurable
  ManifestBacked
PROPERTIES
  LastUploadedNeverRegresses
  SealedReachesManifest
CHECK_DEADLOCK FALSE
