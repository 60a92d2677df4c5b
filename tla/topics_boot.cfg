\* A crash in the middle of CreateTopic.
SPECIFICATION Spec
CONSTANTS
  Requests = {r1}
  MaxStarts = 1
  MaxUuids = 2
  MaxAlters = 1
  MaxBoots = 2
  AutoCreate = TRUE
  Disconnects = FALSE
INVARIANT
  CrashLeavesRecoverable
CHECK_DEADLOCK FALSE
