\* Two requests at a time and a resumed sweep, two restarts.
SPECIFICATION Spec
CONSTANTS
  Requests = {r1, r2}
  MaxStarts = 2
  MaxUuids = 3
  MaxAlters = 1
  MaxBoots = 3
  AutoCreate = TRUE
  Disconnects = TRUE
INVARIANTS
  TypeOK
  LiveTopicStored
  RegistryPersisted
  DeletedStaysDeleted
  DeletionNotForgotten
  SweepComplete
  LocksReleased
SYMMETRY Interchangeable
CHECK_DEADLOCK FALSE
