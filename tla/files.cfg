SPECIFICATION Spec
CONSTANTS
  KeyLenMod = 2
  Unset = Unset
  DefaultMaxKey = 1
  DefaultMaxValue = 1
  Tomls <- SomeTomls
  Overrides <- SomeOverrides
  Batches <- SomeBatches
  MaxBoots = 3
  MaxFrames = 3
  MaxAdmin = 2
INVARIANTS TypeOK IdentityStable BootsOnOwnFiles ConfigKept AckedComeBack NothingInvented
CHECK_DEADLOCK FALSE
