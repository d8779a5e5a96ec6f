SPECIFICATION FairSpec
CONSTANTS
  NumFiles = 3
  MaxThreads = 3
  Commands = {0}
  ExtraArgs = TRUE
  MaxCreateFailures = 2
  SizeMax = 7
INVARIANTS
  TypeOK
  ExclusiveClaim
  WorkersGoneAfterJoin
  GarbageOnlyIfNoneDrained
PROPERTIES
  SlotWrittenOnce
  Termination
