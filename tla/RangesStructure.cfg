SPECIFICATION FairSpec
CONSTANTS
  m1 = m1
  Locks = {m1}
  Vars = {v}
  MaxLen = 7
  MaxNesting = 2
  MaxStray = 1
  LockHash <- HashOne
  NumLpFields = 1
  SizeMax = 15
  Moves = {TRUE, FALSE}
  Leftovers <- LeftoverField
INVARIANTS
  TypeOK
  OpenRangeIsTail
  PointersLive
  TailDepthZero
  ArrayBounded
  ListRangesDisjoint
  ThenPathExact
PROPERTIES
  RangesFrozen
  ScanTerminates
