SPECIFICATION RSpec
CONSTANTS
  m1 = m1
  m2 = m2
  Locks = {m1, m2}
  Vars = {v}
  MaxLen = 4
  MaxNesting = 1
  MaxStray = 0
  LockHash <- HashTwo
  NumLpFields = 10
  SizeMax = 15
  Moves = {FALSE}
  Leftovers = {}
  NumFuncs = 2
  Tracking = {TRUE, FALSE}
CONSTRAINT
  SmallWithTwo
INVARIANTS
  OverlapExhaustive
  ReportedOnce
  SilenceMeansSameLocks
