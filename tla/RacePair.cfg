SPECIFICATION RSpec
CONSTANTS
  m1 = m1
  m2 = m2
  Locks = {m1}
  Vars = {v}
  MaxLen = 4
  MaxNesting = 0
  MaxStray = 0
  LockHash <- HashOne
  NumLpFields = 10
  SizeMax = 15
  Moves = {FALSE}
  Leftovers = {}
  NumFuncs = 2
  Tracking = {TRUE}
INVARIANTS
  UnprotectedPairReported
