SPECIFICATION Spec
CONSTANTS
  m1 = m1
  Locks = {m1}
  Vars = {v}
  MaxLen = 8
  MaxNesting = 1
  MaxStray = 0
  LockHash <- HashOne
  NumLpFields = 1
  SizeMax = 15
  Moves = {TRUE}
  Leftovers = {}
INVARIANTS
  CopiesLinked
