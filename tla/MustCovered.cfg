SPECIFICATION Spec
CONSTANTS
  m1 = m1
  Locks = {m1}
  Vars = {v}
  MaxLen = 9
  MaxNesting = 1
  MaxStray = 0
  LockHash <- HashOne
  NumLpFields = 1
  SizeMax = 15
  Moves = {FALSE}
  Leftovers = {}
INVARIANTS
  MustHeldCovered
