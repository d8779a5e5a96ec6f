SPECIFICATION Spec
CONSTANTS
  m1 = m1
  Locks = {m1}
  Vars = {v}
  MaxLen = 9
  MaxNesting = 2
  MaxStray = 0
  LockHash <- HashOne
  NumLpFields = 10
  SizeMax = 15
  Moves = {FALSE}
  Leftovers = {}
INVARIANTS
  ElseProtected
