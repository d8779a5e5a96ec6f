SPECIFICATION Spec
CONSTANTS
  NumFiles = 2
  MaxThreads = 2
  Commands = {0}
  ExtraArgs = TRUE
  MaxCreateFailures = 0
  SizeMax = 7
INVARIANTS
  ClangArgsPassed
