CONSTANTS
  Programs <- Control
  Pointers <- MCPointers
  LockFuncs <- MCLockFuncs
  UnlockFuncs <- MCUnlockFuncs
  UsrBegins <- MCUsrBegins
  MaxEntries = 1000
  Tracking = {TRUE, FALSE}
SPECIFICATION TSpec
INVARIANTS
  FootprintsComplete
