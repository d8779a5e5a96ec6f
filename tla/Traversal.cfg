CONSTANTS
  Programs <- MCPrograms
  Pointers <- MCPointers
  LockFuncs <- MCLockFuncs
  UnlockFuncs <- MCUnlockFuncs
  UsrBegins <- MCUsrBegins
  MaxEntries = 1000
  Tracking = {TRUE, FALSE}
SPECIFICATION TFairSpec
INVARIANTS
  TTypeOK
  StackExact
  ThenBlockAhead
  CallsAligned
  ReachedCollected
  WritesClassified
  NoWildParameter
  SameArgumentSameUsr
  InliningInOrder
PROPERTIES
  ImplementsFootprint
  Termination
