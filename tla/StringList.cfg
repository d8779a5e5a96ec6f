CONSTANTS
  Words = {"", "abc"}
  Width <- MCWidth
  InitialCap = 2
  InitialCount = 1
  Addresses = {1, 4}
  MaxCount = 3
SPECIFICATION LFairSpec
INVARIANTS
  LTypeOK
  StringsLive
PROPERTIES
  ImplementsList
  PushReturns
CHECK_DEADLOCK FALSE
