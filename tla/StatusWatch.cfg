SPECIFICATION WatchFairSpec
CONSTANTS
  Features <- WatchedFeatures
  MaxCreateAttempts = 1
  MaxDestroyAttempts = 1
  MaxFinalAttempts = 1
  MaxSignals = 0
INVARIANTS
  FinalWordHolds
PROPERTIES
  RunEndsAccountedFor
CHECK_DEADLOCK FALSE
