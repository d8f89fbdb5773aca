SPECIFICATION ReviewSpec
CONSTANTS
  Features <- ReviewFeatures
  MaxCreateAttempts = 1
  MaxDestroyAttempts = 1
  MaxFinalAttempts = 1
  MaxSignals = 1
PROPERTIES
  CancelIsRecognized
CHECK_DEADLOCK FALSE
