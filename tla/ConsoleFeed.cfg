SPECIFICATION FairSpec
CONSTANTS
  Keys <- TwoKeys
  MaxEffects = 3
  MaxVersion = 2
  MaxFailures = 1
INVARIANTS
  OneChain
  SettledIsCurrent
PROPERTIES
  ImplementsLatestAnswer
  CatchesUp
CHECK_DEADLOCK FALSE
