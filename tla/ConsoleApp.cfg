SPECIFICATION FairSpec
CONSTANTS
  Tokens <- TwoTokens
  Feeds = {1, 2}
  Downloads = {3}
  MaxRotations = 1
  MaxFailures = 1
  Views <- TwoViews
INVARIANTS
  ScreensNeedASession
  LockMatches
PROPERTIES
  SessionEndsByItsToken
