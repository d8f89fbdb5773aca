SPECIFICATION FairSpec
CONSTANTS
  Supervisors = {s1, s2}
  Requests = {r1, r2}
  MaxRestarts = 1
INVARIANTS
  SessionIsExclusive
  ReceiptsAreHonest
PROPERTIES
  SupervisorEnds
CHECK_DEADLOCK FALSE
