SPECIFICATION SafetySpec
CONSTANTS
  Features <- SafetyFeatures
  MaxCreateAttempts = 2
  MaxDestroyAttempts = 2
  MaxFinalAttempts = 2
  MaxSignals = 1
INVARIANTS
  TypeOK
  SuccessIsEarned
  VerdictFollowsAudit
  TamperIsRecorded
  AgentBehindBoundary
  OneSandboxPerRun
  WorkSandboxGone
  ManifestAgrees
PROPERTIES
  SecurityStopIsFinal
  ImplementsLifecycle
CHECK_DEADLOCK FALSE
