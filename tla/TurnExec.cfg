SPECIFICATION FairSpec
CONSTANTS
  e1 = e1
  Executions = {e1}
  MaxActive = 1
  MaxPermissions = 1
  LeaseTicks = 1
  Operations <- ReplacedOperation
  Faults <- AllButLate
  MaxCrashes = 1
INVARIANTS
  LiveSandboxIsRecoverable
  NeverReplayed
  ApprovalIsDurable
  CompletionIsDeserved
PROPERTIES
  ImplementsContract
  TurnEnds
