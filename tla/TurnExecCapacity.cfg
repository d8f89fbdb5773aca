SPECIFICATION Spec
CONSTANTS
  e1 = e1
  e2 = e2
  Executions = {e1, e2}
  MaxActive = 1
  MaxPermissions = 1
  LeaseTicks = 1
  Operations <- NoOperations
  Faults <- LateFaults
  MaxCrashes = 0
SYMMETRY ExecutionSymmetry
INVARIANTS
  CapacityHolds
