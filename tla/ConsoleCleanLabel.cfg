CONSTANTS
  Runs = {r1}
  Hardenings <- UnmeasuredHardenings
  MaxFaults = 0
  MaxNonce = 0
SPECIFICATION Spec
INVARIANTS
  MissingIsMissing
