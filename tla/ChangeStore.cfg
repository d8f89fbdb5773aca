SPECIFICATION Spec
CONSTANTS
  r1 = r1
  r2 = r2
  Runs = {r1, r2}
  MaxAttempts = 2
SYMMETRY RunSymmetry
INVARIANTS
  RecordIsExact
PROPERTIES
  ImplementsLedger
