CONSTANTS
  Runs = {r1}
  Hardenings <- SomeHardenings
  MaxFaults = 1
  MaxNonce = 1
SPECIFICATION FairSpec
INVARIANTS
  LabelsAreGrounded
  ViewsAgree
PROPERTIES
  OperatorIsTold
