SPECIFICATION FairSpec
CONSTANTS
  Lambdas = {l1, l2}
  MaxRotations = 2
  MaxFailures = 2
  None = None
INVARIANTS TypeOK DatabaseRecoverable CurrentWasRequested
PROPERTIES HandsOver RotationCompletes
CONSTRAINT Orderly
