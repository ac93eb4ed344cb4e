SPECIFICATION SyncSpec
CONSTANTS
  Lambdas = {l1}
  MaxRotations = 2
  MaxFailures = 1
  None = None
INVARIANTS SyncTypeOK OneDeployIsEnough
