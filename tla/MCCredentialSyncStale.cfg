SPECIFICATION SyncSpec
CONSTANTS
  Lambdas = {l1}
  MaxRotations = 1
  MaxFailures = 0
  None = None
PROPERTIES RebootRefreshes
