SPECIFICATION Spec
CONSTANTS
  Invocations = {i1, i2}
  v1 = v1
  v2 = v2
  v3 = v3
  Versions <- MCVersions
  Empty = Empty
  None = None
  Level <- MCLevel
  Works <- MCWorks
  MaxTs = 2
  KeepBackups = 3
  Serial = TRUE
  UniqueTs = TRUE
  FreshBuilds = TRUE
PROPERTIES FailureRestores
SYMMETRY AnyInvocation
CHECK_DEADLOCK FALSE
