SPECIFICATION Spec
CONSTANTS
  Invocations = {i1, i2}
  v1 = v1
  v2 = v2
  v3 = v3
  Versions <- MCVersions
  Empty = Empty
  None = None
  Level <- MCLevel
  Works <- MCWorks
  MaxTs = 2
  KeepBackups = 1
  Serial = FALSE
  UniqueTs = FALSE
  FreshBuilds = FALSE
INVARIANTS RunningIsLive
SYMMETRY AnyInvocation
CHECK_DEADLOCK FALSE
