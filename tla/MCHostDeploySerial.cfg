SPECIFICATION Spec
CONSTANTS
  Invocations = {i1, i2, i3}
  v1 = v1
  v2 = v2
  v3 = v3
  Versions <- MCVersions
  Empty = Empty
  None = None
  Level <- MCLevel
  Works <- MCWorks
  MaxTs = 3
  KeepBackups = 1
  Serial = TRUE
  UniqueTs = TRUE
  FreshBuilds = TRUE
INVARIANTS TypeOK BackupKept LiveTreePresent
PROPERTIES RollbackRestores DeploysAreAtomic
SYMMETRY AnyInvocation
CHECK_DEADLOCK FALSE
