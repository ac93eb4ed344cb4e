SPECIFICATION Spec
CONSTANTS
  ann = ann
  bob = bob
  cho = cho
  Lambdas = {l1, l2}
  Users = {ann, bob, cho}
  Hash <- SmallHash
  Base = 1000
  Space = 4
  MaxRetry = 2
  MaxList = 2
  None = None
INVARIANTS TypeOK OnePerUser SharedUidsCameFromARace FarHashKeepsUid
SYMMETRY AnyLambda
