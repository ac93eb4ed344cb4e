SPECIFICATION QuotaSpec
CONSTANTS
  Lambdas = {l1, l2}
  Multipliers <- MCMultipliers
  Ceiling = 7
  Limits = {1, 2, 9}
  MaxChanges = 1
  MaxTrouble = 2
INVARIANTS RequestsAreRaises
PROPERTIES LimitIsLifted
CHECK_DEADLOCK FALSE
