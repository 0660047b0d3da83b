SPECIFICATION Spec
CONSTANTS
  Ids = {s1, s2}
  Retries = 2
  SharesLimit = 1
  PoolLimits = {1, 2}
  MaxBlock = 1
SYMMETRY IdSymmetry
INVARIANTS TypeOK CreditedIsTaken AcceptedCounted SharesKept TakenWithinLimit
PROPERTY LedgerKept
CHECK_DEADLOCK FALSE
