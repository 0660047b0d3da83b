SPECIFICATION Spec
CONSTANTS
  Prefix <- MCPrefix
  Period = 4
  First = 1
  Last = 2
  ThreadsCount = 2
  SharesLimit = 1
  DefaultShares = 2
  MaxShares = {0, 2}
  Retries = 0
  Prompt = TRUE
  MaxHashes = 1
  MaxTime = 7
INVARIANTS ShareLimit TargetNotErased
