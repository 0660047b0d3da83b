SPECIFICATION FairSpec
CONSTANTS
  Prefix <- MCPrefix
  Period = 4
  First = 1
  Last = 2
  ThreadsCount = 1
  SharesLimit = 1
  DefaultShares = 2
  MaxShares = {2}
  Retries = 0
  Prompt = TRUE
  MaxHashes = 1
  MaxTime = 7
PROPERTY EveryBlockCloses
