SPECIFICATION FairSpec
CONSTANTS
  Prefix <- MCPrefix
  Period = 4
  First = 1
  Last = 2
  ThreadsCount = 2
  SharesLimit = 0
  DefaultShares = 1
  MaxShares = {0, 1}
  Retries = 1
  Prompt = TRUE
  MaxHashes = 1
  MaxTime = 4
INVARIANT ShareLimit
PROPERTIES BlockCloses StopEnds
