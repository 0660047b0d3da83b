SPECIFICATION MainSpec
CONSTANTS
  W = 4
  Numbers <- MCNumbers
  PoolLists <- MCPoolLists
  MaxLines = 2
INVARIANTS StartsValid FileFollowed ThreadsOutlived EndsClean
CHECK_DEADLOCK FALSE
