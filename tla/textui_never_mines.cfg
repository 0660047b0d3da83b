SPECIFICATION MainFairSpec
CONSTANTS
  W = 4
  Numbers <- MCNumbers
  PoolLists <- MCPoolLists
  MaxLines = 0
PROPERTY MinesInLoop
CHECK_DEADLOCK FALSE
