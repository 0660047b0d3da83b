SPECIFICATION MainSpec
CONSTANTS
  W = 4
  Numbers <- MCNumbers
  PoolLists <- MCPoolLists
  MaxLines = 1
INVARIANT ArgumentsOverride
CHECK_DEADLOCK FALSE
