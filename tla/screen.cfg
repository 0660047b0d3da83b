SPECIFICATION Spec
CONSTANTS
  HistRows = 16
  InfoRows = 10
  PageRows = 3
  Heights <- MCHeights
  Pools = 2
INVARIANTS TypeOK ViewInPad ScreenFollows
PROPERTY NewestShown
CHECK_DEADLOCK FALSE
