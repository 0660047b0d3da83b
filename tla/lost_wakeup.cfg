SPECIFICATION FairSpec
CONSTANTS
  ThreadsCount = 1
  HandlerOn <- OnMain
PROPERTY StopEnds
