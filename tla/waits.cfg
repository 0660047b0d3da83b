SPECIFICATION FairSpec
CONSTANTS
  ThreadsCount = 1
  HandlerOn <- OnMain
INVARIANT RegistryExact
PROPERTIES TargetHeard SummaryHeard SleeperWoken
