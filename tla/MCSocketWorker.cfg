CONSTANTS
  PollFrames <- MCPollFrames
  WatchdogFrames = 4
  FirstWatchdog = 2
  StaleFrames = 3
  DelayedAfter = 2
  DelayedFallback = TRUE
  MaxDisturbances = 4
  MaxGeneration = 10
SPECIFICATION FairWorkerSpec
INVARIANTS OneLink OnePollPerFrame RestartsPaid
PROPERTIES Recovers
