CONSTANTS
  MaxLines = 4
  MaxRequests = 3
  MaxBreaks = 2
  WireCap = 1
  InCap = 2
SPECIFICATION FairClientSpec
PROPERTIES ImplementsChannels LossIsAccounted NothingHangs
CHECK_DEADLOCK FALSE
