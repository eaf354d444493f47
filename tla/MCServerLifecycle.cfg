CONSTANTS
  MaxProcesses = 3
  Starts = {s1, s2}
  NoChild = NoChild
SPECIFICATION FairSpec
INVARIANTS FlagsTruthful OneServer
PROPERTIES StopCompletes
