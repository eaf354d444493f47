SPECIFICATION FairSpec
CONSTANTS
  c1 = c1
  c2 = c2
  c3 = c3
  Callers = {c1, c2, c3}
  Workers = {1, 2, 3}
INVARIANTS OneThread EventsOnce
PROPERTIES UnloadEnds
CHECK_DEADLOCK FALSE
