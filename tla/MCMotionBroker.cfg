SPECIFICATION FairSpec
CONSTANTS
  Companions = {c1}
  Natives = {n1, n2}
  Players = {p1, p2}
  Generations = {g1, g2}
  LeaseTimes <- MCLeaseTimes
  MaxLease = 2
  Intervals <- MCIntervals
  MaxInterval = 2
  MaxSamples = 4
  None = None
INVARIANTS LaneIsCurrent NoLostWakeup
PROPERTIES ForwardsScoped ParkedLeaves
