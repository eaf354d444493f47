SPECIFICATION RenewalSpec
CONSTANTS
  Companions = {c1}
  Natives = {n1}
  Players = {p1, p2}
  Generations = {g1}
  LeaseTimes <- MCLeaseTimes
  MaxLease = 2
  Intervals <- MCIntervals
  MaxInterval = 2
  MaxSamples = 2
  None = None
PROPERTIES NoLeakIntoRenewal
