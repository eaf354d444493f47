SPECIFICATION FairSpec
CONSTANTS
  Plugins = {p1, p2}
  Natives = {n1, n2}
  Ids = {i1, i2, i3}
  Commands = {k1}
  MaxRoutes = 2
  MaxPending = 1
  None = None
INVARIANTS TablesAgree OwedIsRouted
PROPERTIES EverySettles
