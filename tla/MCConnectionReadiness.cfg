SPECIFICATION Spec
CONSTANTS
  Uuids = {u1}
  Generations <- MCGenerations
  Paths = {p1, p2}
  NoPath = NoPath
  InvalidPath = InvalidPath
  Names = {n1, n2}
  NoName = NoName
  RepairWindow = 2
  MaxTime = 2
INVARIANTS
  LiveIsCurrent
  PathsMatchState
  TrustIsProven
PROPERTIES
  RepairWindowHeld
  ImplementsSessionReadiness
