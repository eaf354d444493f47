SPECIFICATION Spec
CONSTANTS
  Path <- MCPath
  Above <- MCAbove
  Node = {"absent", "dir", "old", "new"}
  Absent = "absent"
  Dir = "dir"
  Trees <- MCTrees
  Plan <- MCPlan
INVARIANT VerifiedBeforeStaging
CHECK_DEADLOCK FALSE
