SPECIFICATION FairSpec
CONSTANTS
  e1 = e1
  e2 = e2
  w1 = w1
  w2 = w2
  e3 = e3
  Jobs = {e1, e2, e3, w1, w2}
  Exempt = {e1, e2, e3}
  Bytes <- MCBytes
  MaxDepth <- MCMaxDepth
  MaxBytes <- MCMaxBytes
  Enabled = TRUE
  None = None
INVARIANTS OneWriter NoLostWakeup WithinBudgets
PROPERTIES Served
