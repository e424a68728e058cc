CONSTANTS
  Tasks = {c1}
  Ext = {}
  Workers = {w1}
  Threads = {p1}
  Jobs = {j1}
  MaxThreads = 1
  MaxPending = 1
  MaxCalls = 1
  None = None
SPECIFICATION Spec
CHECK_DEADLOCK FALSE
INVARIANTS
  RecordsGivenBack
