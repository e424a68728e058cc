CONSTANTS
  Procs = {p1, p2, p3, p4}
  Tasks = {p1, p3, p4}
  Threshold = 3
  MaxTurns = 2
  MaxResets = 1
  Permits = 2
  Writers = {p3, p4}
  Members = {p1, p2, p3}
  MaxAdd = 2
  Channels = {1, 2}
  Selectors = {c1, c2}
  First = c1
  Receivers = {w}
  Lists <- MCLists
  MaxItems = 1
  None = None
  Blocks = {b1}
  Workers = {w1, w2}
  Queues = {q, lot}
  Lot = lot
  NoQueue = NoQueue
  NoBlock = NoBlock
  MaxGen = 2
  MaxLife = 2
  MaxLooks = 1
  CallTasks = {t1, t2}
  Ext = {e}
  Threads = {x1, x2, x3, x4}
  Jobs = {j1, j2, j3}
  MaxCalls = 2
  MaxBurst = 4
SPECIFICATION MCSpec
SYMMETRY Symmetry
INVARIANTS
  NobodyStranded
  NoSleepAtZero
  NothingMiscounted
  Exclusion
  SelectKept
  BlockingKept
  OneOwner
  SavedBeforeRunnable
  NothingOutlivesItsWait
  RequestNotLost
PROPERTIES
  CancelAimed
