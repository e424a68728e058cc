CONSTANTS
  Workers = {w1, w2}
  Ext = Ext
  None = None
  MaxTasks = 2
  MaxTime = 2
SPECIFICATION Spec
INVARIANTS
  DeadlineWatched
