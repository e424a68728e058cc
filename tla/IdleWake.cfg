CONSTANTS
  Workers = {w1, w2}
  Ext = Ext
  None = None
  MaxTasks = 2
  MaxTime = 1
SPECIFICATION FairSpec
INVARIANTS
  NoLostWakeup
PROPERTIES
  WorkServed
  StopEnds
