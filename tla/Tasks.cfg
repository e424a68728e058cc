CONSTANTS
  Coroutines = {1, 2, 3, 4, 5}
  Deadlines = {1, 2}
  InitCap = 1
  MaxCap = 6
  TimerBatch = 2
  MaxSeq = 6
  Workers = {w1, w2}
  Tasks = {1, 2, 3}
  NoTask = NoTask
  Cap = 2
  StealMax = 2
  YMax = 0
  BatchMax = 1
  MaxTail = 3
  Handles = {h1, h2, h3}
  MaxRef = 2
  Wrap = 12
  MaxForgot = 3
  Blocks = {b1, b2}
  Others = {o}
  Cancellers = {k}
  Own = Own
  Owner = Owner
  Reasons = {user, sys}
  User = user
  CancelBatch = 1
  MaxSpawn = 2
  NoReason = NoReason
SPECIFICATION MCSpec
INVARIANTS
  EveryTaskOnce
  ArcSound
  GroupKept
PROPERTIES
  IsTimerSet
