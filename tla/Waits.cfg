CONSTANTS
  Procs = {t1, t2, os}
  Tasks = {t1, t2}
  Locks = {m}
  NoProc = NoProc
  NoLock = NoLock
  MaxAdd = 2
  RwProcs = {p1, p2, p3, p4}
  RwTasks = {p1, p3, p4}
  Writers = {p3, p4}
  Blocks = {b1}
  Workers = {w1, w2}
  Queues = {lot}
  Lot = lot
  NoQueue = NoQueue
  NoBlock = NoBlock
  MaxGen = 2
  MaxLife = 1
  MaxLooks = 1
SPECIFICATION MCSpec
INVARIANTS
  TypeOK
  MutualExclusion
  NoStrandedWaiter
PROPERTIES
  RefinesLock
  HandedOn
  WaitsEnd
  RequestDelivered
