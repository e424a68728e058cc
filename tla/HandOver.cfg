CONSTANTS
  Senders = {s1, s2}
  Receivers = {r1, r2}
  Tasks = {s1, r1, r2}
  Capacity = 2
  MaxMade = 3
  MaxShare = 2
  MaxBatch = 2
  Values = {u, v}
  NoValue = NoValue
  RingCapacity = 3
  Start = 2
  MaxCount = 9
SPECIFICATION MCSpec
SYMMETRY Symmetry
INVARIANTS
  HandlesCounted
  NobodyForgotten
  ValuesKept
  BurstGivenBack
PROPERTIES
  IsFifo
  NoThrashing
