CONSTANTS
  Procs = {t1, t2, t3, os}
  Tasks = {t1, t2, t3}
  Threshold = 2
  MaxGen = 3
  MaxResets = 0
SPECIFICATION Spec
CHECK_DEADLOCK FALSE
INVARIANTS
  FalseMeansBroken
