CONSTANTS
  t1 = t1
  t2 = t2
  t3 = t3
  w1 = w1
  w2 = w2
  Init_ = Init_
  Workers = {w1}
  Tasks = {t1, t2, t3}
  Hangs = {}
  initializer = TRUE
  maximum_uses = 1
  timeout = TRUE
  MaxDeath = 0
SPECIFICATION Spec
INVARIANT EveryUseIsCounted
CHECK_DEADLOCK FALSE
