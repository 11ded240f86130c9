CONSTANTS
  t1 = t1
  t2 = t2
  t3 = t3
  w1 = w1
  w2 = w2
  Init_ = Init_
  Workers = {w1, w2}
  Tasks = {t1, t2, t3}
  Hangs = {t3}
  initializer = TRUE
  maximum_uses = 2
  timeout = TRUE
  MaxDeath = 1
SPECIFICATION FairSpec
INVARIANTS OwnResult InStep ResultIsFinal UsesAreBounded
PROPERTIES EveryTaskEnds
CHECK_DEADLOCK FALSE
