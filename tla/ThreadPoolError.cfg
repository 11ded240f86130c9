CONSTANTS
  num_workers_ = 3
  big_count_ = 3
  little_count_ = 0
  Barriers = 0
  FailAt = {0}
  FailLanes = {1, 2}
  Configs = {}
  NumTasks = {0}
  MaxLaunch = 1
SPECIFICATION Spec
INVARIANTS ErrorReported
