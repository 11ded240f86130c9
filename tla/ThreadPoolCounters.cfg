CONSTANTS
  num_workers_ = 3
  big_count_ = 3
  little_count_ = 0
  Barriers = 2
  FailAt = {2}
  FailLanes = {0, 1, 2}
  Configs = {}
  NumTasks = {2, 3}
  MaxLaunch = 2
SPECIFICATION Spec
INVARIANTS CountersAllocated
