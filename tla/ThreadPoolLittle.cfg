CONSTANTS
  num_workers_ = 3
  big_count_ = 3
  little_count_ = 0
  Barriers = 2
  FailAt = {2}
  FailLanes = {}
  Configs <- LittleCores
  NumTasks = {0}
  MaxLaunch = 1
SPECIFICATION FairSpec
PROPERTIES LaunchReturns
CHECK_DEADLOCK FALSE
