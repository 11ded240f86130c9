CONSTANTS
  num_workers_ = 3
  big_count_ = 3
  little_count_ = 0
  Barriers = 2
  FailAt = {2}
  FailLanes = {0, 1, 2}
  Configs <- OneOrAll
  NumTasks = {0}
  MaxLaunch = 2
SPECIFICATION FairSpec
INVARIANTS LaunchIsComplete BarrierHolds
PROPERTIES LaunchReturns ResetReturns
