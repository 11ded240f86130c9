CONSTANTS
  kRingSize = 3
  MaxPush = 5
SPECIFICATION FairSpec
INVARIANTS SanityCheck InOrder NoLostWakeup PendingInRange
PROPERTIES ImplementsTaskQueue
