CONSTANTS
  N = 3
  Bindings <- Chain
  len_ = 2
  MaxFrame = 3
SPECIFICATION FairSpec
INVARIANTS DataIsThere FramesInStep WakeUpIsDue
PROPERTIES EveryFrameComesOut
CHECK_DEADLOCK FALSE
