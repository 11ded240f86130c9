CONSTANTS
  N = 3
  Bindings <- Chain
  len_ = 2
  MaxFrame = 3
SPECIFICATION Spec
INVARIANT InputsAreKept
CHECK_DEADLOCK FALSE
