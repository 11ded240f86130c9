CONSTANTS
  HostNonces <- StartNonces
  DeviceNonces <- BootNonces
  MaxEarly = 2
  MaxRequest = 2
  MaxReset = 1
  Torn = FALSE
  GoesOn = TRUE
SPECIFICATION Spec
INVARIANT AnswerIsOwn
CHECK_DEADLOCK FALSE
