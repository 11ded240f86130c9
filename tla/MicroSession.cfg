CONSTANTS
  HostNonces <- StartNonces
  DeviceNonces <- BootNonces
  MaxEarly = 2
  MaxRequest = 2
  MaxReset = 2
  Torn = FALSE
  GoesOn = FALSE
SPECIFICATION FairSpec
INVARIANTS SessionsAgree NeverConfused AnswerIsOwn
PROPERTIES StartSucceeds
CHECK_DEADLOCK FALSE
