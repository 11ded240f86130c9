CONSTANTS
  HostNonces <- StartNonces
  DeviceNonces <- BootNonces
  MaxEarly = 2
  MaxRequest = 2
  MaxReset = 1
  Torn = FALSE
  GoesOn = FALSE
SPECIFICATION FairSpec
PROPERTIES StartAlwaysSucceeds
CHECK_DEADLOCK FALSE
