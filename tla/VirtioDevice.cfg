SPECIFICATION FairSpec
CONSTANTS
  NumQueues = 1
  Views = TRUE
  MaxRings = 2
  MaxResets = 1
  MaxRequests = 2
INVARIANT DeviceSound
PROPERTY DeviceProgress
\* the guest may stop and the device be shut down
CHECK_DEADLOCK FALSE
