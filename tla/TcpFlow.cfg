SPECIFICATION FairSpec
CONSTANTS
  TCP_MSS = 1
  TCP_RECEIVE_WINDOW = 1
  GuestRoom = 1
  MaxHostBytes = 1
  MaxGuestBytes = 1
  MaxBehind = 1
  MaxLost = 0
PROPERTIES FlowSettles ReadsServed
\* a connection may be idle, and ends
CHECK_DEADLOCK FALSE
