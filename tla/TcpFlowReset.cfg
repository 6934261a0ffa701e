SPECIFICATION FairSpec
CONSTANTS
  TCP_MSS = 1
  TCP_RECEIVE_WINDOW = 1
  GuestRoom = 1
  MaxHostBytes = 1
  MaxGuestBytes = 0
  MaxBehind = 1
  MaxLost = 0
PROPERTIES ClosedMeansReset
\* a connection may be idle, and ends
CHECK_DEADLOCK FALSE
