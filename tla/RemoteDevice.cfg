SPECIFICATION FairSpec
CONSTANTS
  NumQueues = 1
  Views = TRUE
  MaxRings = 2
  MaxResets = 2
  MaxRequests = 1
INVARIANTS OwnCompletionsOnly NothingInFlight
PROPERTY EverybodyAnswered
\* the guest, the host and the worker may all have nothing left to do
CHECK_DEADLOCK FALSE
