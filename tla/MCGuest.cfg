SPECIFICATION MCSpec
CONSTANTS
  Ports = {"a", "b", "c"}
  Roaming = "x"
  RECEIVE_BACKLOG = 1
  MAX_PENDING_FRAMES = 2
  MaxFrames = 3
  MaxBuffers = 1
  MaxResets = 1
  MaxSessions = 2
  max_lanes = 1
  Procs = {"p", "q"}
  Calls = {"a", "b"}
  Mixes <- Pairs
  Fds = {1, 2, 3}
  Total = 2
  Depth = 2
  MaxOps = 2
  Body = 2
  Upload = 1
  Pieces = 2
  Guests = {"g", "h"}
  Identifications = {1}
  Contents = {"a", "b"}
  MaxLength = 3
  MAX_IP_REASSEMBLIES = 1
  MAX_IP_FRAGMENTS = 2
  FirstPort = 0
  LastPort = 1
  UDP_READABLE_QUEUE_CAP = 1
INVARIANTS
  FramesInOrder SenderHeldByReceiver StartsClean OneSession
  FilesOwned WholeOrFailed MkdirsMeet ResponseWhole FetchReleases OneAnswer
  ReassembledWhole NothingOfTheGone
  TableSound NothingKept StreamsReceived ConnectionSound
\* exchanges, files and sessions end, and every bound is reached
CHECK_DEADLOCK FALSE
