SPECIFICATION MCSpec
CONSTANTS
  Plugins = 2
  MaxWorkers = 2
  MaxPrograms = 3
  MaxDepth = 4
  MaxInput = 3
  ChunkSizes = {1, 2}
  BufferSizes = {1, 2}
  MaxBuffers = 1
  MaxResets = 1
  MaxSizes = 1
  Requests = 3
  Pieces = 2
INVARIANTS NothingLeft StackSound PumpSound FlushCovers
PROPERTIES Closes ForkAnswered
\* a machine may idle, and ends
CHECK_DEADLOCK FALSE
