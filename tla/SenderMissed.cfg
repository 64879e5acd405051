CONSTANTS
  Pids = {1}
  Checks = 1
  MaxQuantity = 2
  NULL = NULL
  Cores = {1}
  BufferEntries = 2
  Kbytes = 0
  MaxBuffers = 3
  MaxFails = 0
  MaxTurns = 1
SPECIFICATION SenderSpec
PROPERTY
  MissedReported
