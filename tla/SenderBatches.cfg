CONSTANTS
  Pids = {1, 2}
  Checks = 1
  MaxQuantity = 2
  NULL = NULL
  Cores = {1}
  BufferEntries = 3
  Kbytes = 5
  MaxBuffers = 4
  MaxFails = 1
  MaxTurns = 1
SPECIFICATION SenderLiveSpec
INVARIANTS
  SenderTypeOK
  EachBufferOnce
  BatchLayout
  PacketsUniform
  KernelIffNameless
  NeverRefused
  Accounted
PROPERTIES
  InfoStable
  Finishes
