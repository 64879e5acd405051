\* Two CPUs, two buffers of two samples, one session and its restart, on ARM
\* of a sampler that runs as well.
CONSTANTS
  Cpus = {1, 2}
  Home = 1
  Builds = {"arm", "intel"}
  Buffers = {b1, b2}
  Lists = {"empty", "full"}
  Ctxs <- MCCtxs
  BufferEntries = 2
  Restarts = {"arm"}
  ReadersClosed = TRUE
  MaxTicks = 3
  MaxStarts = 2
  NULL = NULL
SPECIFICATION LifeSpec
INVARIANTS WellLinked MemorySafe
PROPERTIES ImplementsQueues OperationsEnd
CHECK_DEADLOCK FALSE
