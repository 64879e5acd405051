CONSTANTS
  Cpus = {c1, c2}
  Readers = {r1}
  Writers = {w1}
  Buffers = {b1, b2}
  BufferEntries = 2
  Nmi = FALSE
  Codes = {0, 1}
  Restart = TRUE
  MaxTicks = 4
  MaxInterrupts = 5
  NULL = NULL
SPECIFICATION Spec
SYMMETRY ActorSymmetry
INVARIANTS
  TypeOK
  WholeRuns
  DeliveryOrder
  MissedBounds
PROPERTIES
  ImplementsLifecycle
