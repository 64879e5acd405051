CONSTANTS
  Cpus = {c1, c2}
  Readers = {r1, r2}
  Writers = {w1}
  Buffers = {b1, b2}
  BufferEntries = 2
  Nmi = TRUE
  Codes = {0, 1}
  Restart = FALSE
  MaxTicks = 4
  MaxInterrupts = 6
  NULL = NULL
SPECIFICATION Spec
SYMMETRY ActorSymmetry
INVARIANTS
  OnePlace
  WholeRuns
  KeepsSampling
