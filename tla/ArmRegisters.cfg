\* One CPU, periods of 1 to 3 cycles, counters that wrap at 8.
CONSTANTS
  num_ctrs = 2
  Attrs = 2
  Events = {1}
  Modulus = 8
  DefaultEvent = 1
  DefaultPeriod = 3
  Periods = {1, 3}
  MIN_PERIOD = 2
  MaxElapsed = 5
  NULL = NULL
SPECIFICATION PmuSpec
INVARIANTS PmuTypeOK CyclesOfWindow OwnEvents OverflowNear SilentWhenStopped
CHECK_DEADLOCK FALSE
